--------------------------- MODULE ModeConv_proofs ---------------------------
(***************************************************************************)
(* Proofs about ModeConv for all words: where the tables send bits they    *)
(* are found again, and so are the words, by whoever reads them there.     *)
(***************************************************************************)
EXTENDS ModeConv, SequenceTheorems, FiniteSetTheorems, WellFoundedInduction, TLAPS

\* A word of n bits.
HasBits(word, n) == word = [i \in 1 .. n |-> word[i]]

\* The words of an AMBE frame, and the chunks of a DMR frame.
IsAmbe(a, b, c) == HasBits(a, 12) /\ HasBits(b, 12) /\ HasBits(c, 25)
AreChunks(x, y, z) == HasBits(x, 72) /\ HasBits(y, 72) /\ HasBits(z, 72)
Ambe(a, b, c) == [a |-> a, b |-> b, c |-> c]

-----------------------------------------------------------------------------

\* The tables are permutations of the places, and the inverses are theirs.

LEMMA DmrPlaces ==
    ASSUME NEW t \in 0 .. 71
    PROVE  DmrTable(t) \in 0 .. 71 /\ DmrSource(DmrTable(t)) = t
  BY DEF DmrTable, DmrSource

LEMMA VchPlaces ==
    ASSUME NEW i \in 0 .. 103
    PROVE  VchTable(i) \in 0 .. 103 /\ VchSource(VchTable(i)) = i
  BY DEF VchTable, VchSource

LEMMA BptcPlaces ==
    ASSUME NEW n \in 1 .. 195
    PROVE  (n * 181) % 196 \in 1 .. 195 /\ BptcSource((n * 181) % 196) = n
  BY DEF BptcSource

\* What is whitened or scrambled twice is as it was.
LEMMA XorTwice == ASSUME NEW x, NEW y PROVE Xor(Xor(x, y), y) = x
  BY DEF Xor

\* What words put together, and their parts, are.
\* (The provers use what is known of Join better than of \o.)
Join(s, t) == s \o t

LEMMA Joined ==
    ASSUME NEW m \in Nat, NEW n \in Nat, NEW s, NEW t, HasBits(s, m), HasBits(t, n)
    PROVE  /\ HasBits(Join(s, t), m + n)
           /\ \A i \in 1 .. m : Join(s, t)[i] = s[i]
           /\ \A i \in 1 .. n : Join(s, t)[m + i] = t[i]
  <1>. DEFINE S == {s[i] : i \in 1 .. m} \cup {t[i] : i \in 1 .. n}
  <1>1. s \in Seq(S) /\ Len(s) = m
    BY DEF HasBits
  <1>2. t \in Seq(S) /\ Len(t) = n
    BY DEF HasBits
  <1>. HIDE DEF S
  <1>3. /\ Join(s, t) \in Seq(S)
        /\ Len(Join(s, t)) = m + n
        /\ \A i \in 1 .. m + n : Join(s, t)[i] = IF i <= m THEN s[i] ELSE t[i - m]
    <2>1. /\ s \o t \in Seq(S)
          /\ Len(s \o t) = Len(s) + Len(t)
          /\ \A i \in 1 .. Len(s) + Len(t) :
               (s \o t)[i] = IF i <= Len(s) THEN s[i] ELSE t[i - Len(s)]
      BY <1>1, <1>2, ConcatProperties
    <2>. QED
      BY <1>1, <1>2, <2>1 DEF Join
  <1>4. Join(s, t) = [i \in 1 .. m + n |-> Join(s, t)[i]]
    <2>1. Join(s, t) \in [1 .. Len(Join(s, t)) -> S]
      BY <1>3, LenProperties
    <2>. QED
      BY <2>1, <1>3
  <1>5. HasBits(Join(s, t), m + n)
    BY <1>4 DEF HasBits
  <1>6. \A i \in 1 .. m : Join(s, t)[i] = s[i]
    BY <1>3
  <1>7. \A i \in 1 .. n : Join(s, t)[m + i] = t[i]
    BY <1>3
  <1>. QED
    BY <1>5, <1>6, <1>7

LEMMA JoinedBits ==
    \A m, n \in Nat : \A s, t :
        HasBits(s, m) /\ HasBits(t, n) => HasBits(Join(s, t), m + n)
  BY Joined

LEMMA JoinedFirst ==
    \A m, n \in Nat : \A s, t :
        HasBits(s, m) /\ HasBits(t, n) => \A i \in 1 .. m : Join(s, t)[i] = s[i]
  BY Joined

LEMMA JoinedLast ==
    \A m, n \in Nat : \A s, t :
        HasBits(s, m) /\ HasBits(t, n) => \A i \in 1 .. n : Join(s, t)[m + i] = t[i]
  BY Joined

LEMMA Parted ==
    \A i, n \in Nat : \A word :
        HasBits(Part(word, i, n), n) /\ \A k \in 1 .. n : Part(word, i, n)[k] = word[i + k]
  <1>. TAKE i, n \in Nat
  <1>. TAKE word
  <1>. DEFINE S == {word[k] : k \in i + 1 .. i + n}
  <1>1. \A k \in i + 1 .. i + n : word[k] \in S
    OBVIOUS
  <1>. HIDE DEF S
  <1>2. /\ Part(word, i, n) \in Seq(S)
        /\ Len(Part(word, i, n)) = n
        /\ \A k \in 1 .. n : Part(word, i, n)[k] = word[i + k]
    BY <1>1, SubSeqProperties DEF Part
  <1>. QED
    BY <1>2 DEF HasBits

\* Parts of words put together.
LEMMA SameWords ==
    ASSUME NEW n \in Nat, NEW s, NEW t, HasBits(s, n), HasBits(t, n),
           \A i \in 1 .. n : s[i] = t[i]
    PROVE  s = t
  BY DEF HasBits

LEMMA PartOfFirst ==
    \A m, n, i, k \in Nat : \A s, t :
        HasBits(s, m) /\ HasBits(t, n) /\ i + k <= m => Part(Join(s, t), i, k) = Part(s, i, k)
  <1>. TAKE m, n, i, k \in Nat
  <1>. TAKE s, t
  <1>. HAVE HasBits(s, m) /\ HasBits(t, n) /\ i + k <= m
  <1>. DEFINE whole == Join(s, t)
              x == Part(whole, i, k)
              y == Part(s, i, k)
  <1>1. \A c \in 1 .. m : whole[c] = s[c]
    BY JoinedFirst
  <1>2. HasBits(x, k) /\ \A c \in 1 .. k : x[c] = whole[i + c]
    BY Parted
  <1>3. HasBits(y, k) /\ \A c \in 1 .. k : y[c] = s[i + c]
    BY Parted
  <1>. HIDE DEF x, y, whole
  <1>4. \A c \in 1 .. k : x[c] = y[c]
    BY <1>1, <1>2, <1>3
  <1>5. x = y
    BY <1>2, <1>3, <1>4, SameWords
  <1>. QED
    BY <1>5 DEF x, y, whole

LEMMA PartOfLast ==
    \A m, n, i, k, j \in Nat : \A s, t :
        HasBits(s, m) /\ HasBits(t, n) /\ i + k <= n /\ j = m + i
            => Part(Join(s, t), j, k) = Part(t, i, k)
  <1>. TAKE m, n, i, k, j \in Nat
  <1>. TAKE s, t
  <1>. HAVE HasBits(s, m) /\ HasBits(t, n) /\ i + k <= n /\ j = m + i
  <1>. DEFINE whole == Join(s, t)
              x == Part(whole, j, k)
              y == Part(t, i, k)
  <1>1. \A c \in 1 .. n : whole[m + c] = t[c]
    BY JoinedLast
  <1>2. HasBits(x, k) /\ \A c \in 1 .. k : x[c] = whole[j + c]
    BY Parted
  <1>3. HasBits(y, k) /\ \A c \in 1 .. k : y[c] = t[i + c]
    BY Parted
  <1>. HIDE DEF x, y, whole
  <1>4. \A c \in 1 .. k : x[c] = y[c]
    <2>. TAKE c \in 1 .. k
    <2>1. i + c \in 1 .. n /\ j + c = m + (i + c)
      OBVIOUS
    <2>. QED
      BY <1>1, <1>2, <1>3, <2>1
  <1>5. x = y
    BY <1>2, <1>3, <1>4, SameWords
  <1>. QED
    BY <1>5 DEF x, y, whole

LEMMA PartIsWhole ==
    \A n \in Nat : \A s : HasBits(s, n) => Part(s, 0, n) = s
  <1>. TAKE n \in Nat
  <1>. TAKE s
  <1>. HAVE HasBits(s, n)
  <1>. DEFINE x == Part(s, 0, n)
  <1>1. HasBits(x, n) /\ \A c \in 1 .. n : x[c] = s[0 + c]
    BY Parted
  <1>. HIDE DEF x
  <1>2. x = s
    BY <1>1, SameWords
  <1>. QED
    BY <1>2 DEF x

LEMMA PartOfPart ==
    \A i, k, j, l, a \in Nat : \A s :
        j + l <= k /\ a = i + j => Part(Part(s, i, k), j, l) = Part(s, a, l)
  <1>. TAKE i, k, j, l, a \in Nat
  <1>. TAKE s
  <1>. HAVE j + l <= k /\ a = i + j
  <1>. DEFINE part == Part(s, i, k)
              x == Part(part, j, l)
              y == Part(s, a, l)
  <1>1. \A c \in 1 .. k : part[c] = s[i + c]
    BY Parted
  <1>2. HasBits(x, l) /\ \A c \in 1 .. l : x[c] = part[j + c]
    BY Parted
  <1>3. HasBits(y, l) /\ \A c \in 1 .. l : y[c] = s[a + c]
    BY Parted
  <1>. HIDE DEF x, y, part
  <1>4. \A c \in 1 .. l : x[c] = y[c]
    <2>. TAKE c \in 1 .. l
    <2>1. j + c \in 1 .. k /\ a + c = i + (j + c)
      OBVIOUS
    <2>. QED
      BY <1>1, <1>2, <1>3, <2>1
  <1>5. x = y
    BY <1>2, <1>3, <1>4, SameWords
  <1>. QED
    BY <1>5 DEF x, y, part

LEMMA PartsJoined ==
    \A i, k, j, l, a \in Nat : \A s :
        j = i + k /\ a = k + l => Join(Part(s, i, k), Part(s, j, l)) = Part(s, i, a)
  <1>. TAKE i, k, j, l, a \in Nat
  <1>. TAKE s
  <1>. HAVE j = i + k /\ a = k + l
  <1>. DEFINE u == Part(s, i, k)
              v == Part(s, j, l)
              x == Join(u, v)
              y == Part(s, i, a)
  <1>1. HasBits(u, k) /\ \A c \in 1 .. k : u[c] = s[i + c]
    BY Parted
  <1>2. HasBits(v, l) /\ \A c \in 1 .. l : v[c] = s[j + c]
    BY Parted
  <1>3. HasBits(y, a) /\ \A c \in 1 .. a : y[c] = s[i + c]
    BY Parted
  <1>. HIDE DEF u, v, y
  <1>4. /\ HasBits(x, k + l)
        /\ \A c \in 1 .. k : x[c] = u[c]
        /\ \A c \in 1 .. l : x[k + c] = v[c]
    BY <1>1, <1>2, Joined
  <1>. HIDE DEF x
  <1>5. ASSUME NEW c \in 1 .. a PROVE x[c] = y[c]
    <2>1. CASE c <= k
      BY <2>1, <1>1, <1>3, <1>4
    <2>2. CASE c > k
      <3>1. c - k \in 1 .. l /\ k + (c - k) = c /\ j + (c - k) = i + c
        BY <2>2
      <3>. QED
        BY <3>1, <1>2, <1>3, <1>4
    <2>. QED
      BY <2>1, <2>2
  <1>6. x = y
    BY <1>3, <1>4, <1>5, SameWords
  <1>. QED
    BY <1>6 DEF u, v, x, y

-----------------------------------------------------------------------------

\* Induction, over sets in place of predicates.
LEMMA NumberInduction ==
    ASSUME NEW S, 0 \in S, \A n \in Nat : n \in S => n + 1 \in S
    PROVE  Nat \subseteq S
  <1>. DEFINE T == Nat \ S
  <1>1. ASSUME NEW n0 \in T PROVE FALSE
    <2>. DEFINE U == {0 .. m : m \in {k \in T : k <= n0}}
                R == StrictSubsetOrdering(0 .. n0)
    <2>1. U \subseteq FiniteSubsetsOf(0 .. n0)
      <3>. SUFFICES ASSUME NEW m \in T, m <= n0
                    PROVE  0 .. m \in FiniteSubsetsOf(0 .. n0)
        OBVIOUS
      <3>1. IsFiniteSet(0 .. m)
        BY FS_Interval
      <3>. QED
        BY <3>1 DEF FiniteSubsetsOf
    <2>2. IsWellFoundedOn(R, FiniteSubsetsOf(0 .. n0))
      BY FS_StrictSubsetOrderingWellFounded
    <2>3. U # {}
      OBVIOUS
    <2>4. \E x \in U : \A y \in U : <<y, x>> \notin R
      <3>. HIDE DEF U, R
      <3>. QED
        BY <2>1, <2>2, <2>3, WFMin
    <2>5. PICK n \in T : n <= n0 /\ \A y \in U : <<y, 0 .. n>> \notin R
      BY <2>4
    <2>6. n # 0 /\ n - 1 \in Nat /\ n - 1 \notin S
      <3>1. n \in Nat /\ n \notin S /\ n # 0
        OBVIOUS
      <3>2. n - 1 \in Nat /\ (n - 1) + 1 = n
        BY <3>1
      <3>. QED
        BY <3>1, <3>2
    <2>7. 0 .. n - 1 \in U
      BY <2>5, <2>6
    <2>8. <<0 .. n - 1, 0 .. n>> \in R
      <3>1. n \in 0 .. n /\ n \notin 0 .. n - 1
        BY <2>6
      <3>2. 0 .. n - 1 \subseteq 0 .. n /\ 0 .. n \subseteq 0 .. n0
        BY <2>5
      <3>. QED
        BY <3>1, <3>2 DEF StrictSubsetOrdering
    <2>. QED
      BY <2>5, <2>7, <2>8
  <1>. QED
    BY <1>1

LEMMA SetInduction ==
    ASSUME NEW F, IsFiniteSet(F), NEW S, {} \in S,
           \A P \in SUBSET F : \A x \in F \ P : P \in S => P \cup {x} \in S
    PROVE  F \in S
  <1>. DEFINE N == {n \in Nat : \A P \in SUBSET F : Cardinality(P) = n => P \in S}
  <1>1. \A P \in SUBSET F : IsFiniteSet(P) /\ Cardinality(P) \in Nat
    BY FS_Subset, FS_CardinalityType
  <1>2. 0 \in N
    BY <1>1, FS_EmptySet
  <1>3. ASSUME NEW n \in Nat, n \in N PROVE n + 1 \in N
    <2>. SUFFICES ASSUME NEW P \in SUBSET F, Cardinality(P) = n + 1 PROVE P \in S
      OBVIOUS
    <2>1. P # {}
      BY FS_EmptySet, n + 1 # 0
    <2>2. PICK x \in P : TRUE
      BY <2>1
    <2>3. Cardinality(P \ {x}) = n
      <3>1. Cardinality(P \ {x}) = Cardinality(P) - 1
        BY <1>1, FS_RemoveElement
      <3>. QED
        BY <3>1
    <2>4. P \ {x} \in S
      BY <1>3, <2>3
    <2>5. (P \ {x}) \cup {x} \in S
      BY <2>4
    <2>. QED
      BY <2>5
  <1>. HIDE DEF N
  <1>4. Nat \subseteq N
    BY <1>2, <1>3, NumberInduction
  <1>5. Cardinality(F) \in N
    BY <1>1, <1>4
  <1>. QED
    BY <1>5 DEF N

LEMMA RangeInduction ==
    ASSUME NEW a \in Nat, NEW b \in Nat, NEW S, a \in S,
           \A i \in a .. b : i # b /\ i \in S => i + 1 \in S
    PROVE  a .. b \subseteq S
  <1>. DEFINE T == {d \in Nat : a + d \in a .. b => a + d \in S}
  <1>1. 0 \in T
    OBVIOUS
  <1>2. ASSUME NEW d \in Nat, d \in T PROVE d + 1 \in T
    <2>. SUFFICES ASSUME a + (d + 1) \in a .. b PROVE a + (d + 1) \in S
      OBVIOUS
    <2>1. a + d \in a .. b /\ a + d # b /\ (a + d) + 1 = a + (d + 1)
      OBVIOUS
    <2>2. (a + d) + 1 \in S
      BY <1>2, <2>1
    <2>. QED
      BY <2>1, <2>2
  <1>. HIDE DEF T
  <1>3. Nat \subseteq T
    BY <1>1, <1>2, NumberInduction
  <1>4. ASSUME NEW i \in a .. b PROVE i \in S
    <2>1. i - a \in Nat /\ a + (i - a) = i
      OBVIOUS
    <2>. QED
      BY <1>3, <2>1 DEF T
  <1>. QED
    BY <1>4

\* What FlattenSeq defines by recursion there is.
Chained(words, f, n) ==
    f = [i \in 1 .. n |-> IF i = 1 THEN words[i] ELSE f[i - 1] \o words[i]]

LEMMA ChainExists ==
    ASSUME NEW words, NEW n \in Nat, n >= 1
    PROVE  \E f : Chained(words, f, n)
  <1>. DEFINE S == {i \in Nat : \E f : Chained(words, f, i)}
  <1>1. 1 \in S
    <2>. DEFINE f == [i \in 1 .. 1 |-> words[1]]
    <2>1. f = [i \in 1 .. 1 |-> IF i = 1 THEN words[i] ELSE f[i - 1] \o words[i]]
      OBVIOUS
    <2>. QED
      BY <2>1 DEF Chained
  <1>2. ASSUME NEW i \in 1 .. n, i \in S PROVE i + 1 \in S
    <2>1. PICK f : Chained(words, f, i)
      BY <1>2
    <2>. DEFINE last == f[i] \o words[i + 1]
                h == [k \in 1 .. i + 1 |-> IF k <= i THEN f[k] ELSE last]
    <2>2. ASSUME NEW k \in 1 .. i + 1
          PROVE  h[k] = IF k = 1 THEN words[k] ELSE h[k - 1] \o words[k]
      <3>1. CASE k <= i
        <4>1. h[k] = f[k] /\ (k # 1 => h[k - 1] = f[k - 1])
          BY <3>1
        <4>2. f[k] = IF k = 1 THEN words[k] ELSE f[k - 1] \o words[k]
          <5>1. k \in 1 .. i
            BY <3>1
          <5>. QED
            BY <2>1, <5>1 DEF Chained
        <4>. QED
          BY <4>1, <4>2
      <3>2. CASE k = i + 1
        <4>1. k # 1 /\ k - 1 = i /\ h[i] = f[i] /\ h[k] = last
          <5>. HIDE DEF last
          <5>. QED
            BY <3>2
        <4>. QED
          BY <3>2, <4>1
      <3>. QED
        BY <3>1, <3>2
    <2>3. Chained(words, h, i + 1)
      <3>1. h = [k \in 1 .. i + 1 |-> h[k]]
        OBVIOUS
      <3>. HIDE DEF h
      <3>. QED
        BY <2>2, <3>1 DEF Chained
    <2>. QED
      BY <2>3
  <1>. HIDE DEF S
  <1>3. n \in S
    BY <1>1, <1>2, RangeInduction
  <1>. QED
    BY <1>3 DEF S

\* Where word r of words of m places lies.
LEMMA Products ==
    ASSUME NEW m \in Nat, NEW i \in Nat
    PROVE  m * i \in Nat /\ m * i + m = m * (i + 1)
  OBVIOUS

LEMMA PlacesOf ==
    ASSUME NEW m \in Nat, NEW i \in Nat, NEW r \in 1 .. i, NEW c \in 1 .. m
    PROVE  m * (r - 1) + c \in 1 .. m * i
  <1>1. PICK d \in Nat : i = r + d
    <2>1. i - r \in Nat /\ i = r + (i - r)
      OBVIOUS
    <2>. QED
      BY <2>1
  <1>2. PICK e \in Nat : r = e + 1
    <2>1. r - 1 \in Nat /\ r = (r - 1) + 1
      OBVIOUS
    <2>. QED
      BY <2>1
  <1>3. m * i = m * e + m + m * d
    BY <1>1, <1>2
  <1>4. m * e \in Nat /\ m * d \in Nat /\ m * i \in Nat
    OBVIOUS
  <1>5. m * (r - 1) = m * e
    BY <1>2
  <1>. DEFINE me == m * e
              md == m * d
              mi == m * i
  <1>. HIDE DEF me, md, mi
  <1>6. mi = me + m + md /\ me \in Nat /\ md \in Nat /\ mi \in Nat
    BY <1>3, <1>4 DEF me, md, mi
  <1>7. me + c \in 1 .. mi
    BY <1>6
  <1>. QED
    BY <1>5, <1>7 DEF me, mi

AreWords(words, n, m) == HasBits(words, n) /\ \A r \in 1 .. n : HasBits(words[r], m)
LaidOut(all, words, n, m) ==
    \A r \in 1 .. n, c \in 1 .. m : all[m * (r - 1) + c] = words[r][c]

LEMMA Flattened ==
    ASSUME NEW n \in Nat, n >= 1, NEW m \in Nat, NEW words, AreWords(words, n, m)
    PROVE  HasBits(FlattenSeq(words), m * n) /\ LaidOut(FlattenSeq(words), words, n, m)
  <1>. DEFINE f == CHOOSE g : Chained(words, g, n)
              Good(i) == /\ HasBits(f[i], m * i)
                         /\ \A r \in 1 .. i, c \in 1 .. m : f[i][m * (r - 1) + c] = words[r][c]
              S == {i \in Nat : Good(i)}
  <1>1. Len(words) = n /\ \A r \in 1 .. n : HasBits(words[r], m)
    BY DEF HasBits, AreWords
  <1>2. FlattenSeq(words) = f[n]
    BY <1>1 DEF FlattenSeq, Chained
  <1>3. Chained(words, f, n)
    BY ChainExists
  <1>. HIDE DEF f
  <1>4. Good(1)
    <2>1. f[1] = words[1]
      BY <1>3 DEF Chained
    <2>2. HasBits(f[1], m * 1)
      BY <1>1, <2>1
    <2>3. \A r \in 1 .. 1, c \in 1 .. m : f[1][m * (r - 1) + c] = words[r][c]
      BY <2>1
    <2>. QED
      BY <2>2, <2>3
  <1>5. ASSUME NEW i \in 1 .. n, i # n, Good(i) PROVE Good(i + 1)
    <2>. DEFINE old == f[i]
                word == words[i + 1]
                new == Join(old, word)
                len == m * i
    <2>1. HasBits(old, len) /\ \A r \in 1 .. i, c \in 1 .. m : old[m * (r - 1) + c] = words[r][c]
      BY <1>5
    <2>2. HasBits(word, m)
      <3>1. i + 1 \in 1 .. n
        BY <1>5
      <3>. QED
        BY <1>1, <3>1
    <2>3. f[i + 1] = new
      <3>1. i + 1 \in 1 .. n /\ i + 1 # 1 /\ (i + 1) - 1 = i
        BY <1>5
      <3>2. f[i + 1] = f[(i + 1) - 1] \o words[i + 1]
        BY <1>3, <3>1 DEF Chained
      <3>. QED
        BY <3>1, <3>2 DEF Join
    <2>4. len \in Nat /\ len + m = m * (i + 1)
      BY Products
    <2>5. \A r \in 1 .. i, c \in 1 .. m : m * (r - 1) + c \in 1 .. len
      <3>1. i \in Nat
        OBVIOUS
      <3>. QED
        BY <3>1, PlacesOf, Zenon
    <2>. HIDE DEF old, word, len
    <2>6. /\ HasBits(new, len + m)
          /\ \A k \in 1 .. len : new[k] = old[k]
          /\ \A c \in 1 .. m : new[len + c] = word[c]
      BY <2>1, <2>2, <2>4, Joined
    <2>. HIDE DEF new
    <2>7. ASSUME NEW r \in 1 .. i + 1, NEW c \in 1 .. m
          PROVE  new[m * (r - 1) + c] = words[r][c]
      <3>1. CASE r \in 1 .. i
        <4>. DEFINE k == m * (r - 1) + c
        <4>1. k \in 1 .. len /\ old[k] = words[r][c]
          BY <2>1, <2>5, <3>1
        <4>. HIDE DEF k
        <4>2. new[k] = words[r][c]
          BY <2>6, <4>1
        <4>. QED
          BY <4>2 DEF k
      <3>2. CASE r = i + 1
        <4>1. r - 1 = i
          BY <3>2
        <4>2. m * (r - 1) + c = len + c
          BY <4>1 DEF len
        <4>. QED
          BY <2>6, <3>2, <4>2 DEF word
      <3>. QED
        BY <3>1, <3>2
    <2>8. HasBits(new, m * (i + 1))
      BY <2>4, <2>6
    <2>. QED
      BY <2>3, <2>7, <2>8
  <1>. HIDE DEF Good
  <1>6. 1 \in S /\ \A i \in 1 .. n : i # n /\ i \in S => i + 1 \in S
    BY <1>4, <1>5
  <1>. HIDE DEF S
  <1>7. 1 .. n \subseteq S
    BY <1>6, RangeInduction
  <1>8. Good(n)
    <2>1. n \in 1 .. n
      OBVIOUS
    <2>. QED
      BY <1>7, <2>1 DEF S
  <1>. QED
    BY <1>2, <1>8 DEF Good, LaidOut

\* They are its parts.
Row(all, m, r) == Part(all, m * (r - 1), m)

HasRows(all, words, n, m) == \A r \in 1 .. n : Row(all, m, r) = words[r]

LEMMA FlattenedRows ==
    ASSUME NEW n \in Nat, n >= 1, NEW m \in Nat, NEW words, AreWords(words, n, m)
    PROVE  HasRows(FlattenSeq(words), words, n, m)
  <1>. DEFINE all == FlattenSeq(words)
  <1>1. LaidOut(all, words, n, m)
    BY Flattened
  <1>. HIDE DEF all
  <1>2. ASSUME NEW r \in 1 .. n PROVE Row(all, m, r) = words[r]
    <2>. DEFINE at == m * (r - 1)
                part == Part(all, at, m)
    <2>1. at \in Nat
      <3>1. r - 1 \in Nat
        OBVIOUS
      <3>. QED
        BY <3>1, Products
    <2>2. \A c \in 1 .. m : all[at + c] = words[r][c]
      BY <1>1 DEF LaidOut
    <2>3. Row(all, m, r) = part
      BY DEF Row
    <2>. HIDE DEF at
    <2>4. HasBits(part, m) /\ \A c \in 1 .. m : part[c] = all[at + c]
      BY <2>1, Parted
    <2>5. HasBits(words[r], m)
      BY DEF AreWords
    <2>. HIDE DEF part
    <2>6. part = words[r]
      BY <2>2, <2>4, <2>5, SameWords
    <2>. QED
      BY <2>3, <2>6
  <1>. QED
    BY <1>2 DEF HasRows, all

\* Parts of a word, one behind the other, are one part of it.
Tiled(m, n) == \A i \in 1 .. m * n : \E r \in 1 .. n : \E c \in 1 .. m : i = m * (r - 1) + c
AreParts(words, n, m, word, at) ==
    HasBits(words, n) /\ \A r \in 1 .. n : words[r] = Part(word, at + m * (r - 1), m)

LEMMA PartsFlattened ==
    ASSUME NEW n \in Nat, n >= 1, NEW m \in Nat, Tiled(m, n), NEW at \in Nat, NEW word,
           NEW words, AreParts(words, n, m, word, at)
    PROVE  FlattenSeq(words) = Part(word, at, m * n)
  <1>. DEFINE all == FlattenSeq(words)
              size == m * n
              part == Part(word, at, size)
  <1>1. \A r \in 1 .. n : m * (r - 1) \in Nat
    <2>. TAKE r \in 1 .. n
    <2>1. r - 1 \in Nat
      OBVIOUS
    <2>. QED
      BY <2>1, Products
  <1>2. \A r \in 1 .. n : HasBits(words[r], m)
                          /\ \A c \in 1 .. m : words[r][c] = word[(at + m * (r - 1)) + c]
    <2>. TAKE r \in 1 .. n
    <2>. DEFINE from == m * (r - 1)
                w == words[r]
    <2>1. w = Part(word, at + from, m)
      BY DEF AreParts
    <2>2. from \in Nat
      BY <1>1
    <2>. HIDE DEF from, w
    <2>3. HasBits(w, m) /\ \A c \in 1 .. m : w[c] = word[(at + from) + c]
      BY <2>1, <2>2, Parted
    <2>. QED
      BY <2>3 DEF w, from
  <1>3. AreWords(words, n, m)
    BY <1>2 DEF AreParts, AreWords
  <1>4. HasBits(all, size)
    BY <1>3, Flattened
  <1>5. LaidOut(all, words, n, m)
    BY <1>3, Flattened
  <1>. HIDE DEF all
  <1>6. size \in Nat
    BY Products
  <1>7. ASSUME NEW i \in 1 .. size PROVE all[i] = word[at + i]
    <2>1. PICK r \in 1 .. n, c \in 1 .. m : i = m * (r - 1) + c
      BY DEF Tiled
    <2>. DEFINE from == m * (r - 1)
    <2>2. all[from + c] = words[r][c]
      BY <1>5 DEF LaidOut
    <2>3. words[r][c] = word[(at + from) + c]
      BY <1>2
    <2>4. from \in Nat
      BY <1>1
    <2>5. i = from + c
      BY <2>1
    <2>. HIDE DEF from
    <2>6. (at + from) + c = at + i
      BY <2>4, <2>5
    <2>. QED
      BY <2>2, <2>3, <2>5, <2>6
  <1>. HIDE DEF size
  <1>8. HasBits(part, size) /\ \A i \in 1 .. size : part[i] = word[at + i]
    BY <1>6, Parted
  <1>. HIDE DEF part
  <1>9. all = part
    BY <1>4, <1>6, <1>7, <1>8, SameWords
  <1>. QED
    BY <1>9 DEF all, part, size

-----------------------------------------------------------------------------

\* The places where an unknown is found.
Found(word, places, u) == {i \in places : u \in word[i + 1]}

LEMMA FoundIsFinite ==
    ASSUME NEW word, NEW places \in SUBSET Nat, IsFiniteSet(places), NEW u
    PROVE  IsFiniteSet(Found(word, places, u)) /\ Cardinality(Found(word, places, u)) \in Nat
  BY FS_Subset, FS_CardinalityType DEF Found

LEMMA SumIsParity ==
    ASSUME NEW word, NEW places \in SUBSET Nat, IsFiniteSet(places), NEW u
    PROVE  u \in Sum(word, places) <=> Cardinality(Found(word, places, u)) % 2 = 1
  <1>1. u \in Sum(word, places)
          <=> u \in UNION {word[i + 1] : i \in places}
              /\ Cardinality(Found(word, places, u)) % 2 = 1
    BY DEF Sum, Found
  <1>2. ASSUME Cardinality(Found(word, places, u)) % 2 = 1
        PROVE  u \in UNION {word[i + 1] : i \in places}
    <2>1. Found(word, places, u) # {}
      BY <1>2, FS_EmptySet
    <2>. QED
      BY <2>1 DEF Found
  <1>. QED
    BY <1>1, <1>2

LEMMA SumOfNone == ASSUME NEW word PROVE Sum(word, {}) = {}
  BY DEF Sum

\* A sum looks at its own places only.
LEMMA SumSame ==
    ASSUME NEW v, NEW w, NEW places \in SUBSET Nat, \A i \in places : v[i + 1] = w[i + 1]
    PROVE  Sum(v, places) = Sum(w, places)
  <1>1. {v[i + 1] : i \in places} = {w[i + 1] : i \in places}
    OBVIOUS
  <1>2. \A u : {i \in places : u \in v[i + 1]} = {i \in places : u \in w[i + 1]}
    OBVIOUS
  <1>. QED
    BY <1>1, <1>2 DEF Sum

LEMMA SumOfMore ==
    ASSUME NEW word, NEW places \in SUBSET Nat, IsFiniteSet(places), NEW x \in Nat, x \notin places
    PROVE  Sum(word, places \cup {x}) = Xor(Sum(word, places), word[x + 1])
  <1>1. IsFiniteSet(places \cup {x})
    BY FS_AddElement
  <1>2. ASSUME NEW u
        PROVE  u \in Sum(word, places \cup {x}) <=> u \in Xor(Sum(word, places), word[x + 1])
    <2>. DEFINE P == Found(word, places, u)
                Q == Found(word, places \cup {x}, u)
    <2>1. IsFiniteSet(P) /\ Cardinality(P) \in Nat
      BY FoundIsFinite
    <2>2. CASE u \in word[x + 1]
      <3>1. Q = P \cup {x} /\ x \notin P
        BY <2>2 DEF Found
      <3>2. Cardinality(Q) = Cardinality(P) + 1
        <4>. HIDE DEF P, Q
        <4>. QED
          BY <2>1, <3>1, FS_AddElement
      <3>3. Cardinality(Q) % 2 = 1 <=> ~(Cardinality(P) % 2 = 1)
        <4>. HIDE DEF P, Q
        <4>. QED
          BY <2>1, <3>2
      <3>. QED
        BY <1>1, <2>2, <3>3, SumIsParity DEF Xor
    <2>3. CASE u \notin word[x + 1]
      <3>1. Q = P
        BY <2>3 DEF Found
      <3>. QED
        BY <1>1, <2>3, <3>1, SumIsParity DEF Xor
    <2>. QED
      BY <2>2, <2>3
  <1>. QED
    BY <1>2 DEF Xor, Sum

\* A sum of sums.
LEMMA XorSwap ==
    ASSUME NEW a, NEW b, NEW c, NEW d
    PROVE  Xor(Xor(a, b), Xor(c, d)) = Xor(Xor(a, c), Xor(b, d))
  BY DEF Xor

LEMMA SumOfXor ==
    ASSUME NEW v, NEW w, NEW both, NEW places \in SUBSET Nat, IsFiniteSet(places),
           \A i \in places : both[i + 1] = Xor(v[i + 1], w[i + 1])
    PROVE  Sum(both, places) = Xor(Sum(v, places), Sum(w, places))
  <1>. DEFINE S == {P \in SUBSET places : Sum(both, P) = Xor(Sum(v, P), Sum(w, P))}
  <1>1. {} \in S
    BY SumOfNone DEF Xor
  <1>2. ASSUME NEW P \in SUBSET places, NEW x \in places \ P, P \in S
        PROVE  P \cup {x} \in S
    <2>1. IsFiniteSet(P)
      BY FS_Subset
    <2>2. /\ Sum(both, P \cup {x}) = Xor(Sum(both, P), both[x + 1])
          /\ Sum(v, P \cup {x}) = Xor(Sum(v, P), v[x + 1])
          /\ Sum(w, P \cup {x}) = Xor(Sum(w, P), w[x + 1])
      BY <2>1, SumOfMore
    <2>3. /\ Sum(both, P) = Xor(Sum(v, P), Sum(w, P))
          /\ both[x + 1] = Xor(v[x + 1], w[x + 1])
      BY <1>2
    <2>4. Sum(both, P \cup {x}) = Xor(Sum(v, P \cup {x}), Sum(w, P \cup {x}))
      BY <2>2, <2>3, XorSwap
    <2>. QED
      BY <2>4
  <1>. HIDE DEF S
  <1>3. places \in S
    BY <1>1, <1>2, SetInduction
  <1>. QED
    BY <1>3 DEF S

LEMMA SumOfNothing ==
    ASSUME NEW word, NEW places \in SUBSET Nat, \A i \in places : word[i + 1] = {}
    PROVE  Sum(word, places) = {}
  <1>1. UNION {word[i + 1] : i \in places} = {}
    OBVIOUS
  <1>. QED
    BY <1>1 DEF Sum

\* The sums of the rows of a table and those of its columns have the same sum.
Crossed(K, places, rows, columns, side, below) ==
    /\ \A i \in places : \A k \in K : columns[i][k + 1] = rows[k][i + 1]
    /\ \A k \in K : side[k + 1] = Sum(rows[k], places)
    /\ \A i \in places : below[i + 1] = Sum(columns[i], K)

LEMMA SumOfSums ==
    ASSUME NEW K \in SUBSET Nat, IsFiniteSet(K), NEW places \in SUBSET Nat, IsFiniteSet(places),
           NEW rows, NEW columns, NEW side, NEW below,
           Crossed(K, places, rows, columns, side, below)
    PROVE  Sum(side, K) = Sum(below, places)
  <1>0. /\ \A i \in places : \A k \in K : columns[i][k + 1] = rows[k][i + 1]
        /\ \A k \in K : side[k + 1] = Sum(rows[k], places)
        /\ \A i \in places : below[i + 1] = Sum(columns[i], K)
    BY DEF Crossed
  <1>. DEFINE part(P) == [n \in {k + 1 : k \in K} |-> Sum(rows[n - 1], P)]
              S == {P \in SUBSET places : Sum(part(P), K) = Sum(below, P)}
  <1>1. \A P : \A k \in K : part(P)[k + 1] = Sum(rows[k], P)
    <2>1. \A k \in K : (k + 1) - 1 = k
      OBVIOUS
    <2>. QED
      BY <2>1
  <1>. HIDE DEF part
  <1>2. {} \in S
    <2>1. \A k \in K : part({})[k + 1] = {}
      BY <1>1, SumOfNone
    <2>2. Sum(part({}), K) = {}
      BY <2>1, SumOfNothing
    <2>. QED
      BY <2>2, SumOfNone
  <1>3. ASSUME NEW P \in SUBSET places, NEW x \in places \ P, P \in S
        PROVE  P \cup {x} \in S
    <2>1. P \in SUBSET Nat /\ IsFiniteSet(P) /\ x \in Nat /\ x \notin P
      BY FS_Subset
    <2>. DEFINE old == part(P)
                new == part(P \cup {x})
                added == columns[x]
    <2>2. \A k \in K : new[k + 1] = Xor(old[k + 1], added[k + 1])
      <3>. TAKE k \in K
      <3>1. Sum(rows[k], P \cup {x}) = Xor(Sum(rows[k], P), rows[k][x + 1])
        BY <2>1, SumOfMore, Zenon
      <3>2. rows[k][x + 1] = added[k + 1]
        BY <1>0
      <3>. QED
        BY <1>1, <3>1, <3>2
    <2>3. Sum(new, K) = Xor(Sum(old, K), Sum(added, K))
      <3>. HIDE DEF new, old, added
      <3>. QED
        BY <2>2, SumOfXor
    <2>4. Sum(below, P \cup {x}) = Xor(Sum(below, P), below[x + 1])
      BY <2>1, SumOfMore
    <2>5. Sum(part(P), K) = Sum(below, P) /\ below[x + 1] = Sum(columns[x], K)
      BY <1>0, <1>3
    <2>6. Sum(part(P \cup {x}), K) = Sum(below, P \cup {x})
      BY <2>3, <2>4, <2>5
    <2>. QED
      BY <2>6
  <1>. HIDE DEF S
  <1>4. places \in S
    BY <1>2, <1>3, SetInduction
  <1>5. Sum(part(places), K) = Sum(side, K)
    <2>1. \A k \in K : part(places)[k + 1] = side[k + 1]
      BY <1>0, <1>1
    <2>. QED
      BY <2>1, SumSame
  <1>. QED
    BY <1>4, <1>5 DEF S

-----------------------------------------------------------------------------

\* What is sent of a word that was scrambled is scrambled back by its key.
LEMMA ScrambledTwice ==
    ASSUME NEW word, NEW key, HasBits(word, 23)
    PROVE  LET sent == Scrambled(word, key)
               read == [k \in 1 .. 12 |-> sent[k]]
           IN  HasBits(sent, 23) /\ Scrambled(read, key) = [k \in 1 .. 12 |-> word[k]]
  <1>. DEFINE sent == Scrambled(word, key)
              read == [k \in 1 .. 12 |-> sent[k]]
  <1>1. Len(word) = 23 /\ Len(read) = 12
    BY DEF HasBits
  <1>2. sent = [i \in 1 .. 23 |-> Xor(word[i], Prng(key)[i])]
    BY <1>1 DEF Scrambled, Bits
  <1>3. Scrambled(read, key) = [i \in 1 .. 12 |-> Xor(read[i], Prng(key)[i])]
    BY <1>1 DEF Scrambled, Bits
  <1>4. \A i \in 1 .. 12 : Xor(read[i], Prng(key)[i]) = word[i]
    BY <1>2, XorTwice
  <1>. QED
    BY <1>2, <1>3, <1>4 DEF HasBits

\* The words of an AMBE frame are found again in its chunk (_ambe_to_dmr_chunk,
\* dmr_voice_frame_to_ysf_vch).
THEOREM ChunkReadsBack ==
    ASSUME NEW a, NEW b, NEW c, IsAmbe(a, b, c)
    PROVE  /\ HasBits(DmrChunk(Ambe(a, b, c)), 72)
           /\ AmbeOf(DmrChunk(Ambe(a, b, c))) = Ambe(a, b, c)
  <1>. DEFINE golayA == Golay(a)
              golayB == Golay(b)
              partB == Part(golayB, 0, 23)
              scrambled == Scrambled(partB, a)
              front == Join(golayA, scrambled)
              coded == Join(front, c)
              chunk == [p \in 1 .. 72 |-> coded[DmrSource(p - 1) + 1]]
              read == [t \in 1 .. 72 |-> chunk[DmrTable(t - 1) + 1]]
  <1>0. HasBits(a, 12) /\ HasBits(b, 12) /\ HasBits(c, 25)
    BY DEF IsAmbe
  <1>1. \A word : HasBits(word, 12) =>
            HasBits(Golay(word), 24) /\ \A i \in 1 .. 12 : Golay(word)[i] = word[i]
    <2>. TAKE word
    <2>. HAVE HasBits(word, 12)
    <2>. DEFINE parity == Unknowns("golay", word, 12)
    <2>1. HasBits(parity, 12)
      BY DEF Unknowns, Bits, HasBits
    <2>. HIDE DEF parity
    <2>2. HasBits(Join(word, parity), 24)
          /\ \A i \in 1 .. 12 : Join(word, parity)[i] = word[i]
      BY <2>1, Joined
    <2>3. Golay(word) = Join(word, parity)
      BY DEF Golay, Join, parity
    <2>. QED
      BY <2>2, <2>3
  <1>2. HasBits(golayA, 24) /\ \A i \in 1 .. 12 : golayA[i] = a[i]
    BY <1>0, <1>1
  <1>3. HasBits(partB, 23) /\ \A i \in 1 .. 12 : partB[i] = b[i]
    <2>1. \A i \in 1 .. 12 : golayB[i] = b[i]
      BY <1>0, <1>1
    <2>. HIDE DEF golayB
    <2>2. HasBits(partB, 23) /\ \A k \in 1 .. 23 : partB[k] = golayB[0 + k]
      BY Parted
    <2>. QED
      BY <2>1, <2>2
  <1>. HIDE DEF golayA, partB
  <1>4. HasBits(scrambled, 23)
        /\ Scrambled([k \in 1 .. 12 |-> scrambled[k]], a) = [k \in 1 .. 12 |-> partB[k]]
    BY <1>3, ScrambledTwice
  <1>. HIDE DEF scrambled
  <1>5. /\ HasBits(front, 47)
        /\ \A i \in 1 .. 24 : front[i] = golayA[i]
        /\ \A i \in 1 .. 23 : front[24 + i] = scrambled[i]
    BY <1>2, <1>4, Joined
  <1>. HIDE DEF front
  <1>6. /\ \A i \in 1 .. 47 : coded[i] = front[i]
        /\ \A i \in 1 .. 25 : coded[47 + i] = c[i]
    BY <1>5, <1>0, Joined
  <1>7. DmrChunk(Ambe(a, b, c)) = chunk
    BY DEF DmrChunk, Ambe, Bits, Join, golayA, partB, scrambled, front
  <1>. HIDE DEF coded
  <1>8. \A i \in 1 .. 72 : read[i] = coded[i]
    <2>. TAKE i \in 1 .. 72
    <2>1. DmrTable(i - 1) \in 0 .. 71 /\ DmrSource(DmrTable(i - 1)) = i - 1
      BY DmrPlaces
    <2>2. chunk[DmrTable(i - 1) + 1] = coded[DmrSource(DmrTable(i - 1) + 1 - 1) + 1]
      BY <2>1
    <2>3. DmrSource(DmrTable(i - 1) + 1 - 1) + 1 = i
      BY <2>1
    <2>4. read[i] = chunk[DmrTable(i - 1) + 1]
      OBVIOUS
    <2>. QED
      BY <2>2, <2>3, <2>4
  <1>9. AmbeOf(chunk) = Ambe(Part(read, 0, 12),
                             Scrambled(Part(read, 24, 12), Part(read, 0, 12)), Part(read, 47, 25))
    BY DEF AmbeOf, Ambe, Bits
  <1>10. HasBits(chunk, 72)
    BY DEF HasBits
  <1>. HIDE DEF chunk, read
  <1>11. Part(read, 0, 12) = a
    <2>1. /\ HasBits(Part(read, 0, 12), 12)
          /\ \A k \in 1 .. 12 : Part(read, 0, 12)[k] = read[0 + k]
      BY Parted
    <2>2. \A k \in 1 .. 12 : read[0 + k] = a[k]
      BY <1>8, <1>6, <1>5, <1>2
    <2>. QED
      BY <2>1, <2>2, <1>0 DEF HasBits
  <1>12. Part(read, 24, 12) = [k \in 1 .. 12 |-> scrambled[k]]
    <2>1. /\ HasBits(Part(read, 24, 12), 12)
          /\ \A k \in 1 .. 12 : Part(read, 24, 12)[k] = read[24 + k]
      BY Parted
    <2>2. \A k \in 1 .. 12 : read[24 + k] = scrambled[k]
      BY <1>8, <1>6, <1>5
    <2>. QED
      BY <2>1, <2>2 DEF HasBits
  <1>13. Part(read, 47, 25) = c
    <2>1. /\ HasBits(Part(read, 47, 25), 25)
          /\ \A k \in 1 .. 25 : Part(read, 47, 25)[k] = read[47 + k]
      BY Parted
    <2>2. \A k \in 1 .. 25 : read[47 + k] = c[k]
      BY <1>8, <1>6
    <2>. QED
      BY <2>1, <2>2, <1>0 DEF HasBits
  <1>14. Scrambled(Part(read, 24, 12), a) = b
    BY <1>12, <1>4, <1>3, <1>0 DEF HasBits
  <1>. QED
    BY <1>7, <1>9, <1>10, <1>11, <1>13, <1>14

\* A voice channel without its whitening, and its copies.
Unwhitened(data, offset) ==
    Bits(104, LAMBDA i : Xor(data[offset + VchTable(i) + 1], White(i)))
Agree(vch) == \A i \in 1 .. 27 : vch[3 * i - 2] = vch[3 * i] /\ vch[3 * i - 1] = vch[3 * i]

LEMMA UnwhitenedElsewhere ==
    ASSUME NEW offset \in Nat, NEW data
    PROVE  Unwhitened(data, offset) = Unwhitened(Part(data, offset, 104), 0)
  <1>. DEFINE vch == Part(data, offset, 104)
  <1>1. \A k \in 1 .. 104 : vch[k] = data[offset + k]
    <2>1. \A n \in Nat : \A word : \A k \in 1 .. n : Part(word, offset, n)[k] = word[offset + k]
      BY Parted
    <2>2. 104 \in Nat
      OBVIOUS
    <2>. QED
      BY <2>1, <2>2
  <1>. HIDE DEF vch
  <1>2. \A i \in 1 .. 104 : data[offset + VchTable(i - 1) + 1] = vch[0 + VchTable(i - 1) + 1]
    <2>. TAKE i \in 1 .. 104
    <2>. DEFINE t == VchTable(i - 1)
    <2>1. t \in 0 .. 103
      BY VchPlaces, SMTT(30)
    <2>. HIDE DEF t
    <2>2. data[offset + t + 1] = vch[0 + t + 1]
      <3>1. t + 1 \in 1 .. 104 /\ (offset + t) + 1 = offset + (t + 1) /\ (0 + t) + 1 = t + 1
        BY <2>1
      <3>. QED
        BY <1>1, <3>1
    <2>. QED
      BY <2>2 DEF t
  <1>3. Unwhitened(data, offset) = Unwhitened(vch, 0)
    BY <1>2 DEF Unwhitened, Bits
  <1>. QED
    BY <1>3 DEF vch

LEMMA AmbeElsewhere ==
    ASSUME NEW offset \in Nat, NEW data
    PROVE  VchAmbe(data, offset) = VchAmbe(Part(data, offset, 104), 0)
  <1>. DEFINE read(vch) ==
                LET important == Bits(27, LAMBDA i : vch[3 * i + 2])
                IN  Ambe(Part(important, 0, 12), Part(important, 12, 12),
                         Part(important, 24, 3) \o Part(vch, 81, 22))
  <1>1. \A d, o : VchAmbe(d, o) = read(Unwhitened(d, o))
    BY DEF VchAmbe, Unwhitened, Ambe
  <1>. HIDE DEF read
  <1>. QED
    BY <1>1, UnwhitenedElsewhere

\* And in its voice channel (_ambe_to_ysf_vch, _ysf_vch_to_dmr_ambe): of the
\* three places of an important bit the middle one is read, the others agree
\* with it, and the rest is where it was put.
THEOREM VchReadsBack ==
    ASSUME NEW a, NEW b, NEW c, IsAmbe(a, b, c)
    PROVE  /\ HasBits(YsfVch(Ambe(a, b, c)), 104)
           /\ VchAmbe(YsfVch(Ambe(a, b, c)), 0) = Ambe(a, b, c)
           /\ Agree(Unwhitened(YsfVch(Ambe(a, b, c)), 0))
  <1>. DEFINE c3 == Part(c, 0, 3)
              c22 == Part(c, 3, 22)
              ab == Join(a, b)
              important == Join(ab, c3)
              thrice == [i \in 1 .. 81 |-> important[(i - 1) \div 3 + 1]]
              rest == Join(thrice, c22)
              left == <<Zero>>
              vch == Join(rest, left)
              sent == [p \in 1 .. 104 |-> Xor(vch[VchSource(p - 1) + 1], White(VchSource(p - 1)))]
              read == [i \in 1 .. 104 |-> Xor(sent[0 + VchTable(i - 1) + 1], White(i - 1))]
              middle == [i \in 1 .. 27 |-> read[3 * (i - 1) + 2]]
  <1>1. HasBits(a, 12) /\ HasBits(b, 12) /\ HasBits(c, 25)
    BY DEF IsAmbe
  <1>2. HasBits(c3, 3) /\ \A i \in 1 .. 3 : c3[i] = c[0 + i]
    BY Parted
  <1>3. HasBits(c22, 22) /\ \A i \in 1 .. 22 : c22[i] = c[3 + i]
    BY Parted
  <1>4. YsfVch(Ambe(a, b, c)) = sent
    BY DEF YsfVch, Ambe, Bits, Join
  <1>5. VchAmbe(sent, 0) = Ambe(Part(middle, 0, 12), Part(middle, 12, 12),
                                Join(Part(middle, 24, 3), Part(read, 81, 22)))
    BY DEF VchAmbe, Ambe, Bits, Join
  <1>6. HasBits(sent, 104)
    BY DEF HasBits
  <1>. HIDE DEF c3, c22
  <1>7. /\ HasBits(ab, 24)
        /\ \A i \in 1 .. 12 : ab[i] = a[i]
        /\ \A i \in 1 .. 12 : ab[12 + i] = b[i]
    BY <1>1, Joined
  <1>. HIDE DEF ab
  <1>8. /\ \A i \in 1 .. 24 : important[i] = ab[i]
        /\ \A i \in 1 .. 3 : important[24 + i] = c3[i]
    BY <1>2, <1>7, Joined
  <1>. HIDE DEF important
  <1>9. HasBits(thrice, 81) /\ \A i \in 1 .. 27 : thrice[3 * (i - 1) + 2] = important[i]
    BY DEF HasBits
  <1>10. Agree(thrice)
    BY DEF Agree
  <1>. HIDE DEF thrice
  <1>11. /\ HasBits(rest, 103)
         /\ \A i \in 1 .. 81 : rest[i] = thrice[i]
         /\ \A i \in 1 .. 22 : rest[81 + i] = c22[i]
    BY <1>3, <1>9, Joined, SMTT(30)
  <1>. HIDE DEF rest
  <1>12. \A i \in 1 .. 103 : vch[i] = rest[i]
    <2>1. HasBits(left, 1)
      BY DEF HasBits
    <2>. HIDE DEF left
    <2>2. HasBits(rest, 103)
      BY <1>11
    <2>. QED
      BY <2>1, <2>2, Joined
  <1>. HIDE DEF vch
  <1>13. \A i \in 1 .. 104 : read[i] = vch[i]
    <2>. TAKE i \in 1 .. 104
    <2>1. VchTable(i - 1) \in 0 .. 103 /\ VchSource(VchTable(i - 1)) = i - 1
      BY VchPlaces, SMTT(30)
    <2>2. sent[0 + VchTable(i - 1) + 1] = Xor(vch[i], White(i - 1))
      BY <2>1
    <2>. QED
      BY <2>2, XorTwice
  <1>14. Unwhitened(sent, 0) = read
    BY DEF Unwhitened, Bits
  <1>. HIDE DEF sent, read
  <1>15. Agree(read)
    <2>1. \A i \in 1 .. 81 : read[i] = thrice[i]
      BY <1>11, <1>12, <1>13
    <2>. QED
      BY <1>10, <2>1 DEF Agree
  <1>16. \A i \in 1 .. 27 : middle[i] = important[i]
    <2>. TAKE i \in 1 .. 27
    <2>1. middle[i] = read[3 * (i - 1) + 2]
      OBVIOUS
    <2>2. 3 * (i - 1) + 2 \in 1 .. 81
      OBVIOUS
    <2>. QED
      BY <2>1, <2>2, <1>9, <1>11, <1>12, <1>13, SMTT(30)
  <1>. HIDE DEF middle
  <1>17. Part(middle, 0, 12) = a
    <2>1. /\ HasBits(Part(middle, 0, 12), 12)
          /\ \A k \in 1 .. 12 : Part(middle, 0, 12)[k] = middle[0 + k]
      BY Parted
    <2>2. \A k \in 1 .. 12 : middle[0 + k] = a[k]
      BY <1>7, <1>8, <1>16
    <2>. QED
      BY <2>1, <2>2, <1>1 DEF HasBits
  <1>18. Part(middle, 12, 12) = b
    <2>1. /\ HasBits(Part(middle, 12, 12), 12)
          /\ \A k \in 1 .. 12 : Part(middle, 12, 12)[k] = middle[12 + k]
      BY Parted
    <2>2. \A k \in 1 .. 12 : middle[12 + k] = b[k]
      BY <1>7, <1>8, <1>16
    <2>. QED
      BY <2>1, <2>2, <1>1 DEF HasBits
  <1>19. Join(Part(middle, 24, 3), Part(read, 81, 22)) = c
    <2>. DEFINE first == Part(middle, 24, 3)
                last == Part(read, 81, 22)
                whole == Join(first, last)
    <2>1. HasBits(first, 3) /\ \A k \in 1 .. 3 : first[k] = middle[24 + k]
      BY Parted
    <2>2. HasBits(last, 22) /\ \A k \in 1 .. 22 : last[k] = read[81 + k]
      BY Parted
    <2>. HIDE DEF first, last
    <2>3. /\ HasBits(whole, 25)
          /\ \A i \in 1 .. 3 : whole[i] = first[i]
          /\ \A i \in 1 .. 22 : whole[3 + i] = last[i]
      BY <2>1, <2>2, Joined
    <2>. HIDE DEF whole
    <2>4. \A i \in 1 .. 3 : whole[i] = c[i]
      BY <2>1, <2>3, <1>2, <1>8, <1>16
    <2>5. \A i \in 1 .. 22 : whole[3 + i] = c[3 + i]
      BY <2>2, <2>3, <1>3, <1>11, <1>12, <1>13
    <2>6. \A i \in 1 .. 25 : whole[i] = c[i]
      <3>. TAKE i \in 1 .. 25
      <3>1. CASE i <= 3
        BY <3>1, <2>4
      <3>2. CASE i > 3
        <4>1. i - 3 \in 1 .. 22 /\ 3 + (i - 3) = i
          BY <3>2
        <4>. QED
          BY <4>1, <2>5
      <3>. QED
        BY <3>1, <3>2
    <2>. QED
      BY <2>3, <2>6, <1>1 DEF HasBits, whole, first, last
  <1>. QED
    BY <1>4, <1>5, <1>6, <1>17, <1>18, <1>19, <1>14, <1>15

\* The chunks of a frame are found again in it, the second one on both sides of
\* the middle (_pack_dmr_voice_chunks, dmr_voice_frame_to_ysf_vch).
THEOREM FrameReadsBack ==
    ASSUME NEW x, NEW y, NEW z, AreChunks(x, y, z)
    PROVE  /\ HasBits(PackDmrVoiceChunks(<<x, y, z>>), 264)
           /\ DmrChunks(PackDmrVoiceChunks(<<x, y, z>>)) = <<x, y, z>>
  <1>. DEFINE y1 == Part(y, 0, 36)
              y2 == Part(y, 36, 36)
              none == Zeros(48)
              f1 == Join(x, y1)
              f2 == Join(f1, none)
              f3 == Join(f2, y2)
              frame == Join(f3, z)
              first == Part(frame, 72, 36)
              second == Part(frame, 156, 36)
  <1>1. HasBits(y1, 36) /\ \A i \in 1 .. 36 : y1[i] = y[0 + i]
    BY Parted
  <1>2. HasBits(y2, 36) /\ \A i \in 1 .. 36 : y2[i] = y[36 + i]
    BY Parted
  <1>3. HasBits(none, 48)
    BY DEF Zeros, Bits, HasBits
  <1>4. PackDmrVoiceChunks(<<x, y, z>>) = frame
    BY DEF PackDmrVoiceChunks, Join
  <1>5. DmrChunks(frame) = <<Part(frame, 0, 72), Join(first, second), Part(frame, 192, 72)>>
    BY DEF DmrChunks, Join
  <1>. HIDE DEF y1, y2, none
  <1>6. HasBits(x, 72) /\ HasBits(y, 72) /\ HasBits(z, 72)
    BY DEF AreChunks
  <1>7. /\ HasBits(f1, 108)
        /\ \A i \in 1 .. 72 : f1[i] = x[i]
        /\ \A i \in 1 .. 36 : f1[72 + i] = y1[i]
    <2>1. HasBits(f1, 108)
      BY <1>1, <1>6, JoinedBits
    <2>2. \A i \in 1 .. 72 : f1[i] = x[i]
      BY <1>1, <1>6, JoinedFirst
    <2>3. \A i \in 1 .. 36 : f1[72 + i] = y1[i]
      BY <1>1, <1>6, JoinedLast
    <2>. QED
      BY <2>1, <2>2, <2>3
  <1>. HIDE DEF f1
  <1>8. HasBits(f2, 156) /\ \A i \in 1 .. 108 : f2[i] = f1[i]
    <2>1. HasBits(f2, 156)
      BY <1>3, <1>7, JoinedBits
    <2>2. \A i \in 1 .. 108 : f2[i] = f1[i]
      BY <1>3, <1>7, JoinedFirst
    <2>. QED
      BY <2>1, <2>2
  <1>. HIDE DEF f2
  <1>9. /\ HasBits(f3, 192)
        /\ \A i \in 1 .. 156 : f3[i] = f2[i]
        /\ \A i \in 1 .. 36 : f3[156 + i] = y2[i]
    <2>1. HasBits(f3, 192)
      BY <1>2, <1>8, JoinedBits
    <2>2. \A i \in 1 .. 156 : f3[i] = f2[i]
      BY <1>2, <1>8, JoinedFirst
    <2>3. \A i \in 1 .. 36 : f3[156 + i] = y2[i]
      BY <1>2, <1>8, JoinedLast, SMTT(30)
    <2>. QED
      BY <2>1, <2>2, <2>3
  <1>. HIDE DEF f3
  <1>10. /\ HasBits(frame, 264)
         /\ \A i \in 1 .. 192 : frame[i] = f3[i]
         /\ \A i \in 1 .. 72 : frame[192 + i] = z[i]
    <2>1. HasBits(frame, 264)
      BY <1>6, <1>9, JoinedBits
    <2>2. \A i \in 1 .. 192 : frame[i] = f3[i]
      BY <1>6, <1>9, JoinedFirst, SMTT(30)
    <2>3. \A i \in 1 .. 72 : frame[192 + i] = z[i]
      <3>1. HasBits(f3, 192) /\ HasBits(z, 72)
        BY <1>6, <1>9
      <3>. QED
        BY <3>1, JoinedLast
    <2>. QED
      BY <2>1, <2>2, <2>3
  <1>. HIDE DEF frame
  <1>11. Part(frame, 0, 72) = x
    <2>1. /\ HasBits(Part(frame, 0, 72), 72)
          /\ \A k \in 1 .. 72 : Part(frame, 0, 72)[k] = frame[0 + k]
      BY Parted
    <2>2. \A k \in 1 .. 72 : frame[0 + k] = x[k]
      <3>. TAKE k \in 1 .. 72
      <3>1. frame[0 + k] = f3[k]
        BY <1>10
      <3>2. f3[k] = f2[k]
        BY <1>9
      <3>3. f2[k] = f1[k]
        BY <1>8
      <3>4. f1[k] = x[k]
        BY <1>7
      <3>. QED
        BY <3>1, <3>2, <3>3, <3>4
    <2>. QED
      BY <2>1, <2>2 DEF AreChunks, HasBits
  <1>12. Part(frame, 192, 72) = z
    <2>1. /\ HasBits(Part(frame, 192, 72), 72)
          /\ \A k \in 1 .. 72 : Part(frame, 192, 72)[k] = frame[192 + k]
      <3>. DEFINE place == 192
                  size == 72
      <3>1. place \in Nat /\ size \in Nat
        OBVIOUS
      <3>. HIDE DEF place, size
      <3>2. /\ HasBits(Part(frame, place, size), size)
            /\ \A k \in 1 .. size : Part(frame, place, size)[k] = frame[place + k]
        BY <3>1, Parted
      <3>. QED
        BY <3>2 DEF place, size
    <2>2. \A k \in 1 .. 72 : frame[192 + k] = z[k]
      BY <1>10
    <2>. QED
      BY <2>1, <2>2 DEF AreChunks, HasBits
  <1>13. HasBits(first, 36) /\ \A k \in 1 .. 36 : first[k] = y[k]
    <2>1. HasBits(first, 36) /\ \A k \in 1 .. 36 : first[k] = frame[72 + k]
      BY Parted
    <2>2. \A k \in 1 .. 36 : frame[72 + k] = y1[k]
      <3>. TAKE k \in 1 .. 36
      <3>1. frame[72 + k] = f3[72 + k]
        BY <1>10
      <3>2. f3[72 + k] = f2[72 + k]
        BY <1>9
      <3>3. f2[72 + k] = f1[72 + k]
        BY <1>8
      <3>4. f1[72 + k] = y1[k]
        BY <1>7
      <3>. QED
        BY <3>1, <3>2, <3>3, <3>4
    <2>. QED
      BY <2>1, <2>2, <1>1
  <1>14. HasBits(second, 36) /\ \A k \in 1 .. 36 : second[k] = y[36 + k]
    <2>1. HasBits(second, 36) /\ \A k \in 1 .. 36 : second[k] = frame[156 + k]
      BY Parted
    <2>2. \A k \in 1 .. 36 : frame[156 + k] = y2[k]
      BY <1>9, <1>10
    <2>. QED
      BY <2>1, <2>2, <1>2
  <1>15. Join(first, second) = y
    <2>. HIDE DEF first, second
    <2>. DEFINE whole == Join(first, second)
    <2>1. /\ HasBits(whole, 72)
          /\ \A i \in 1 .. 36 : whole[i] = first[i]
          /\ \A i \in 1 .. 36 : whole[36 + i] = second[i]
      BY <1>13, <1>14, Joined
    <2>. HIDE DEF whole
    <2>2. \A i \in 1 .. 72 : whole[i] = y[i]
      <3>. TAKE i \in 1 .. 72
      <3>1. CASE i <= 36
        BY <3>1, <2>1, <1>13
      <3>2. CASE i > 36
        <4>1. i - 36 \in 1 .. 36 /\ 36 + (i - 36) = i
          BY <3>2
        <4>. QED
          BY <4>1, <2>1, <1>14
      <3>. QED
        BY <3>1, <3>2
    <2>. QED
      BY <2>1, <2>2 DEF AreChunks, HasBits, whole
  <1>. QED
    BY <1>4, <1>5, <1>10, <1>11, <1>12, <1>15

\* Counting the bits of the product code by rows from 1, bit n is sent in place
\* 181 n modulo 196, and is that of its row and column (_bptc19696_encode).
THEOREM BptcSendsCells ==
    ASSUME NEW data, NEW n \in 1 .. 195
    PROVE  Bptc(data)[((n * 181) % 196) + 1]
             = BptcColumns(data)[13 * ((n - 1) % 15) + (n - 1) \div 15 + 1]
  <1>. DEFINE columns == BptcColumns(data)
              cell(m) == columns[13 * ((m - 1) % 15) + (m - 1) \div 15 + 1]
              q == (n * 181) % 196
  <1>1. q \in 1 .. 195 /\ BptcSource(q) = n
    BY BptcPlaces
  <1>. HIDE DEF columns, q
  <1>2. ASSUME NEW p \in 1 .. 195
        PROVE  Bptc(data)[p + 1] = cell(BptcSource(p))
    <2>1. Bptc(data) = [k \in 1 .. 196 |-> IF k - 1 = 0 THEN Zero ELSE cell(BptcSource(k - 1))]
      BY DEF Bptc, Bits, columns
    <2>. HIDE DEF cell
    <2>2. p + 1 \in 1 .. 196 /\ p + 1 - 1 = p /\ p # 0
      OBVIOUS
    <2>3. Bptc(data)[p + 1] = IF p + 1 - 1 = 0 THEN Zero ELSE cell(BptcSource(p + 1 - 1))
      BY <2>1, <2>2
    <2>. QED
      BY <2>2, <2>3
  <1>3. Bptc(data)[q + 1] = cell(BptcSource(q))
    <2>. HIDE DEF cell
    <2>. QED
      BY <1>1, <1>2
  <1>4. Bptc(data)[q + 1] = cell(n)
    <2>. HIDE DEF cell
    <2>. QED
      BY <1>1, <1>3
  <1>. QED
    BY <1>4 DEF columns, q

-----------------------------------------------------------------------------

LEMMA XorSelf == ASSUME NEW x PROVE Xor(x, x) = {}
  BY DEF Xor

\* The sum of bits that lie elsewhere in another word.
Places(f, P) == {f[i] : i \in P}

LEMMA SumMoved ==
    ASSUME NEW K \in SUBSET Nat, IsFiniteSet(K), NEW f \in [K -> Nat],
           \A i, j \in K : f[i] = f[j] => i = j,
           NEW v, NEW w, \A i \in K : w[i + 1] = v[f[i] + 1]
    PROVE  Sum(v, Places(f, K)) = Sum(w, K)
  <1>. DEFINE S == {P \in SUBSET K : IsFiniteSet(Places(f, P)) /\ Sum(v, Places(f, P)) = Sum(w, P)}
  <1>1. {} \in S
    <2>1. Places(f, {}) = {}
      BY DEF Places
    <2>. QED
      BY <2>1, SumOfNone, FS_EmptySet
  <1>2. ASSUME NEW P \in SUBSET K, NEW x \in K \ P, P \in S
        PROVE  P \cup {x} \in S
    <2>. DEFINE Q == Places(f, P)
                y == f[x]
    <2>1. IsFiniteSet(P) /\ IsFiniteSet(Q)
      BY <1>2, FS_Subset
    <2>2. Places(f, P \cup {x}) = Q \cup {y}
      BY DEF Places
    <2>3. y \in Nat /\ y \notin Q /\ Q \in SUBSET Nat
      BY DEF Places
    <2>4. w[x + 1] = v[y + 1]
      OBVIOUS
    <2>. HIDE DEF Q, y
    <2>5. Sum(v, Q \cup {y}) = Xor(Sum(v, Q), v[y + 1])
      BY <2>1, <2>3, SumOfMore
    <2>6. Sum(w, P \cup {x}) = Xor(Sum(w, P), w[x + 1])
      BY <2>1, SumOfMore
    <2>7. Sum(v, Q) = Sum(w, P)
      BY <1>2 DEF Q
    <2>8. IsFiniteSet(Q \cup {y})
      BY <2>1, FS_AddElement
    <2>. QED
      BY <2>2, <2>4, <2>5, <2>6, <2>7, <2>8
  <1>. HIDE DEF S
  <1>3. K \in S
    BY <1>1, <1>2, SetInduction
  <1>. QED
    BY <1>3 DEF S

-----------------------------------------------------------------------------

\* Codes: the masks of a code with n data bits and m check bits, and what its
\* words are.
AreMasks(masks, n, m) == masks \in Seq(SUBSET (0 .. n - 1)) /\ Len(masks) = m

Checked(word, masks, n, m) ==
    HasBits(word, n + m) /\ \A j \in 1 .. m : word[n + j] = Sum(word, masks[j])

LEMMA MaskIsFinite ==
    ASSUME NEW n \in Nat, NEW m \in Nat, NEW masks, AreMasks(masks, n, m), NEW j \in 1 .. m
    PROVE  /\ masks[j] \in SUBSET Nat /\ IsFiniteSet(masks[j])
           /\ \A i \in masks[j] : i \in Nat /\ i + 1 \in 1 .. n
  <1>1. masks[j] \in SUBSET (0 .. n - 1)
    BY DEF AreMasks
  <1>2. IsFiniteSet(0 .. n - 1)
    BY FS_Interval
  <1>3. IsFiniteSet(masks[j])
    BY <1>1, <1>2, FS_Subset
  <1>. QED
    BY <1>1, <1>3

LEMMA EncodedIsChecked ==
    ASSUME NEW n \in Nat, NEW m \in Nat, NEW masks, AreMasks(masks, n, m),
           NEW data, HasBits(data, n)
    PROVE  /\ Checked(Encoded(data, masks), masks, n, m)
           /\ Part(Encoded(data, masks), 0, n) = data
  <1>. DEFINE parity == [k \in 1 .. m |-> Sum(data, masks[k])]
              word == Join(data, parity)
  <1>1. Encoded(data, masks) = word
    <2>1. DOMAIN masks = 1 .. m
      BY DEF AreMasks
    <2>. QED
      BY <2>1 DEF Encoded, Join
  <1>2. HasBits(parity, m) /\ \A k \in 1 .. m : parity[k] = Sum(data, masks[k])
    BY DEF HasBits
  <1>. HIDE DEF parity
  <1>3. /\ HasBits(word, n + m)
        /\ \A i \in 1 .. n : word[i] = data[i]
        /\ \A i \in 1 .. m : word[n + i] = parity[i]
    BY <1>2, Joined
  <1>4. Part(word, 0, n) = data
    <2>1. Part(word, 0, n) = Part(data, 0, n)
      BY <1>2, PartOfFirst
    <2>. QED
      BY <2>1, PartIsWhole
  <1>. HIDE DEF word
  <1>5. \A j \in 1 .. m : word[n + j] = Sum(word, masks[j])
    <2>. TAKE j \in 1 .. m
    <2>1. masks[j] \in SUBSET Nat /\ \A i \in masks[j] : word[i + 1] = data[i + 1]
      BY <1>3, MaskIsFinite
    <2>2. Sum(word, masks[j]) = Sum(data, masks[j])
      BY <2>1, SumSame
    <2>. QED
      BY <1>2, <1>3, <2>2
  <1>. QED
    BY <1>1, <1>3, <1>4, <1>5 DEF Checked

LEMMA CheckedIsEncoded ==
    ASSUME NEW n \in Nat, NEW m \in Nat, NEW masks, AreMasks(masks, n, m),
           NEW word, Checked(word, masks, n, m)
    PROVE  word = Encoded(Part(word, 0, n), masks)
  <1>. DEFINE data == Part(word, 0, n)
              parity == [k \in 1 .. m |-> Sum(data, masks[k])]
              code == Join(data, parity)
  <1>1. HasBits(data, n) /\ \A i \in 1 .. n : data[i] = word[0 + i]
    BY Parted
  <1>2. Encoded(data, masks) = code
    <2>1. DOMAIN masks = 1 .. m
      BY DEF AreMasks
    <2>. QED
      BY <2>1 DEF Encoded, Join
  <1>3. HasBits(parity, m) /\ \A k \in 1 .. m : parity[k] = Sum(data, masks[k])
    BY DEF HasBits
  <1>. HIDE DEF parity, data
  <1>4. /\ HasBits(code, n + m)
        /\ \A i \in 1 .. n : code[i] = data[i]
        /\ \A i \in 1 .. m : code[n + i] = parity[i]
    BY <1>1, <1>3, Joined
  <1>. HIDE DEF code
  <1>5. \A j \in 1 .. m : code[n + j] = word[n + j]
    <2>. TAKE j \in 1 .. m
    <2>1. masks[j] \in SUBSET Nat /\ \A i \in masks[j] : data[i + 1] = word[i + 1]
      BY <1>1, MaskIsFinite
    <2>2. Sum(data, masks[j]) = Sum(word, masks[j])
      BY <2>1, SumSame
    <2>. QED
      BY <1>3, <1>4, <2>2 DEF Checked
  <1>6. ASSUME NEW i \in 1 .. n + m PROVE code[i] = word[i]
    <2>1. CASE i <= n
      BY <1>1, <1>4, <2>1
    <2>2. CASE i > n
      <3>1. i - n \in 1 .. m /\ n + (i - n) = i
        BY <2>2
      <3>. QED
        BY <1>5, <3>1
    <2>. QED
      BY <2>1, <2>2
  <1>7. code = word
    <2>1. HasBits(word, n + m) /\ n + m \in Nat
      BY DEF Checked
    <2>. QED
      BY <1>4, <1>6, <2>1, SameWords
  <1>. QED
    BY <1>2, <1>7 DEF data

\* Rows that are words of a code have sums that are one, too: this makes the
\* rows of check bits of a product code words of its row code.
AllChecked(rows, K, masks, n, m) == \A k \in K : Checked(rows[k], masks, n, m)
AreSums(word, rows, columns, K, size) ==
    /\ HasBits(word, size)
    /\ \A c \in 1 .. size : word[c] = Sum(columns[c], K)
    /\ \A c \in 1 .. size : \A k \in K : columns[c][k + 1] = rows[k][c]

LEMMA SumsAreChecked ==
    ASSUME NEW n \in Nat, NEW m \in Nat, NEW masks, AreMasks(masks, n, m),
           NEW K \in SUBSET Nat, IsFiniteSet(K), NEW rows, AllChecked(rows, K, masks, n, m),
           NEW columns, NEW size, size = n + m, NEW word, AreSums(word, rows, columns, K, size)
    PROVE  Checked(word, masks, n, m)
  <1>0. /\ \A k \in K : Checked(rows[k], masks, n, m)
        /\ HasBits(word, n + m)
        /\ \A c \in 1 .. n + m : word[c] = Sum(columns[c], K)
        /\ \A c \in 1 .. n + m : \A k \in K : columns[c][k + 1] = rows[k][c]
    BY DEF AllChecked, AreSums
  <1>1. ASSUME NEW j \in 1 .. m PROVE word[n + j] = Sum(word, masks[j])
    <2>. DEFINE places == masks[j]
                from == [i \in places |-> columns[i + 1]]
                side == columns[n + j]
    <2>1. places \in SUBSET Nat /\ IsFiniteSet(places) /\ \A i \in places : i + 1 \in 1 .. n
      BY MaskIsFinite
    <2>2. n + j \in 1 .. n + m
      OBVIOUS
    <2>3. \A k \in K : side[k + 1] = Sum(rows[k], places)
      BY <1>0, <2>2 DEF Checked
    <2>. HIDE DEF places, side
    <2>4. \A i \in places : i + 1 \in 1 .. n + m
      BY <2>1
    <2>5. \A i \in places : \A k \in K : from[i][k + 1] = rows[k][i + 1]
      BY <1>0, <2>4
    <2>6. \A i \in places : word[i + 1] = Sum(from[i], K)
      BY <1>0, <2>4
    <2>. HIDE DEF from
    <2>7. Crossed(K, places, rows, from, side, word)
      BY <2>3, <2>5, <2>6 DEF Crossed
    <2>8. Sum(side, K) = Sum(word, places)
      BY <2>1, <2>7, SumOfSums
    <2>. QED
      BY <1>0, <2>2, <2>8 DEF side, places
  <1>. QED
    BY <1>0, <1>1 DEF Checked

-----------------------------------------------------------------------------

IsLonger(t, n, s, x) ==
    HasBits(t, n + 1) /\ (\A i \in 1 .. n : t[i] = s[i]) /\ t[n + 1] = x

LEMMA Appended ==
    ASSUME NEW n \in Nat, NEW s, HasBits(s, n), NEW x
    PROVE  IsLonger(Append(s, x), n, s, x)
  <1>. DEFINE S == {s[i] : i \in 1 .. n} \cup {x}
              t == Append(s, x)
  <1>1. s \in Seq(S) /\ Len(s) = n /\ x \in S
    BY DEF HasBits
  <1>. HIDE DEF S
  <1>2. /\ t \in Seq(S)
        /\ Len(t) = n + 1
        /\ \A i \in 1 .. n : t[i] = s[i]
        /\ t[n + 1] = x
    BY <1>1, AppendProperties
  <1>. HIDE DEF t
  <1>3. HasBits(t, n + 1)
    BY <1>2 DEF HasBits
  <1>. QED
    BY <1>2, <1>3 DEF t, IsLonger

LEMMA HammingMasks ==
    /\ AreMasks(Hamming15113, 11, 4)
    /\ AreMasks(Hamming16114, 11, 5)
    /\ AreMasks(Hamming1393, 9, 4)
  <1>1. AreMasks(Hamming15113, 11, 4)
    <2>. DEFINE a == {0, 1, 2, 3, 5, 7, 8}
                b == {1, 2, 3, 4, 6, 8, 9}
                c == {2, 3, 4, 5, 7, 9, 10}
                d == {0, 1, 2, 4, 6, 7, 10}
                S == SUBSET (0 .. 11 - 1)
    <2>1. a \in S /\ b \in S /\ c \in S /\ d \in S
      OBVIOUS
    <2>2. Hamming15113 = <<a, b, c, d>>
      BY DEF Hamming15113
    <2>. HIDE DEF a, b, c, d, S
    <2>3. Hamming15113 \in Seq(S) /\ Len(Hamming15113) = 4
      BY <2>1, <2>2
    <2>. QED
      BY <2>3 DEF AreMasks, S
  <1>2. AreMasks(Hamming16114, 11, 5)
    <2>. DEFINE e == {0, 2, 5, 6, 8, 9, 10}
                S == SUBSET (0 .. 11 - 1)
                h == Hamming15113
    <2>1. e \in S
      OBVIOUS
    <2>2. Hamming16114 = Append(h, e)
      BY DEF Hamming16114
    <2>3. h \in Seq(S) /\ Len(h) = 4
      BY <1>1 DEF AreMasks
    <2>. HIDE DEF e, S, h
    <2>4. Hamming16114 \in Seq(S) /\ Len(Hamming16114) = 5
      <3>1. Append(h, e) \in Seq(S) /\ Len(Append(h, e)) = Len(h) + 1
        BY <2>1, <2>3, AppendProperties, ZenonT(40)
      <3>. QED
        BY <2>2, <2>3, <3>1
    <2>. QED
      BY <2>4 DEF AreMasks, S
  <1>3. AreMasks(Hamming1393, 9, 4)
    <2>. DEFINE a == {0, 1, 3, 5, 6}
                b == {0, 1, 2, 4, 6, 7}
                c == {0, 1, 2, 3, 5, 7, 8}
                d == {0, 2, 4, 5, 8}
                S == SUBSET (0 .. 9 - 1)
    <2>1. a \in S /\ b \in S /\ c \in S /\ d \in S
      OBVIOUS
    <2>2. Hamming1393 = <<a, b, c, d>>
      BY DEF Hamming1393
    <2>. HIDE DEF a, b, c, d, S
    <2>3. Hamming1393 \in Seq(S) /\ Len(Hamming1393) = 4
      BY <2>1, <2>2
    <2>. QED
      BY <2>3 DEF AreMasks, S
  <1>. QED
    BY <1>1, <1>2, <1>3

-----------------------------------------------------------------------------

\* Row r of the embedded link control, from 0, and the data in rows 0 to 6.
EmbeddedRow(all, r) == Bits(16, LAMBDA c : all[8 * c + r + 1])

RowData(lc, r) ==
    IF r <= 1 THEN Part(lc, 11 * r, 11)
    ELSE Append(Part(lc, 22 + 10 * (r - 2), 10), FiveBitSum(lc)[7 - r])

LEMMA RowDataHasBits ==
    ASSUME NEW lc, NEW r \in 0 .. 6
    PROVE  /\ HasBits(RowData(lc, r), 11)
           /\ r >= 2 => /\ Part(RowData(lc, r), 0, 10) = Part(lc, 22 + 10 * (r - 2), 10)
                        /\ RowData(lc, r)[11] = FiveBitSum(lc)[7 - r]
  <1>1. CASE r <= 1
    <2>1. 11 * r \in Nat
      BY <1>1
    <2>2. HasBits(Part(lc, 11 * r, 11), 11)
      BY <2>1, Parted
    <2>. QED
      BY <1>1, <2>2 DEF RowData
  <1>2. CASE r >= 2
    <2>. DEFINE at == 22 + 10 * (r - 2)
                x == Part(lc, at, 10)
                y == FiveBitSum(lc)[7 - r]
                word == Append(x, y)
                part == Part(word, 0, 10)
    <2>1. at \in Nat
      BY <1>2
    <2>2. HasBits(x, 10)
      BY <2>1, Parted
    <2>3. RowData(lc, r) = word
      BY <1>2 DEF RowData
    <2>. HIDE DEF x, y
    <2>4. HasBits(word, 11) /\ word[11] = y /\ \A i \in 1 .. 10 : word[i] = x[i]
      <3>1. IsLonger(word, 10, x, y)
        BY <2>2, Appended
      <3>. HIDE DEF word
      <3>. QED
        BY <3>1 DEF IsLonger
    <2>. HIDE DEF word
    <2>5. HasBits(part, 10) /\ \A i \in 1 .. 10 : part[i] = word[0 + i]
      BY Parted
    <2>. HIDE DEF part
    <2>6. \A i \in 1 .. 10 : part[i] = x[i]
      BY <2>4, <2>5
    <2>7. part = x
      BY <2>2, <2>5, <2>6, SameWords
    <2>. QED
      BY <2>3, <2>4, <2>7 DEF part, x, y
  <1>. QED
    BY <1>1, <1>2

\* A DMR receiver that puts the embedded link control back into rows has eight
\* words of the Hamming code, the row of sums included, with columns of even
\* parity, and in the first seven the link control and its check sum
\* (_dmr_embedded_lc_raw).
THEOREM EmbeddedReadsBack ==
    ASSUME NEW lc
    PROVE  LET all == EmbeddedLc(lc)
           IN  /\ \A r \in 0 .. 7 : Checked(EmbeddedRow(all, r), Hamming16114, 11, 5)
               /\ \A r \in 0 .. 6 : Part(EmbeddedRow(all, r), 0, 11) = RowData(lc, r)
               /\ \A c \in 0 .. 15 : Sum(all, {8 * c + r : r \in 0 .. 7}) = Zero
  <1>. DEFINE all == EmbeddedLc(lc)
              row(r) == EmbeddedRow(all, r)
              words == [r \in 1 .. 7 |-> Encoded(RowData(lc, r - 1), Hamming16114)]
              flat == FlattenSeq(words)
              sums == [c \in 1 .. 16 |-> Sum(flat, {(c - 1) + 16 * k : k \in 0 .. 6})]
              rows == Join(flat, sums)
              columns == [c \in 1 .. 16 |-> [k \in 1 .. 8 |-> row(k - 1)[c]]]
  <1>1. all = [q \in 1 .. 128 |-> rows[16 * ((q - 1) % 8) + ((q - 1) \div 8) + 1]]
    <2>. DEFINE data(r) == IF r <= 2 THEN Part(lc, 11 * (r - 1), 11)
                           ELSE Append(Part(lc, 22 + 10 * (r - 3), 10), FiveBitSum(lc)[8 - r])
                given == [r \in 1 .. 7 |-> Encoded(data(r), Hamming16114)]
    <2>1. \A r \in 1 .. 7 : data(r) = RowData(lc, r - 1)
      <3>. TAKE r \in 1 .. 7
      <3>1. r - 1 <= 1 <=> r <= 2
        OBVIOUS
      <3>2. (r - 1) - 2 = r - 3 /\ 7 - (r - 1) = 8 - r
        OBVIOUS
      <3>. QED
        BY <3>1, <3>2 DEF RowData
    <2>2. given = words
      <3>. HIDE DEF data
      <3>. QED
        BY <2>1
    <2>3. EmbeddedRows(lc)
            = Join(FlattenSeq(given),
                   [c \in 1 .. 16 |-> Sum(FlattenSeq(given), {(c - 1) + 16 * k : k \in 0 .. 6})])
      BY DEF EmbeddedRows, Bits, Join
    <2>. HIDE DEF given, words
    <2>4. EmbeddedRows(lc) = rows
      BY <2>2, <2>3
    <2>. HIDE DEF rows
    <2>. QED
      BY <2>4 DEF EmbeddedLc, Bits
  <1>2. ASSUME NEW r \in 0 .. 6
        PROVE  /\ Checked(words[r + 1], Hamming16114, 11, 5)
               /\ Part(words[r + 1], 0, 11) = RowData(lc, r)
               /\ HasBits(words[r + 1], 16)
    <2>1. words[r + 1] = Encoded(RowData(lc, r), Hamming16114)
      <3>1. r + 1 \in 1 .. 7 /\ (r + 1) - 1 = r
        OBVIOUS
      <3>. QED
        BY <3>1
    <2>. HIDE DEF words
    <2>2. /\ Checked(words[r + 1], Hamming16114, 11, 5)
          /\ Part(words[r + 1], 0, 11) = RowData(lc, r)
      BY <2>1, HammingMasks, RowDataHasBits, EncodedIsChecked
    <2>3. HasBits(words[r + 1], 11 + 5)
      BY <2>2 DEF Checked
    <2>. QED
      BY <2>2, <2>3
  <1>3. AreWords(words, 7, 16)
    <2>1. HasBits(words, 7)
      BY DEF HasBits
    <2>. HIDE DEF words
    <2>2. \A r \in 1 .. 7 : HasBits(words[r], 16)
      <3>. TAKE r \in 1 .. 7
      <3>1. r - 1 \in 0 .. 6 /\ (r - 1) + 1 = r
        OBVIOUS
      <3>2. HasBits(words[(r - 1) + 1], 16)
        BY <1>2, <3>1
      <3>. QED
        BY <3>1, <3>2
    <2>. QED
      BY <2>1, <2>2 DEF AreWords
  <1>. HIDE DEF words
  <1>4. HasBits(flat, 112)
    <2>1. HasBits(flat, 16 * 7)
      BY <1>3, Flattened
    <2>. QED
      BY <2>1
  <1>5. \A r \in 1 .. 7, c \in 1 .. 16 : flat[16 * (r - 1) + c] = words[r][c]
    <2>1. LaidOut(flat, words, 7, 16)
      BY <1>3, Flattened
    <2>. QED
      BY <2>1 DEF LaidOut
  <1>6. HasBits(sums, 16)
        /\ \A c \in 1 .. 16 : sums[c] = Sum(flat, {(c - 1) + 16 * k : k \in 0 .. 6})
    BY DEF HasBits
  <1>. HIDE DEF flat, sums
  <1>7. \A i \in 1 .. 112 : rows[i] = flat[i]
    BY <1>4, <1>6, JoinedFirst
  <1>8. \A i \in 1 .. 16 : rows[112 + i] = sums[i]
    BY <1>4, <1>6, JoinedLast
  <1>. HIDE DEF rows
  <1>9. \A r \in 0 .. 7, c \in 0 .. 15 : all[(8 * c + r) + 1] = rows[16 * r + (c + 1)]
    <2>. TAKE r \in 0 .. 7, c \in 0 .. 15
    <2>1. 8 * c + r \in 0 .. 127 /\ (8 * c + r) % 8 = r /\ (8 * c + r) \div 8 = c
      OBVIOUS
    <2>2. ((8 * c + r) + 1) - 1 = 8 * c + r /\ (16 * r + c) + 1 = 16 * r + (c + 1)
      OBVIOUS
    <2>3. (8 * c + r) + 1 \in 1 .. 128
      BY <2>1
    <2>. HIDE DEF all
    <2>. QED
      BY <1>1, <2>1, <2>2, <2>3
  <1>. HIDE DEF all
  <1>10. \A r \in 0 .. 7 : HasBits(row(r), 16) /\ \A c \in 1 .. 16 : row(r)[c] = rows[16 * r + c]
    <2>. TAKE r \in 0 .. 7
    <2>1. row(r) = [c \in 1 .. 16 |-> all[8 * (c - 1) + r + 1]]
      BY DEF EmbeddedRow, Bits
    <2>2. HasBits(row(r), 16)
      BY <2>1 DEF HasBits
    <2>. HIDE DEF row
    <2>3. \A c \in 1 .. 16 : row(r)[c] = rows[16 * r + c]
      <3>. TAKE c \in 1 .. 16
      <3>1. c - 1 \in 0 .. 15 /\ (c - 1) + 1 = c
        OBVIOUS
      <3>2. all[(8 * (c - 1) + r) + 1] = rows[16 * r + ((c - 1) + 1)]
        BY <1>9, <3>1
      <3>. QED
        BY <2>1, <3>1, <3>2
    <2>. QED
      BY <2>2, <2>3
  <1>. HIDE DEF row
  <1>11. ASSUME NEW r \in 0 .. 6 PROVE row(r) = words[r + 1]
    <2>1. \A c \in 1 .. 16 : row(r)[c] = words[r + 1][c]
      <3>. TAKE c \in 1 .. 16
      <3>1. row(r)[c] = rows[16 * r + c]
        BY <1>10
      <3>2. 16 * r + c \in 1 .. 112
        OBVIOUS
      <3>3. rows[16 * r + c] = flat[16 * r + c]
        BY <1>7, <3>2
      <3>4. r + 1 \in 1 .. 7 /\ (r + 1) - 1 = r
        OBVIOUS
      <3>5. flat[16 * ((r + 1) - 1) + c] = words[r + 1][c]
        BY <1>5, <3>4
      <3>. QED
        BY <3>1, <3>3, <3>4, <3>5
    <2>2. HasBits(row(r), 16) /\ HasBits(words[r + 1], 16)
      BY <1>2, <1>10
    <2>. QED
      BY <2>1, <2>2, SameWords
  <1>12. \A r \in 0 .. 6 : Checked(row(r), Hamming16114, 11, 5) /\ Part(row(r), 0, 11) = RowData(lc, r)
    BY <1>2, <1>11
  <1>13. \A c \in 1 .. 16 : \A k \in 0 .. 7 : columns[c][k + 1] = row(k)[c]
    <2>. TAKE c \in 1 .. 16
    <2>. TAKE k \in 0 .. 7
    <2>1. k + 1 \in 1 .. 8 /\ (k + 1) - 1 = k
      OBVIOUS
    <2>. QED
      BY <2>1
  <1>. HIDE DEF columns
  <1>14. IsFiniteSet(0 .. 6) /\ IsFiniteSet(0 .. 7) /\ 0 .. 6 \in SUBSET Nat /\ 0 .. 7 \in SUBSET Nat
    <2>1. IsFiniteSet(0 .. 6)
      BY FS_Interval, 0 \in Int, 6 \in Int, Zenon
    <2>2. IsFiniteSet(0 .. 7)
      BY FS_Interval, 0 \in Int, 7 \in Int, Zenon
    <2>3. 0 .. 6 \in SUBSET Nat /\ 0 .. 7 \in SUBSET Nat
      OBVIOUS
    <2>. QED
      BY <2>1, <2>2, <2>3
  <1>15. ASSUME NEW c \in 1 .. 16 PROVE row(7)[c] = Sum(columns[c], 0 .. 6)
    <2>. DEFINE f == [k \in 0 .. 6 |-> (c - 1) + 16 * k]
                column == columns[c]
    <2>1. row(7)[c] = sums[c]
      <3>1. row(7)[c] = rows[16 * 7 + c]
        BY <1>10
      <3>2. 16 * 7 + c = 112 + c
        OBVIOUS
      <3>. QED
        BY <1>8, <3>1, <3>2
    <2>2. sums[c] = Sum(flat, Places(f, 0 .. 6))
      <3>1. {(c - 1) + 16 * k : k \in 0 .. 6} = Places(f, 0 .. 6)
        BY DEF Places
      <3>. QED
        BY <1>6, <3>1
    <2>3. f \in [0 .. 6 -> Nat] /\ \A i, j \in 0 .. 6 : f[i] = f[j] => i = j
      OBVIOUS
    <2>4. \A k \in 0 .. 6 : column[k + 1] = flat[f[k] + 1]
      <3>. TAKE k \in 0 .. 6
      <3>1. column[k + 1] = row(k)[c]
        BY <1>13
      <3>2. row(k)[c] = rows[16 * k + c]
        BY <1>10
      <3>3. 16 * k + c \in 1 .. 112 /\ f[k] + 1 = 16 * k + c
        OBVIOUS
      <3>. QED
        BY <1>7, <3>1, <3>2, <3>3
    <2>. HIDE DEF f, column
    <2>5. Sum(flat, Places(f, 0 .. 6)) = Sum(column, 0 .. 6)
      BY <1>14, <2>3, <2>4, SumMoved
    <2>. QED
      BY <2>1, <2>2, <2>5 DEF column
  <1>16. Checked(row(7), Hamming16114, 11, 5)
    <2>. DEFINE each == [k \in 0 .. 6 |-> row(k)]
                word == row(7)
    <2>1. \A k \in 0 .. 6 : each[k] = row(k) /\ Checked(each[k], Hamming16114, 11, 5)
      BY <1>12
    <2>. HIDE DEF each
    <2>2. \A c \in 1 .. 11 + 5 : \A k \in 0 .. 6 : columns[c][k + 1] = each[k][c]
      BY <1>13, <2>1
    <2>3. HasBits(word, 11 + 5)
      BY <1>10
    <2>4. \A c \in 1 .. 11 + 5 : word[c] = Sum(columns[c], 0 .. 6)
      BY <1>15
    <2>. HIDE DEF word
    <2>. HIDE DEF columns
    <2>5. AreSums(word, each, columns, 0 .. 6, 16)
      <3>1. 11 + 5 = 16
        OBVIOUS
      <3>. QED
        BY <3>1, <2>2, <2>3, <2>4, Zenon DEF AreSums
    <2>6. AllChecked(each, 0 .. 6, Hamming16114, 11, 5)
      BY <2>1 DEF AllChecked
    <2>7. Checked(word, Hamming16114, 11, 5)
      <3>1. AreMasks(Hamming16114, 11, 5) /\ 16 = 11 + 5
        BY HammingMasks
      <3>. QED
        BY <1>14, <2>5, <2>6, <3>1, SumsAreChecked
    <2>. QED
      BY <2>7 DEF word
  <1>17. ASSUME NEW c \in 0 .. 15 PROVE Sum(all, {8 * c + r : r \in 0 .. 7}) = Zero
    <2>. DEFINE f == [r \in 0 .. 7 |-> 8 * c + r]
                column == columns[c + 1]
    <2>1. {8 * c + r : r \in 0 .. 7} = Places(f, 0 .. 7)
      BY DEF Places
    <2>2. f \in [0 .. 7 -> Nat] /\ \A i, j \in 0 .. 7 : f[i] = f[j] => i = j
      OBVIOUS
    <2>3. c + 1 \in 1 .. 16
      OBVIOUS
    <2>4. \A r \in 0 .. 7 : column[r + 1] = row(r)[c + 1]
      BY <1>13, <2>3
    <2>5. \A r \in 0 .. 7 : column[r + 1] = all[f[r] + 1]
      <3>. TAKE r \in 0 .. 7
      <3>1. row(r)[c + 1] = rows[16 * r + (c + 1)]
        BY <1>10, <2>3
      <3>2. all[(8 * c + r) + 1] = rows[16 * r + (c + 1)]
        BY <1>9
      <3>. QED
        BY <2>4, <3>1, <3>2
    <2>6. row(7)[c + 1] = Sum(column, 0 .. 6)
      BY <1>15, <2>3
    <2>. HIDE DEF f, column
    <2>7. Sum(all, Places(f, 0 .. 7)) = Sum(column, 0 .. 7)
      BY <1>14, <2>2, <2>5, SumMoved
    <2>8. Sum(column, 0 .. 7) = Xor(Sum(column, 0 .. 6), column[7 + 1])
      <3>1. 0 .. 7 = (0 .. 6) \cup {7} /\ 7 \in Nat /\ 7 \notin 0 .. 6
        OBVIOUS
      <3>2. Sum(column, (0 .. 6) \cup {7}) = Xor(Sum(column, 0 .. 6), column[7 + 1])
        BY <1>14, <3>1, SumOfMore
      <3>. QED
        BY <3>1, <3>2
    <2>9. column[7 + 1] = Sum(column, 0 .. 6)
      BY <2>4, <2>6
    <2>. QED
      BY <2>1, <2>7, <2>8, <2>9, XorSelf DEF Zero
  <1>18. \A r \in 0 .. 7 : Checked(row(r), Hamming16114, 11, 5)
    <2>. TAKE r \in 0 .. 7
    <2>1. r \in 0 .. 6 \/ r = 7
      OBVIOUS
    <2>. QED
      BY <1>12, <1>16, <2>1
  <1>. QED
    BY <1>12, <1>17, <1>18 DEF row, all

-----------------------------------------------------------------------------

\* The bit in row r and column c of the product code, both from 0.
BptcCell(raw, r, c) == raw[(((15 * r + c + 1) * 181) % 196) + 1]
BptcRow(raw, r) == Bits(15, LAMBDA c : BptcCell(raw, r, c))
BptcColumn(raw, c) == Bits(13, LAMBDA r : BptcCell(raw, r, c))

\* The data of the first nine rows.
BptcData(data, r) ==
    IF r = 0 THEN Zeros(3) \o Part(data, 0, 8) ELSE Part(data, 8 + 11 * (r - 1), 11)

LEMMA BptcDataHasBits ==
    ASSUME NEW data, NEW r \in 0 .. 8
    PROVE  /\ HasBits(BptcData(data, r), 11)
           /\ r = 0 => Part(BptcData(data, r), 3, 8) = Part(data, 0, 8)
  <1>1. CASE r = 0
    <2>. DEFINE x == Zeros(3)
                y == Part(data, 0, 8)
    <2>1. HasBits(x, 3) /\ HasBits(y, 8)
      BY Parted DEF Zeros, Bits, HasBits
    <2>2. BptcData(data, r) = Join(x, y)
      BY <1>1 DEF BptcData, Join
    <2>. HIDE DEF x, y
    <2>3. HasBits(Join(x, y), 11)
      BY <2>1, JoinedBits
    <2>4. Part(Join(x, y), 3, 8) = Part(y, 0, 8)
      BY <2>1, PartOfLast
    <2>5. Part(y, 0, 8) = y
      BY <2>1, PartIsWhole
    <2>. QED
      BY <2>2, <2>3, <2>4, <2>5 DEF y
  <1>2. CASE r # 0
    <2>1. 8 + 11 * (r - 1) \in Nat
      BY <1>2
    <2>2. HasBits(Part(data, 8 + 11 * (r - 1), 11), 11)
      BY <2>1, Parted
    <2>. QED
      BY <1>2, <2>2 DEF BptcData
  <1>. QED
    BY <1>1, <1>2

\* The columns before they are sent: each a word of its code, and their first
\* nine bits rows that are words of the other.
LEMMA ColumnsAre ==
    ASSUME NEW data
    PROVE  \E words :
             /\ \A c \in 1 .. 15 : Checked(words[c], Hamming1393, 9, 4)
             /\ \A c \in 1 .. 15, r \in 1 .. 13 : BptcColumns(data)[13 * (c - 1) + r] = words[c][r]
             /\ \A c \in 1 .. 15, r \in 1 .. 9 :
                   words[c][r] = Encoded(BptcData(data, r - 1), Hamming15113)[c]
  <1>. DEFINE coded == [r \in 1 .. 9 |-> Encoded(BptcData(data, r - 1), Hamming15113)]
              rows == FlattenSeq(coded)
              column == [c \in 1 .. 15 |-> [r \in 1 .. 9 |-> rows[15 * (r - 1) + c]]]
              words == [c \in 1 .. 15 |-> Encoded(column[c], Hamming1393)]
  <1>1. BptcColumns(data) = FlattenSeq(words)
    <2>. DEFINE word(r) == IF r = 1 THEN Zeros(3) \o Part(data, 0, 8)
                           ELSE Part(data, 8 + 11 * (r - 2), 11)
                given == [r \in 1 .. 9 |-> Encoded(word(r), Hamming15113)]
    <2>1. \A r \in 1 .. 9 : word(r) = BptcData(data, r - 1)
      <3>. TAKE r \in 1 .. 9
      <3>1. (r - 1 = 0 <=> r = 1) /\ (r - 1) - 1 = r - 2
        OBVIOUS
      <3>. QED
        BY <3>1 DEF BptcData
    <2>2. given = coded
      <3>. HIDE DEF word
      <3>. QED
        BY <2>1
    <2>3. BptcColumns(data)
            = FlattenSeq([c \in 1 .. 15 |->
                  Encoded([r \in 1 .. 9 |-> FlattenSeq(given)[15 * (r - 1) + c]], Hamming1393)])
      BY DEF BptcColumns
    <2>4. BptcColumns(data)
            = FlattenSeq([c \in 1 .. 15 |->
                  Encoded([r \in 1 .. 9 |-> rows[15 * (r - 1) + c]], Hamming1393)])
      <3>. HIDE DEF given, coded
      <3>. QED
        BY <2>2, <2>3
    <2>5. [c \in 1 .. 15 |-> Encoded([r \in 1 .. 9 |-> rows[15 * (r - 1) + c]], Hamming1393)]
            = words
      <3>. HIDE DEF rows
      <3>. QED
        OBVIOUS
    <2>. HIDE DEF words, rows
    <2>. QED
      BY <2>4, <2>5
  <1>2. \A r \in 1 .. 9 : HasBits(coded[r], 15)
    <2>. TAKE r \in 1 .. 9
    <2>. DEFINE word == BptcData(data, r - 1)
    <2>1. HasBits(word, 11)
      <3>1. r - 1 \in 0 .. 8
        OBVIOUS
      <3>. QED
        BY <3>1, BptcDataHasBits
    <2>2. coded[r] = Encoded(word, Hamming15113)
      OBVIOUS
    <2>. HIDE DEF word, coded
    <2>3. Checked(Encoded(word, Hamming15113), Hamming15113, 11, 4)
      BY <2>1, HammingMasks, EncodedIsChecked
    <2>4. HasBits(coded[r], 11 + 4)
      BY <2>2, <2>3 DEF Checked
    <2>. QED
      BY <2>4
  <1>3. LaidOut(rows, coded, 9, 15)
    <2>1. HasBits(coded, 9)
      BY DEF HasBits
    <2>. HIDE DEF coded
    <2>2. AreWords(coded, 9, 15)
      BY <1>2, <2>1 DEF AreWords
    <2>. QED
      BY <2>2, Flattened
  <1>4. \A r \in 1 .. 9 : coded[r] = Encoded(BptcData(data, r - 1), Hamming15113)
    OBVIOUS
  <1>. HIDE DEF coded, rows
  <1>5. \A c \in 1 .. 15 : HasBits(column[c], 9) /\ \A r \in 1 .. 9 : column[c][r] = rows[15 * (r - 1) + c]
    BY DEF HasBits
  <1>. HIDE DEF column
  <1>6. \A c \in 1 .. 15 : /\ words[c] = Encoded(column[c], Hamming1393)
                           /\ Checked(words[c], Hamming1393, 9, 4)
                           /\ Part(words[c], 0, 9) = column[c]
    <2>. TAKE c \in 1 .. 15
    <2>1. words[c] = Encoded(column[c], Hamming1393)
      OBVIOUS
    <2>. HIDE DEF words
    <2>. QED
      BY <1>5, <2>1, HammingMasks, EncodedIsChecked
  <1>7. LaidOut(FlattenSeq(words), words, 15, 13)
    <2>1. HasBits(words, 15)
      BY DEF HasBits
    <2>2. \A c \in 1 .. 15 : HasBits(words[c], 13)
      <3>. TAKE c \in 1 .. 15
      <3>1. HasBits(words[c], 9 + 4)
        <4>. HIDE DEF words
        <4>. QED
          BY <1>6 DEF Checked
      <3>. HIDE DEF words
      <3>. QED
        BY <3>1
    <2>. HIDE DEF words
    <2>3. AreWords(words, 15, 13)
      BY <2>1, <2>2 DEF AreWords
    <2>. QED
      BY <2>3, Flattened
  <1>. HIDE DEF words
  <1>8. \A c \in 1 .. 15, r \in 1 .. 9 : words[c][r] = coded[r][c]
    <2>. TAKE c \in 1 .. 15, r \in 1 .. 9
    <2>1. Part(words[c], 0, 9)[r] = words[c][0 + r]
      BY Parted
    <2>2. column[c][r] = rows[15 * (r - 1) + c]
      BY <1>5
    <2>3. rows[15 * (r - 1) + c] = coded[r][c]
      BY <1>3 DEF LaidOut
    <2>. QED
      BY <1>6, <2>1, <2>2, <2>3
  <1>9. /\ \A c \in 1 .. 15 : Checked(words[c], Hamming1393, 9, 4)
        /\ \A c \in 1 .. 15, r \in 1 .. 13 : BptcColumns(data)[13 * (c - 1) + r] = words[c][r]
        /\ \A c \in 1 .. 15, r \in 1 .. 9 :
              words[c][r] = Encoded(BptcData(data, r - 1), Hamming15113)[c]
    BY <1>1, <1>4, <1>6, <1>7, <1>8, ZenonT(40) DEF LaidOut
  <1>. QED
    BY <1>9

\* Whoever puts the bits of a control payload back into rows and columns has
\* thirteen rows and fifteen columns that are words of their codes, the rows of
\* check bits included, and in the first nine rows the data
\* (_bptc19696_encode).
THEOREM BptcReadsBack ==
    ASSUME NEW data
    PROVE  LET raw == Bptc(data)
           IN  /\ \A r \in 0 .. 12 : Checked(BptcRow(raw, r), Hamming15113, 11, 4)
               /\ \A c \in 0 .. 14 : Checked(BptcColumn(raw, c), Hamming1393, 9, 4)
               /\ \A r \in 0 .. 8 : Part(BptcRow(raw, r), 0, 11) = BptcData(data, r)
  <1>. DEFINE raw == Bptc(data)
              row(r) == BptcRow(raw, r)
              column(c) == BptcColumn(raw, c)
              code(r) == Encoded(BptcData(data, r), Hamming15113)
  <1>1. PICK words :
             /\ \A c \in 1 .. 15 : Checked(words[c], Hamming1393, 9, 4)
             /\ \A c \in 1 .. 15, r \in 1 .. 13 : BptcColumns(data)[13 * (c - 1) + r] = words[c][r]
             /\ \A c \in 1 .. 15, r \in 1 .. 9 : words[c][r] = code(r - 1)[c]
    BY ColumnsAre
  <1>2. \A r \in 0 .. 12, c \in 0 .. 14 : BptcCell(raw, r, c) = words[c + 1][r + 1]
    <2>. TAKE r \in 0 .. 12, c \in 0 .. 14
    <2>. DEFINE n == 15 * r + c + 1
    <2>1. n \in 1 .. 195 /\ (n - 1) % 15 = c /\ (n - 1) \div 15 = r
      OBVIOUS
    <2>2. BptcCell(raw, r, c) = raw[((n * 181) % 196) + 1]
      BY DEF BptcCell
    <2>. HIDE DEF n
    <2>3. BptcCell(raw, r, c) = BptcColumns(data)[13 * ((n - 1) % 15) + (n - 1) \div 15 + 1]
      BY <2>1, <2>2, BptcSendsCells, ZenonT(30)
    <2>4. BptcCell(raw, r, c) = BptcColumns(data)[(13 * c + r) + 1]
      BY <2>1, <2>3
    <2>5. c + 1 \in 1 .. 15 /\ r + 1 \in 1 .. 13 /\ 13 * ((c + 1) - 1) + (r + 1) = (13 * c + r) + 1
      OBVIOUS
    <2>6. BptcColumns(data)[13 * ((c + 1) - 1) + (r + 1)] = words[c + 1][r + 1]
      BY <1>1, <2>5
    <2>. QED
      BY <2>4, <2>5, <2>6
  <1>. HIDE DEF raw
  <1>3. \A r \in 0 .. 12 : HasBits(row(r), 15) /\ \A c \in 1 .. 15 : row(r)[c] = words[c][r + 1]
    <2>. TAKE r \in 0 .. 12
    <2>1. row(r) = [c \in 1 .. 15 |-> BptcCell(raw, r, c - 1)]
      BY DEF BptcRow, Bits
    <2>. HIDE DEF row
    <2>2. \A c \in 1 .. 15 : BptcCell(raw, r, c - 1) = words[c][r + 1]
      <3>. TAKE c \in 1 .. 15
      <3>1. c - 1 \in 0 .. 14 /\ (c - 1) + 1 = c
        OBVIOUS
      <3>2. BptcCell(raw, r, c - 1) = words[(c - 1) + 1][r + 1]
        BY <1>2, <3>1
      <3>. QED
        BY <3>1, <3>2
    <2>. QED
      BY <2>1, <2>2 DEF HasBits
  <1>4. \A c \in 1 .. 15 : column(c - 1) = words[c]
    <2>. TAKE c \in 1 .. 15
    <2>1. column(c - 1) = [r \in 1 .. 13 |-> BptcCell(raw, r - 1, c - 1)]
      BY DEF BptcColumn, Bits
    <2>. HIDE DEF column
    <2>2. \A r \in 1 .. 13 : BptcCell(raw, r - 1, c - 1) = words[c][r]
      <3>. TAKE r \in 1 .. 13
      <3>1. c - 1 \in 0 .. 14 /\ (c - 1) + 1 = c /\ r - 1 \in 0 .. 12 /\ (r - 1) + 1 = r
        OBVIOUS
      <3>2. BptcCell(raw, r - 1, c - 1) = words[(c - 1) + 1][(r - 1) + 1]
        BY <1>2, <3>1
      <3>. QED
        BY <3>1, <3>2
    <2>3. HasBits(column(c - 1), 13) /\ \A r \in 1 .. 13 : column(c - 1)[r] = words[c][r]
      BY <2>1, <2>2 DEF HasBits
    <2>4. HasBits(words[c], 13)
      <3>1. HasBits(words[c], 9 + 4)
        BY <1>1 DEF Checked
      <3>. QED
        BY <3>1
    <2>. QED
      BY <2>3, <2>4, SameWords
  <1>. HIDE DEF row, column
  <1>5. ASSUME NEW r \in 0 .. 8 PROVE row(r) = code(r)
    <2>1. HasBits(code(r), 15)
      <3>1. Checked(code(r), Hamming15113, 11, 4)
        BY BptcDataHasBits, HammingMasks, EncodedIsChecked
      <3>2. HasBits(code(r), 11 + 4)
        BY <3>1 DEF Checked
      <3>. HIDE DEF code
      <3>. QED
        BY <3>2
    <2>. HIDE DEF code
    <2>2. \A c \in 1 .. 15 : row(r)[c] = code(r)[c]
      <3>. TAKE c \in 1 .. 15
      <3>1. r + 1 \in 1 .. 9 /\ (r + 1) - 1 = r
        OBVIOUS
      <3>2. words[c][r + 1] = code((r + 1) - 1)[c]
        BY <1>1, <3>1
      <3>. QED
        BY <1>3, <3>1, <3>2
    <2>3. HasBits(row(r), 15)
      BY <1>3
    <2>. QED
      BY <2>1, <2>2, <2>3, SameWords
  <1>6. ASSUME NEW r \in 0 .. 8
        PROVE  Checked(row(r), Hamming15113, 11, 4) /\ Part(row(r), 0, 11) = BptcData(data, r)
    <2>1. /\ Checked(code(r), Hamming15113, 11, 4)
          /\ Part(code(r), 0, 11) = BptcData(data, r)
      BY BptcDataHasBits, HammingMasks, EncodedIsChecked
    <2>. QED
      BY <1>5, <2>1
  <1>. HIDE DEF code
  <1>7. ASSUME NEW k \in 1 .. 4 PROVE Checked(row(8 + k), Hamming15113, 11, 4)
    <2>. DEFINE K == Hamming1393[k]
                each == [i \in K |-> row(i)]
                word == row(8 + k)
    <2>1. K \in SUBSET Nat /\ IsFiniteSet(K) /\ \A i \in K : i + 1 \in 1 .. 9
      BY HammingMasks, MaskIsFinite
    <2>. HIDE DEF K
    <2>2. \A i \in K : i \in 0 .. 8 /\ each[i] = row(i)
      BY <2>1
    <2>. HIDE DEF each
    <2>3. AllChecked(each, K, Hamming15113, 11, 4)
      BY <1>6, <2>2 DEF AllChecked
    <2>4. \A c \in 1 .. 15 : \A i \in K : words[c][i + 1] = each[i][c]
      <3>. TAKE c \in 1 .. 15
      <3>. TAKE i \in K
      <3>1. i \in 0 .. 12
        BY <2>2
      <3>. QED
        BY <1>3, <2>2, <3>1
    <2>5. HasBits(word, 15) /\ \A c \in 1 .. 15 : word[c] = words[c][9 + k]
      <3>1. 8 + k \in 0 .. 12 /\ (8 + k) + 1 = 9 + k
        OBVIOUS
      <3>. QED
        BY <1>3, <3>1
    <2>6. \A c \in 1 .. 15 : word[c] = Sum(words[c], K)
      BY <1>1, <2>5 DEF Checked, K
    <2>. HIDE DEF word
    <2>7. AreSums(word, each, words, K, 15)
      BY <2>4, <2>5, <2>6 DEF AreSums
    <2>8. Checked(word, Hamming15113, 11, 4)
      <3>1. AreMasks(Hamming15113, 11, 4) /\ 15 = 11 + 4
        BY HammingMasks
      <3>. QED
        BY <2>1, <2>3, <2>7, <3>1, SumsAreChecked
    <2>. QED
      BY <2>8 DEF word
  <1>8. \A r \in 0 .. 12 : Checked(row(r), Hamming15113, 11, 4)
    <2>. TAKE r \in 0 .. 12
    <2>1. CASE r <= 8
      BY <1>6, <2>1
    <2>2. CASE r > 8
      <3>1. r - 8 \in 1 .. 4 /\ 8 + (r - 8) = r
        BY <2>2
      <3>. QED
        BY <1>7, <3>1
    <2>. QED
      BY <2>1, <2>2
  <1>9. \A c \in 0 .. 14 : Checked(column(c), Hamming1393, 9, 4)
    <2>. TAKE c \in 0 .. 14
    <2>1. c + 1 \in 1 .. 15 /\ (c + 1) - 1 = c
      OBVIOUS
    <2>. QED
      BY <1>1, <1>4, <2>1
  <1>. QED
    BY <1>6, <1>8, <1>9 DEF row, column, raw

-----------------------------------------------------------------------------

\* GF(256).  Doubling, and what is doubled again and again.

LEMMA DoublePlaces ==
    ASSUME NEW a \in SUBSET (0 .. 7)
    PROVE  /\ Double(a) \in SUBSET (0 .. 7)
           /\ 0 \in Double(a) <=> 7 \in a
           /\ \A p \in {1, 5, 6, 7} : p \in Double(a) <=> p - 1 \in a
           /\ \A p \in {2, 3, 4} : p \in Double(a) <=> ~(p - 1 \in a <=> 7 \in a)
  <1>. DEFINE up == {k + 1 : k \in a}
  <1>1. \A p \in Int : p \in up <=> p - 1 \in a
    OBVIOUS
  <1>2. up \in SUBSET (1 .. 8) /\ (8 \in up <=> 7 \in a)
    OBVIOUS
  <1>3. Double(a) = IF 8 \in up THEN Xor(up \ {8}, {0, 2, 3, 4}) ELSE up
    BY DEF Double
  <1>. HIDE DEF up
  <1>4. CASE 7 \in a
    <2>1. \A p : p \in Double(a) <=> ((p \in up /\ p # 8) /\ p \notin {0, 2, 3, 4})
                                      \/ (p \in {0, 2, 3, 4} /\ ~(p \in up /\ p # 8))
      BY <1>2, <1>3, <1>4 DEF Xor
    <2>2. Double(a) \in SUBSET (0 .. 7)
      <3>1. ASSUME NEW p \in Double(a) PROVE p \in 0 .. 7
        <4>1. (p \in up /\ p # 8) \/ p \in {0, 2, 3, 4}
          BY <2>1
        <4>2. CASE p \in up /\ p # 8
          <5>1. p \in 1 .. 8
            BY <1>2, <4>2
          <5>. QED
            BY <4>2, <5>1
        <4>3. CASE p \in {0, 2, 3, 4}
          BY <4>3
        <4>. QED
          BY <4>1, <4>2, <4>3
      <3>. QED
        BY <3>1
    <2>3. 0 \in Double(a)
      BY <1>2, <2>1
    <2>4. \A p \in {1, 5, 6, 7} : p \in Double(a) <=> p - 1 \in a
      BY <1>1, <2>1
    <2>5. \A p \in {2, 3, 4} : p \in Double(a) <=> ~(p - 1 \in a)
      <3>1. \A p \in {2, 3, 4} : p \in Double(a) <=> ~(p \in up)
        BY <2>1
      <3>. QED
        BY <1>1, <3>1
    <2>. QED
      BY <1>4, <2>2, <2>3, <2>4, <2>5
  <1>5. CASE 7 \notin a
    BY <1>1, <1>2, <1>3, <1>5
  <1>. QED
    BY <1>4, <1>5

LEMMA DoubleAdds ==
    ASSUME NEW a \in SUBSET (0 .. 7), NEW b \in SUBSET (0 .. 7)
    PROVE  Xor(a, b) \in SUBSET (0 .. 7) /\ Double(Xor(a, b)) = Xor(Double(a), Double(b))
  <1>1. Xor(a, b) \in SUBSET (0 .. 7)
    BY DEF Xor
  <1>2. \A p \in 0 .. 7 : p \in Xor(a, b) <=> ~(p \in a <=> p \in b)
    BY DEF Xor
  <1>3. \A p : p \in Xor(Double(a), Double(b)) <=> ~(p \in Double(a) <=> p \in Double(b))
    BY DEF Xor
  <1>4. \A p \in 0 .. 7 : p \in Double(Xor(a, b)) <=> ~(p \in Double(a) <=> p \in Double(b))
    <2>. DEFINE c == Xor(a, b)
    <2>. HIDE DEF c
    <2>1. ASSUME NEW d \in SUBSET (0 .. 7)
          PROVE  /\ 0 \in Double(d) <=> 7 \in d
                 /\ 1 \in Double(d) <=> 0 \in d
                 /\ 5 \in Double(d) <=> 4 \in d
                 /\ 6 \in Double(d) <=> 5 \in d
                 /\ 7 \in Double(d) <=> 6 \in d
                 /\ 2 \in Double(d) <=> ~(1 \in d <=> 7 \in d)
                 /\ 3 \in Double(d) <=> ~(2 \in d <=> 7 \in d)
                 /\ 4 \in Double(d) <=> ~(3 \in d <=> 7 \in d)
      BY DoublePlaces
    <2>2. c \in SUBSET (0 .. 7)
      BY <1>1 DEF c
    <2>3. \A p \in 0 .. 7 : p \in c <=> ~(p \in a <=> p \in b)
      BY <1>2 DEF c
    <2>4. \A p \in 0 .. 7 : p \in Double(c) <=> ~(p \in Double(a) <=> p \in Double(b))
      BY <2>1, <2>2, <2>3
    <2>. QED
      BY <2>4 DEF c
  <1>5. /\ Double(Xor(a, b)) \in SUBSET (0 .. 7)
        /\ Double(a) \in SUBSET (0 .. 7) /\ Double(b) \in SUBSET (0 .. 7)
    BY <1>1, DoublePlaces
  <1>6. \A p : p \in Double(Xor(a, b)) <=> p \in Xor(Double(a), Double(b))
    BY <1>3, <1>4, <1>5
  <1>. QED
    BY <1>1, <1>6

Doubled(s, a, n) == s = [k \in 0 .. n |-> IF k = 0 THEN a ELSE Double(s[k - 1])]

LEMMA DoubledExists ==
    ASSUME NEW a, NEW n \in Nat
    PROVE  \E s : Doubled(s, a, n)
  <1>. DEFINE S == {i \in Nat : \E s : Doubled(s, a, i)}
  <1>1. 0 \in S
    <2>. DEFINE s == [k \in 0 .. 0 |-> a]
    <2>1. s = [k \in 0 .. 0 |-> IF k = 0 THEN a ELSE Double(s[k - 1])]
      OBVIOUS
    <2>. QED
      BY <2>1 DEF Doubled
  <1>2. ASSUME NEW i \in 0 .. n, i \in S PROVE i + 1 \in S
    <2>1. PICK s : Doubled(s, a, i)
      BY <1>2
    <2>. DEFINE last == Double(s[i])
                t == [k \in 0 .. i + 1 |-> IF k <= i THEN s[k] ELSE last]
    <2>2. ASSUME NEW k \in 0 .. i + 1
          PROVE  t[k] = IF k = 0 THEN a ELSE Double(t[k - 1])
      <3>1. CASE k <= i
        <4>1. t[k] = s[k] /\ (k # 0 => t[k - 1] = s[k - 1])
          BY <3>1
        <4>2. s[k] = IF k = 0 THEN a ELSE Double(s[k - 1])
          <5>1. k \in 0 .. i
            BY <3>1
          <5>. QED
            BY <2>1, <5>1 DEF Doubled
        <4>. QED
          BY <4>1, <4>2
      <3>2. CASE k = i + 1
        <4>1. k # 0 /\ k - 1 = i /\ t[i] = s[i] /\ t[k] = last
          <5>. HIDE DEF last
          <5>. QED
            BY <3>2
        <4>. QED
          BY <3>2, <4>1
      <3>. QED
        BY <3>1, <3>2
    <2>3. Doubled(t, a, i + 1)
      <3>1. t = [k \in 0 .. i + 1 |-> t[k]]
        OBVIOUS
      <3>. HIDE DEF t
      <3>. QED
        BY <2>2, <3>1 DEF Doubled
    <2>. QED
      BY <2>3
  <1>. HIDE DEF S
  <1>3. n \in S
    BY <1>1, <1>2, RangeInduction
  <1>. QED
    BY <1>3 DEF S

LEMMA DoubledIs ==
    ASSUME NEW s, NEW a \in SUBSET (0 .. 7), NEW n \in Nat, Doubled(s, a, n)
    PROVE  /\ s[0] = a
           /\ \A k \in 0 .. n : s[k] \in SUBSET (0 .. 7)
           /\ \A k \in 0 .. n : k # n => s[k + 1] = Double(s[k])
  <1>1. s[0] = a
    BY DEF Doubled
  <1>2. ASSUME NEW k \in 0 .. n, k # n PROVE s[k + 1] = Double(s[k])
    <2>1. k + 1 \in 0 .. n /\ k + 1 # 0 /\ (k + 1) - 1 = k
      BY <1>2
    <2>2. s[k + 1] = Double(s[(k + 1) - 1])
      BY <2>1 DEF Doubled
    <2>. QED
      BY <2>1, <2>2
  <1>. DEFINE S == {k \in Nat : s[k] \in SUBSET (0 .. 7)}
  <1>3. 0 \in S
    BY <1>1
  <1>4. ASSUME NEW k \in 0 .. n, k # n, k \in S PROVE k + 1 \in S
    BY <1>2, <1>4, DoublePlaces
  <1>. HIDE DEF S
  <1>5. 0 .. n \subseteq S
    BY <1>3, <1>4, RangeInduction
  <1>. QED
    BY <1>1, <1>2, <1>5 DEF S

\* A sum over some places is one over all of them, of a word that has nothing
\* elsewhere.
LEMMA MaskedSum ==
    ASSUME NEW P \in SUBSET Nat, IsFiniteSet(P), NEW Q \in SUBSET P, NEW v, NEW w,
           \A i \in P : w[i + 1] = IF i \in Q THEN v[i + 1] ELSE {}
    PROVE  Sum(v, Q) = Sum(w, P)
  <1>1. IsFiniteSet(Q) /\ Q \in SUBSET Nat
    BY FS_Subset
  <1>2. ASSUME NEW u PROVE u \in Sum(v, Q) <=> u \in Sum(w, P)
    <2>1. Found(v, Q, u) = Found(w, P, u)
      BY DEF Found
    <2>2. u \in Sum(v, Q) <=> Cardinality(Found(v, Q, u)) % 2 = 1
      BY <1>1, SumIsParity
    <2>3. u \in Sum(w, P) <=> Cardinality(Found(w, P, u)) % 2 = 1
      BY SumIsParity
    <2>. QED
      BY <2>1, <2>2, <2>3
  <1>. QED
    BY <1>2 DEF Sum

\* What GfMul makes of a constant: for each place the constant times a power of
\* x.  Power p of a product is the sum of the bits whose power has it.
Shifts(a) == CHOOSE s : Doubled(s, a, 7)
Masked(x, s, p) == [i \in 1 .. 8 |-> IF p \in s[8 - i] THEN x[i] ELSE {}]
Coefficient(a, x, p) == Sum(Masked(x, Shifts(a), p), 0 .. 7)

LEMMA GfMulIs ==
    ASSUME NEW a, NEW x
    PROVE  /\ HasBits(GfMul(a, x), 8)
           /\ \A p \in 0 .. 7 : GfMul(a, x)[8 - p] = Coefficient(a, x, p)
  <1>. DEFINE taken(p) == {7 - k : k \in {n \in 0 .. 7 : p \in Shifts(a)[n]}}
              bits == [i \in 1 .. 8 |-> Sum(x, taken(7 - (i - 1)))]
  <1>1. GfMul(a, x) = bits
    BY DEF GfMul, Shifts, Doubled, Bits
  <1>2. ASSUME NEW p \in 0 .. 7 PROVE Sum(x, taken(p)) = Coefficient(a, x, p)
    <2>1. IsFiniteSet(0 .. 7)
      BY FS_Interval, 0 \in Int, 7 \in Int, Zenon
    <2>. DEFINE Q == taken(p)
                P == 0 .. 7
                s == Shifts(a)
                w == Masked(x, s, p)
    <2>2. \A i \in P : i \in Q <=> p \in s[7 - i]
      <3>. HIDE DEF s
      <3>1. Q = {7 - k : k \in {n \in 0 .. 7 : p \in s[n]}}
        BY DEF s
      <3>. HIDE DEF Q
      <3>2. ASSUME NEW i \in P, p \in s[7 - i] PROVE i \in Q
        <4>1. 7 - i \in {n \in 0 .. 7 : p \in s[n]} /\ i = 7 - (7 - i)
          BY <3>2
        <4>. QED
          BY <3>1, <4>1
      <3>3. ASSUME NEW i \in P, i \in Q PROVE p \in s[7 - i]
        <4>1. PICK k \in 0 .. 7 : p \in s[k] /\ i = 7 - k
          BY <3>1, <3>3
        <4>2. k = 7 - i
          BY <4>1
        <4>. QED
          BY <4>1, <4>2
      <3>. QED
        BY <3>2, <3>3
    <2>3. Q \in SUBSET P
      OBVIOUS
    <2>4. \A i \in P : w[i + 1] = IF i \in Q THEN x[i + 1] ELSE {}
      <3>. HIDE DEF Q, s
      <3>. TAKE i \in P
      <3>1. i + 1 \in 1 .. 8 /\ 8 - (i + 1) = 7 - i
        OBVIOUS
      <3>2. w[i + 1] = IF p \in s[8 - (i + 1)] THEN x[i + 1] ELSE {}
        BY <3>1 DEF Masked
      <3>. QED
        BY <2>2, <3>1, <3>2
    <2>5. P \in SUBSET Nat
      OBVIOUS
    <2>. HIDE DEF Q, w
    <2>6. Sum(x, Q) = Sum(w, P)
      BY <2>1, <2>3, <2>4, <2>5, MaskedSum
    <2>. QED
      BY <2>6 DEF Q, P, w, s, Coefficient
  <1>3. \A p \in 0 .. 7 : bits[8 - p] = Coefficient(a, x, p)
    <2>. TAKE p \in 0 .. 7
    <2>1. 8 - p \in 1 .. 8 /\ 7 - ((8 - p) - 1) = p
      OBVIOUS
    <2>. HIDE DEF taken
    <2>2. bits[8 - p] = Sum(x, taken(p))
      BY <2>1
    <2>. QED
      BY <1>2, <2>2
  <1>4. HasBits(bits, 8)
    BY DEF HasBits
  <1>. HIDE DEF bits
  <1>. QED
    BY <1>1, <1>3, <1>4

LEMMA ShiftsAre ==
    ASSUME NEW a \in SUBSET (0 .. 7)
    PROVE  /\ Shifts(a)[0] = a
           /\ \A k \in 0 .. 7 : Shifts(a)[k] \in SUBSET (0 .. 7)
           /\ \A k \in 0 .. 7 : k # 7 => Shifts(a)[k + 1] = Double(Shifts(a)[k])
  <1>1. Doubled(Shifts(a), a, 7)
    <2>1. \E s : Doubled(s, a, 7)
      BY DoubledExists
    <2>. QED
      BY <2>1 DEF Shifts
  <1>. QED
    BY <1>1, DoubledIs

LEMMA ShiftsOfDouble ==
    ASSUME NEW a \in SUBSET (0 .. 7), NEW k \in 0 .. 7
    PROVE  Shifts(Double(a))[k] = Double(Shifts(a)[k])
  <1>. DEFINE b == Double(a)
              s == Shifts(a)
              t == Shifts(b)
              S == {n \in Nat : t[n] = Double(s[n])}
  <1>1. b \in SUBSET (0 .. 7)
    BY DoublePlaces
  <1>2. s[0] = a /\ \A n \in 0 .. 7 : n # 7 => s[n + 1] = Double(s[n])
    BY ShiftsAre
  <1>. HIDE DEF b
  <1>3. t[0] = b /\ \A n \in 0 .. 7 : n # 7 => t[n + 1] = Double(t[n])
    BY <1>1, ShiftsAre
  <1>. HIDE DEF s, t
  <1>4. 0 \in S
    BY <1>2, <1>3 DEF b
  <1>5. \A n \in 0 .. 7 : n # 7 /\ n \in S => n + 1 \in S
    BY <1>2, <1>3
  <1>. HIDE DEF S
  <1>6. 0 .. 7 \subseteq S
    BY <1>4, <1>5, RangeInduction
  <1>. QED
    BY <1>6 DEF S, s, t, b

LEMMA ShiftsOfXor ==
    ASSUME NEW a \in SUBSET (0 .. 7), NEW b \in SUBSET (0 .. 7), NEW k \in 0 .. 7
    PROVE  Shifts(Xor(a, b))[k] = Xor(Shifts(a)[k], Shifts(b)[k])
  <1>. DEFINE c == Xor(a, b)
              s == Shifts(a)
              t == Shifts(b)
              v == Shifts(c)
              S == {n \in Nat : v[n] = Xor(s[n], t[n])}
  <1>1. c \in SUBSET (0 .. 7)
    BY DoubleAdds
  <1>2. /\ s[0] = a /\ \A n \in 0 .. 7 : n # 7 => s[n + 1] = Double(s[n])
        /\ t[0] = b /\ \A n \in 0 .. 7 : n # 7 => t[n + 1] = Double(t[n])
        /\ \A n \in 0 .. 7 : s[n] \in SUBSET (0 .. 7) /\ t[n] \in SUBSET (0 .. 7)
    BY ShiftsAre
  <1>. HIDE DEF c
  <1>3. v[0] = c /\ \A n \in 0 .. 7 : n # 7 => v[n + 1] = Double(v[n])
    BY <1>1, ShiftsAre
  <1>. HIDE DEF s, t, v
  <1>4. 0 \in S
    BY <1>2, <1>3 DEF c
  <1>5. ASSUME NEW n \in 0 .. 7, n # 7, n \in S PROVE n + 1 \in S
    <2>1. v[n + 1] = Double(Xor(s[n], t[n]))
      BY <1>3, <1>5
    <2>2. Double(Xor(s[n], t[n])) = Xor(Double(s[n]), Double(t[n]))
      BY <1>2, DoubleAdds
    <2>3. v[n + 1] = Xor(s[n + 1], t[n + 1])
      BY <1>2, <1>5, <2>1, <2>2
    <2>. QED
      BY <2>3
  <1>. HIDE DEF S
  <1>6. 0 .. 7 \subseteq S
    BY <1>4, <1>5, RangeInduction
  <1>. QED
    BY <1>6 DEF S, s, t, v, c

\* The product is linear in both.
LEMMA SumOfMasked ==
    ASSUME NEW u, NEW v, NEW w, \A i \in 1 .. 8 : w[i] = Xor(u[i], v[i])
    PROVE  Sum(w, 0 .. 7) = Xor(Sum(u, 0 .. 7), Sum(v, 0 .. 7))
  <1>1. IsFiniteSet(0 .. 7)
    BY FS_Interval, 0 \in Int, 7 \in Int, Zenon
  <1>2. 0 .. 7 \in SUBSET Nat
    OBVIOUS
  <1>3. \A i \in 0 .. 7 : w[i + 1] = Xor(u[i + 1], v[i + 1])
    OBVIOUS
  <1>. QED
    BY <1>1, <1>2, <1>3, SumOfXor

LEMMA CoefficientOfDouble ==
    ASSUME NEW a \in SUBSET (0 .. 7), NEW x
    PROVE  /\ Coefficient(Double(a), x, 0) = Coefficient(a, x, 7)
           /\ \A p \in {1, 5, 6, 7} : Coefficient(Double(a), x, p) = Coefficient(a, x, p - 1)
           /\ \A p \in {2, 3, 4} : Coefficient(Double(a), x, p)
                                     = Xor(Coefficient(a, x, p - 1), Coefficient(a, x, 7))
  <1>. DEFINE s == Shifts(a)
              t == Shifts(Double(a))
  <1>1. \A k \in 0 .. 7 : s[k] \in SUBSET (0 .. 7) /\ t[k] = Double(s[k])
    BY ShiftsAre, ShiftsOfDouble
  <1>. HIDE DEF s, t
  <1>2. ASSUME NEW k \in 0 .. 7
        PROVE  /\ 0 \in t[k] <=> 7 \in s[k]
               /\ \A p \in {1, 5, 6, 7} : p \in t[k] <=> p - 1 \in s[k]
               /\ \A p \in {2, 3, 4} : p \in t[k] <=> ~(p - 1 \in s[k] <=> 7 \in s[k])
    BY <1>1, DoublePlaces
  <1>3. \A i \in 1 .. 8 : 8 - i \in 0 .. 7
    OBVIOUS
  <1>4. Masked(x, t, 0) = Masked(x, s, 7)
    BY <1>2, <1>3 DEF Masked
  <1>5. \A p \in {1, 5, 6, 7} : Masked(x, t, p) = Masked(x, s, p - 1)
    BY <1>2, <1>3 DEF Masked
  <1>6. ASSUME NEW p \in {2, 3, 4}
        PROVE  Sum(Masked(x, t, p), 0 .. 7)
                 = Xor(Sum(Masked(x, s, p - 1), 0 .. 7), Sum(Masked(x, s, 7), 0 .. 7))
    <2>. DEFINE u == Masked(x, s, p - 1)
                v == Masked(x, s, 7)
                w == Masked(x, t, p)
    <2>1. ASSUME NEW i \in 1 .. 8 PROVE w[i] = Xor(u[i], v[i])
      <3>1. p \in t[8 - i] <=> ~(p - 1 \in s[8 - i] <=> 7 \in s[8 - i])
        BY <1>2, <1>3
      <3>. QED
        BY <3>1 DEF Masked, Xor
    <2>. HIDE DEF u, v, w
    <2>2. Sum(w, 0 .. 7) = Xor(Sum(u, 0 .. 7), Sum(v, 0 .. 7))
      BY <2>1, SumOfMasked
    <2>. QED
      BY <2>2 DEF u, v, w
  <1>. QED
    BY <1>4, <1>5, <1>6 DEF Coefficient, s, t

\* Twice a byte: x^8 is taken off.
Twice(x) ==
    [i \in 1 .. 8 |-> IF i = 8 THEN x[1]
                      ELSE IF i \in {4, 5, 6} THEN Xor(x[i + 1], x[1]) ELSE x[i + 1]]

LEMMA DoubleTimes ==
    ASSUME NEW a \in SUBSET (0 .. 7), NEW x
    PROVE  GfMul(Double(a), x) = Twice(GfMul(a, x))
  <1>. DEFINE y == GfMul(a, x)
              z == GfMul(Double(a), x)
              C(p) == Coefficient(a, x, p)
              D(p) == Coefficient(Double(a), x, p)
  <1>1. HasBits(y, 8) /\ \A p \in 0 .. 7 : y[8 - p] = C(p)
    BY GfMulIs
  <1>2. HasBits(z, 8) /\ \A p \in 0 .. 7 : z[8 - p] = D(p)
    BY GfMulIs
  <1>3. /\ D(0) = C(7)
        /\ \A p \in {1, 5, 6, 7} : D(p) = C(p - 1)
        /\ \A p \in {2, 3, 4} : D(p) = Xor(C(p - 1), C(7))
    BY CoefficientOfDouble
  <1>. HIDE DEF y, z, C, D
  <1>4. /\ y[8] = C(0) /\ y[7] = C(1) /\ y[6] = C(2) /\ y[5] = C(3)
        /\ y[4] = C(4) /\ y[3] = C(5) /\ y[2] = C(6) /\ y[1] = C(7)
    BY <1>1
  <1>5. /\ z[8] = D(0) /\ z[7] = D(1) /\ z[6] = D(2) /\ z[5] = D(3)
        /\ z[4] = D(4) /\ z[3] = D(5) /\ z[2] = D(6) /\ z[1] = D(7)
    BY <1>2
  <1>6. /\ D(1) = C(0) /\ D(2) = Xor(C(1), C(7)) /\ D(3) = Xor(C(2), C(7))
        /\ D(4) = Xor(C(3), C(7)) /\ D(5) = C(4) /\ D(6) = C(5) /\ D(7) = C(6)
    BY <1>3
  <1>7. HasBits(Twice(y), 8)
    BY DEF Twice, HasBits
  <1>8. \A i \in 1 .. 8 : z[i] = Twice(y)[i]
    BY <1>3, <1>4, <1>5, <1>6 DEF Twice
  <1>9. z = Twice(y)
    BY <1>2, <1>7, <1>8, SameWords
  <1>. QED
    BY <1>9 DEF y, z

LEMMA AddedHasBits ==
    ASSUME NEW n \in Nat, NEW x, NEW y, HasBits(x, n)
    PROVE  HasBits(Added(x, y), n) /\ \A i \in 1 .. n : Added(x, y)[i] = Xor(x[i], y[i])
  <1>1. Len(x) = n
    BY DEF HasBits
  <1>. QED
    BY <1>1 DEF Added, Bits, HasBits

LEMMA XorTimes ==
    ASSUME NEW a \in SUBSET (0 .. 7), NEW b \in SUBSET (0 .. 7), NEW x
    PROVE  GfMul(Xor(a, b), x) = Added(GfMul(a, x), GfMul(b, x))
  <1>. DEFINE c == Xor(a, b)
              s == Shifts(a)
              t == Shifts(b)
              v == Shifts(c)
              y == GfMul(a, x)
              z == GfMul(b, x)
              yz == GfMul(c, x)
  <1>1. \A k \in 0 .. 7 : v[k] = Xor(s[k], t[k])
    BY ShiftsOfXor
  <1>2. /\ HasBits(y, 8) /\ HasBits(yz, 8)
        /\ \A p \in 0 .. 7 : y[8 - p] = Sum(Masked(x, s, p), 0 .. 7)
        /\ \A p \in 0 .. 7 : z[8 - p] = Sum(Masked(x, t, p), 0 .. 7)
        /\ \A p \in 0 .. 7 : yz[8 - p] = Sum(Masked(x, v, p), 0 .. 7)
    BY GfMulIs DEF Coefficient
  <1>. HIDE DEF s, t, v, y, z, yz
  <1>3. ASSUME NEW p \in 0 .. 7 PROVE yz[8 - p] = Xor(y[8 - p], z[8 - p])
    <2>. DEFINE mu == Masked(x, s, p)
                mv == Masked(x, t, p)
                mw == Masked(x, v, p)
    <2>1. ASSUME NEW i \in 1 .. 8 PROVE mw[i] = Xor(mu[i], mv[i])
      <3>1. v[8 - i] = Xor(s[8 - i], t[8 - i])
        BY <1>1
      <3>. QED
        BY <3>1 DEF Masked, Xor
    <2>. HIDE DEF mu, mv, mw
    <2>2. Sum(mw, 0 .. 7) = Xor(Sum(mu, 0 .. 7), Sum(mv, 0 .. 7))
      BY <2>1, SumOfMasked
    <2>. QED
      BY <1>2, <2>2 DEF mu, mv, mw
  <1>4. \A i \in 1 .. 8 : yz[i] = Xor(y[i], z[i])
    <2>. TAKE i \in 1 .. 8
    <2>1. 8 - i \in 0 .. 7 /\ 8 - (8 - i) = i
      OBVIOUS
    <2>. QED
      BY <1>3, <2>1
  <1>5. HasBits(Added(y, z), 8) /\ \A i \in 1 .. 8 : Added(y, z)[i] = Xor(y[i], z[i])
    BY <1>2, AddedHasBits
  <1>6. yz = Added(y, z)
    BY <1>2, <1>4, <1>5, SameWords
  <1>. QED
    BY <1>6 DEF y, z, yz, c

LEMMA TimesAdds ==
    ASSUME NEW a, NEW x, NEW y, HasBits(x, 8)
    PROVE  GfMul(a, Added(x, y)) = Added(GfMul(a, x), GfMul(a, y))
  <1>. DEFINE s == Shifts(a)
              xy == Added(x, y)
              u == GfMul(a, x)
              v == GfMul(a, y)
              w == GfMul(a, xy)
  <1>1. \A i \in 1 .. 8 : xy[i] = Xor(x[i], y[i])
    BY AddedHasBits
  <1>. HIDE DEF xy
  <1>2. /\ HasBits(u, 8) /\ HasBits(w, 8)
        /\ \A p \in 0 .. 7 : u[8 - p] = Sum(Masked(x, s, p), 0 .. 7)
        /\ \A p \in 0 .. 7 : v[8 - p] = Sum(Masked(y, s, p), 0 .. 7)
        /\ \A p \in 0 .. 7 : w[8 - p] = Sum(Masked(xy, s, p), 0 .. 7)
    BY GfMulIs DEF Coefficient
  <1>. HIDE DEF s, u, v, w
  <1>3. ASSUME NEW p \in 0 .. 7 PROVE w[8 - p] = Xor(u[8 - p], v[8 - p])
    <2>. DEFINE mu == Masked(x, s, p)
                mv == Masked(y, s, p)
                mw == Masked(xy, s, p)
    <2>1. \A i \in 1 .. 8 : mw[i] = Xor(mu[i], mv[i])
      BY <1>1 DEF Masked, Xor
    <2>. HIDE DEF mu, mv, mw
    <2>2. Sum(mw, 0 .. 7) = Xor(Sum(mu, 0 .. 7), Sum(mv, 0 .. 7))
      BY <2>1, SumOfMasked
    <2>. QED
      BY <1>2, <2>2 DEF mu, mv, mw
  <1>4. \A i \in 1 .. 8 : w[i] = Xor(u[i], v[i])
    <2>. TAKE i \in 1 .. 8
    <2>1. 8 - i \in 0 .. 7 /\ 8 - (8 - i) = i
      OBVIOUS
    <2>. QED
      BY <1>3, <2>1
  <1>5. HasBits(Added(u, v), 8) /\ \A i \in 1 .. 8 : Added(u, v)[i] = Xor(u[i], v[i])
    BY <1>2, AddedHasBits
  <1>6. w = Added(u, v)
    <2>. DEFINE uv == Added(u, v)
    <2>1. HasBits(w, 8) /\ HasBits(uv, 8) /\ \A i \in 1 .. 8 : w[i] = uv[i]
      BY <1>2, <1>4, <1>5
    <2>. HIDE DEF uv
    <2>2. w = uv
      BY <2>1, SameWords
    <2>. QED
      BY <2>2 DEF uv
  <1>. QED
    BY <1>6 DEF u, v, w, xy

\* Once and never.
LEMMA ShiftsOfOne ==
    ASSUME NEW k \in 0 .. 7
    PROVE  Shifts({0})[k] = {k}
  <1>. DEFINE s == Shifts({0})
              S == {n \in Nat : s[n] = {n}}
  <1>1. s[0] = {0} /\ \A n \in 0 .. 7 : n # 7 => s[n + 1] = Double(s[n])
    BY ShiftsAre
  <1>2. ASSUME NEW n \in 0 .. 7, n # 7 PROVE Double({n}) = {n + 1}
    <2>1. {m + 1 : m \in {n}} = {n + 1} /\ 8 \notin {n + 1}
      BY <1>2
    <2>. QED
      BY <2>1 DEF Double
  <1>. HIDE DEF s
  <1>3. 0 \in S /\ \A n \in 0 .. 7 : n # 7 /\ n \in S => n + 1 \in S
    BY <1>1, <1>2, SMTT(30)
  <1>. HIDE DEF S
  <1>4. 0 .. 7 \subseteq S
    BY <1>3, RangeInduction
  <1>. QED
    BY <1>4 DEF S, s

LEMMA OneTime ==
    ASSUME NEW x, HasBits(x, 8)
    PROVE  GfMul({0}, x) = x
  <1>. DEFINE s == Shifts({0})
              y == GfMul({0}, x)
  <1>1. HasBits(y, 8) /\ \A p \in 0 .. 7 : y[8 - p] = Sum(Masked(x, s, p), 0 .. 7)
    BY GfMulIs DEF Coefficient
  <1>2. \A k \in 0 .. 7 : s[k] = {k}
    BY ShiftsOfOne
  <1>. HIDE DEF s, y
  <1>3. ASSUME NEW p \in 0 .. 7 PROVE y[8 - p] = x[8 - p]
    <2>. DEFINE P == 0 .. 7
                Q == {7 - p}
                w == Masked(x, s, p)
    <2>1. IsFiniteSet(P)
      BY FS_Interval, 0 \in Int, 7 \in Int, Zenon
    <2>2. P \in SUBSET Nat /\ Q \in SUBSET P
      OBVIOUS
    <2>3. \A i \in P : w[i + 1] = IF i \in Q THEN x[i + 1] ELSE {}
      <3>. TAKE i \in P
      <3>1. i + 1 \in 1 .. 8 /\ 8 - (i + 1) \in 0 .. 7 /\ (p = 8 - (i + 1) <=> i \in Q)
        OBVIOUS
      <3>2. w[i + 1] = IF p \in s[8 - (i + 1)] THEN x[i + 1] ELSE {}
        BY <3>1 DEF Masked
      <3>. QED
        BY <1>2, <3>1, <3>2
    <2>. HIDE DEF P, w
    <2>4. Sum(x, Q) = Sum(w, P)
      BY <2>1, <2>2, <2>3, MaskedSum
    <2>5. Sum(x, Q) = x[8 - p]
      <3>1. 7 - p \in Nat /\ (7 - p) + 1 = 8 - p /\ {} \cup {7 - p} = Q
        OBVIOUS
      <3>2. IsFiniteSet({})
        BY FS_EmptySet
      <3>3. Sum(x, {} \cup {7 - p}) = Xor(Sum(x, {}), x[(7 - p) + 1])
        BY <3>1, <3>2, SumOfMore
      <3>4. Sum(x, Q) = Xor({}, x[8 - p])
        BY <3>1, <3>3, SumOfNone
      <3>. QED
        BY <3>4 DEF Xor
    <2>. QED
      BY <1>1, <2>4, <2>5 DEF P, w
  <1>4. \A i \in 1 .. 8 : y[i] = x[i]
    <2>. TAKE i \in 1 .. 8
    <2>1. 8 - i \in 0 .. 7 /\ 8 - (8 - i) = i
      OBVIOUS
    <2>. QED
      BY <1>3, <2>1
  <1>5. y = x
    BY <1>1, <1>4, SameWords
  <1>. QED
    BY <1>5 DEF y

\* Powers of x up to 33, and a byte times them.
Alpha == CHOOSE s : Doubled(s, {0}, 33)
Times(k, x) == GfMul(Alpha[k], x)

LEMMA AlphaIs ==
    /\ Alpha[0] = {0}
    /\ \A k \in 0 .. 33 : Alpha[k] \in SUBSET (0 .. 7)
    /\ \A k \in 0 .. 33 : k # 33 => Alpha[k + 1] = Double(Alpha[k])
  <1>1. Doubled(Alpha, {0}, 33)
    <2>1. \E s : Doubled(s, {0}, 33)
      BY DoubledExists
    <2>. QED
      BY <2>1 DEF Alpha
  <1>2. {0} \in SUBSET (0 .. 7) /\ 33 \in Nat
    OBVIOUS
  <1>. QED
    BY <1>1, <1>2, DoubledIs, ZenonT(40)

LEMMA LowPowers == \A k \in 0 .. 7 : Alpha[k] = {k}
  <1>. DEFINE S == {n \in Nat : Alpha[n] = {n}}
  <1>1. ASSUME NEW n \in 0 .. 7, n # 7 PROVE Double({n}) = {n + 1}
    <2>1. {m + 1 : m \in {n}} = {n + 1} /\ 8 \notin {n + 1}
      BY <1>1
    <2>. QED
      BY <2>1 DEF Double
  <1>2. 0 \in S /\ \A n \in 0 .. 7 : n # 7 /\ n \in S => n + 1 \in S
    <2>1. ASSUME NEW n \in 0 .. 7, n # 7, Alpha[n] = {n} PROVE Alpha[n + 1] = {n + 1}
      <3>1. n \in 0 .. 33 /\ n # 33
        BY <2>1
      <3>2. Alpha[n + 1] = Double(Alpha[n])
        BY <3>1, AlphaIs
      <3>. QED
        BY <1>1, <2>1, <3>2
    <2>. QED
      BY <2>1, AlphaIs
  <1>. HIDE DEF S
  <1>3. 0 .. 7 \subseteq S
    BY <1>2, RangeInduction
  <1>. QED
    BY <1>3 DEF S

LEMMA TimesHasBits == \A k, x : HasBits(Times(k, x), 8)
  BY GfMulIs DEF Times

LEMMA TimesMore ==
    ASSUME NEW k \in 0 .. 32, NEW x
    PROVE  Times(k + 1, x) = Twice(Times(k, x))
  <1>1. Alpha[k] \in SUBSET (0 .. 7) /\ Alpha[k + 1] = Double(Alpha[k])
    BY AlphaIs
  <1>. QED
    BY <1>1, DoubleTimes DEF Times

SumsTo(j, k, m) == j \in 0 .. 33 /\ k \in 0 .. 33 /\ m \in 0 .. 33 /\ m = j + k

LEMMA TimesTimes ==
    ASSUME NEW j, NEW k, NEW m, SumsTo(j, k, m), NEW x
    PROVE  Times(j, Times(k, x)) = Times(m, x)
  <1>. DEFINE y == Times(k, x)
              S == {n \in Nat : n + k <= 33 => Times(n, y) = Times(n + k, x)}
  <1>. j \in 0 .. 33 /\ k \in 0 .. 33 /\ m \in 0 .. 33 /\ m = j + k
    BY DEF SumsTo
  <1>1. HasBits(y, 8)
    BY TimesHasBits
  <1>2. Times(0, y) = y
    BY <1>1, AlphaIs, OneTime DEF Times
  <1>3. 0 \in S
    BY <1>2
  <1>. HIDE DEF y
  <1>4. ASSUME NEW n \in 0 .. j, n # j, n \in S PROVE n + 1 \in S
    <2>1. n \in 0 .. 32 /\ n + k \in 0 .. 32 /\ (n + 1) + k = (n + k) + 1
      BY <1>4
    <2>2. Times(n, y) = Times(n + k, x)
      BY <1>4, <2>1
    <2>3. Times(n + 1, y) = Twice(Times(n, y))
      BY <2>1, TimesMore
    <2>4. Times((n + k) + 1, x) = Twice(Times(n + k, x))
      BY <2>1, TimesMore
    <2>. QED
      BY <2>1, <2>2, <2>3, <2>4
  <1>. HIDE DEF S
  <1>5. 0 .. j \subseteq S
    BY <1>3, <1>4, RangeInduction
  <1>. QED
    BY <1>5 DEF S, y

LEMMA TimesNothing ==
    ASSUME NEW k \in 0 .. 33
    PROVE  HasBits(Zeros(8), 8) /\ Times(k, Zeros(8)) = Zeros(8)
  <1>. DEFINE S == {n \in Nat : Times(n, Zeros(8)) = Zeros(8)}
  <1>1. Zeros(8) = [i \in 1 .. 8 |-> {}]
    BY DEF Zeros, Bits, Zero
  <1>2. HasBits(Zeros(8), 8)
    BY <1>1 DEF HasBits
  <1>3. Times(0, Zeros(8)) = Zeros(8)
    BY <1>2, AlphaIs, OneTime DEF Times
  <1>4. Twice(Zeros(8)) = Zeros(8)
    <2>1. Xor({}, {}) = {}
      BY DEF Xor
    <2>. QED
      BY <1>1, <2>1 DEF Twice
  <1>5. 0 \in S /\ \A n \in 0 .. 33 : n # 33 /\ n \in S => n + 1 \in S
    <2>1. ASSUME NEW n \in 0 .. 33, n # 33, n \in S PROVE n + 1 \in S
      <3>1. n \in 0 .. 32
        BY <2>1
      <3>2. Times(n + 1, Zeros(8)) = Twice(Times(n, Zeros(8)))
        BY <3>1, TimesMore
      <3>. QED
        BY <1>4, <2>1, <3>2
    <2>. QED
      BY <1>3, <2>1
  <1>. HIDE DEF S
  <1>6. 0 .. 33 \subseteq S
    BY <1>5, RangeInduction
  <1>. QED
    BY <1>2, <1>6 DEF S

LEMMA TimesAdded ==
    ASSUME NEW k, NEW x, NEW y, HasBits(x, 8)
    PROVE  Times(k, Added(x, y)) = Added(Times(k, x), Times(k, y))
  BY TimesAdds DEF Times

LEMMA TimesThree ==
    ASSUME NEW k \in 0 .. 5, NEW x
    PROVE  GfMul({k, k + 1, k + 2}, x) = Added(Added(Times(k, x), Times(k + 1, x)), Times(k + 2, x))
  <1>. DEFINE a == {k}
              b == {k + 1}
              c == {k + 2}
              ab == Xor(a, b)
  <1>1. Alpha[k] = a /\ Alpha[k + 1] = b /\ Alpha[k + 2] = c
    BY LowPowers
  <1>2. a \in SUBSET (0 .. 7) /\ b \in SUBSET (0 .. 7) /\ c \in SUBSET (0 .. 7)
    OBVIOUS
  <1>3. {k, k + 1, k + 2} = Xor(ab, c)
    BY DEF Xor
  <1>4. ab \in SUBSET (0 .. 7)
    BY DEF Xor
  <1>. HIDE DEF a, b, c
  <1>5. GfMul(ab, x) = Added(GfMul(a, x), GfMul(b, x))
    BY <1>2, XorTimes
  <1>. HIDE DEF ab
  <1>6. GfMul(Xor(ab, c), x) = Added(GfMul(ab, x), GfMul(c, x))
    BY <1>2, <1>4, XorTimes
  <1>. QED
    BY <1>1, <1>3, <1>5, <1>6 DEF Times

\* The registers of _rs129_encode, one for each byte.
Registered(f, lc, n) ==
    f = [k \in 0 .. n |->
            IF k = 0 THEN Zeros(24) ELSE RsStep(f[k - 1], Part(lc, 8 * (k - 1), 8))]

LEMMA RegisteredExists ==
    ASSUME NEW lc, NEW n \in Nat
    PROVE  \E f : Registered(f, lc, n)
  <1>. DEFINE Succ(r, k) == RsStep(r, Part(lc, 8 * (k - 1), 8))
              S == {i \in Nat : \E f : Registered(f, lc, i)}
  <1>1. 0 \in S
    <2>. DEFINE f == [k \in 0 .. 0 |-> Zeros(24)]
    <2>1. f = [k \in 0 .. 0 |-> IF k = 0 THEN Zeros(24) ELSE Succ(f[k - 1], k)]
      <3>. HIDE DEF Succ
      <3>. QED
        OBVIOUS
    <2>. QED
      BY <2>1 DEF Registered
  <1>2. ASSUME NEW i \in 0 .. n, i \in S PROVE i + 1 \in S
    <2>1. PICK f : Registered(f, lc, i)
      BY <1>2
    <2>2. f = [k \in 0 .. i |-> IF k = 0 THEN Zeros(24) ELSE Succ(f[k - 1], k)]
      BY <2>1 DEF Registered
    <2>. HIDE DEF Succ
    <2>. DEFINE last == Succ(f[i], i + 1)
                g == [k \in 0 .. i + 1 |-> IF k <= i THEN f[k] ELSE last]
    <2>3. ASSUME NEW k \in 0 .. i + 1
          PROVE  g[k] = IF k = 0 THEN Zeros(24) ELSE Succ(g[k - 1], k)
      <3>1. CASE k <= i
        <4>1. g[k] = f[k] /\ (k # 0 => g[k - 1] = f[k - 1])
          BY <3>1
        <4>2. f[k] = IF k = 0 THEN Zeros(24) ELSE Succ(f[k - 1], k)
          <5>1. k \in 0 .. i
            BY <3>1
          <5>. QED
            BY <2>2, <5>1
        <4>. QED
          BY <4>1, <4>2
      <3>2. CASE k = i + 1
        <4>1. k # 0 /\ k - 1 = i /\ g[i] = f[i] /\ g[k] = last
          <5>. HIDE DEF last
          <5>. QED
            BY <3>2
        <4>. QED
          BY <3>2, <4>1
      <3>. QED
        BY <3>1, <3>2
    <2>4. Registered(g, lc, i + 1)
      <3>1. g = [k \in 0 .. i + 1 |-> g[k]]
        OBVIOUS
      <3>. HIDE DEF g
      <3>2. g = [k \in 0 .. i + 1 |-> IF k = 0 THEN Zeros(24) ELSE Succ(g[k - 1], k)]
        BY <2>3, <3>1
      <3>. QED
        BY <3>2 DEF Registered, Succ
    <2>. QED
      BY <2>4
  <1>. HIDE DEF S
  <1>3. n \in S
    BY <1>1, <1>2, RangeInduction
  <1>. QED
    BY <1>3 DEF S

LEMMA StepIs ==
    ASSUME NEW register, HasBits(register, 24), NEW byte, HasBits(byte, 8)
    PROVE  LET d == Added(byte, Part(register, 0, 8))
               next == RsStep(register, byte)
           IN  /\ HasBits(next, 24)
               /\ Part(next, 0, 8) = Added(Part(register, 8, 8), GfMul({1, 2, 3}, d))
               /\ Part(next, 8, 8) = Added(Part(register, 16, 8), GfMul({3, 4, 5}, d))
               /\ Part(next, 16, 8) = GfMul({6}, d)
  <1>. DEFINE d == Added(byte, Part(register, 0, 8))
              x == Added(Part(register, 8, 8), GfMul({1, 2, 3}, d))
              y == Added(Part(register, 16, 8), GfMul({3, 4, 5}, d))
              z == GfMul({6}, d)
              xy == Join(x, y)
              next == Join(xy, z)
  <1>1. RsStep(register, byte) = next
    BY DEF RsStep, Join
  <1>2. HasBits(z, 8)
    BY GfMulIs
  <1>3. HasBits(x, 8)
    <2>1. HasBits(Part(register, 8, 8), 8)
      BY Parted
    <2>. QED
      BY <2>1, AddedHasBits
  <1>4. HasBits(y, 8)
    <2>1. HasBits(Part(register, 16, 8), 8)
      BY Parted
    <2>. QED
      BY <2>1, AddedHasBits
  <1>. HIDE DEF x, y, z
  <1>5. HasBits(xy, 16)
    <2>1. HasBits(xy, 8 + 8)
      BY <1>3, <1>4, JoinedBits
    <2>. QED
      BY <2>1
  <1>6. Part(xy, 0, 8) = x
    <2>1. Part(xy, 0, 8) = Part(x, 0, 8)
      BY <1>3, <1>4, PartOfFirst
    <2>. QED
      BY <1>3, <2>1, PartIsWhole
  <1>7. Part(xy, 8, 8) = y
    <2>1. Part(xy, 8, 8) = Part(y, 0, 8)
      BY <1>3, <1>4, PartOfLast
    <2>. QED
      BY <1>4, <2>1, PartIsWhole
  <1>. HIDE DEF xy
  <1>8. HasBits(next, 24)
    <2>1. HasBits(next, 16 + 8)
      BY <1>2, <1>5, JoinedBits
    <2>. QED
      BY <2>1
  <1>9. Part(next, 0, 8) = x
    <2>1. Part(next, 0, 8) = Part(xy, 0, 8)
      BY <1>2, <1>5, PartOfFirst
    <2>. QED
      BY <1>6, <2>1
  <1>10. Part(next, 8, 8) = y
    <2>1. Part(next, 8, 8) = Part(xy, 8, 8)
      BY <1>2, <1>5, PartOfFirst
    <2>. QED
      BY <1>7, <2>1
  <1>11. Part(next, 16, 8) = z
    <2>1. Part(next, 16, 8) = Part(z, 0, 8)
      BY <1>2, <1>5, PartOfLast
    <2>. QED
      BY <1>2, <2>1, PartIsWhole
  <1>. QED
    BY <1>1, <1>8, <1>9, <1>10, <1>11 DEF x, y, z

Registers(lc) == CHOOSE f : Registered(f, lc, 9)

LEMMA RegistersAre ==
    ASSUME NEW lc
    PROVE  /\ Rs129(lc) = Registers(lc)[9]
           /\ Registers(lc)[0] = Zeros(24)
           /\ \A k \in 0 .. 9 : HasBits(Registers(lc)[k], 24)
           /\ \A k \in 0 .. 8 :
                Registers(lc)[k + 1] = RsStep(Registers(lc)[k], Part(lc, 8 * k, 8))
  <1>. DEFINE f == Registers(lc)
  <1>1. Rs129(lc) = f[9]
    BY DEF Rs129, Registers, Registered
  <1>2. Registered(f, lc, 9)
    <2>1. \E g : Registered(g, lc, 9)
      BY RegisteredExists
    <2>. QED
      BY <2>1 DEF Registers
  <1>. HIDE DEF f
  <1>3. f[0] = Zeros(24)
    BY <1>2 DEF Registered
  <1>4. ASSUME NEW k \in 0 .. 8 PROVE f[k + 1] = RsStep(f[k], Part(lc, 8 * k, 8))
    <2>1. k + 1 \in 0 .. 9 /\ k + 1 # 0 /\ (k + 1) - 1 = k
      OBVIOUS
    <2>2. f[k + 1] = RsStep(f[(k + 1) - 1], Part(lc, 8 * ((k + 1) - 1), 8))
      BY <1>2, <2>1 DEF Registered
    <2>. QED
      BY <2>1, <2>2
  <1>. DEFINE S == {k \in Nat : HasBits(f[k], 24)}
  <1>5. 0 \in S
    BY <1>3 DEF Zeros, Bits, HasBits
  <1>6. ASSUME NEW k \in 0 .. 9, k # 9, k \in S PROVE k + 1 \in S
    <2>1. k \in 0 .. 8 /\ 8 * k \in Nat
      BY <1>6
    <2>. DEFINE byte == Part(lc, 8 * k, 8)
    <2>2. HasBits(byte, 8)
      BY <2>1, Parted
    <2>3. f[k + 1] = RsStep(f[k], byte)
      BY <1>4, <2>1
    <2>. HIDE DEF byte
    <2>4. HasBits(f[k + 1], 24)
      BY <1>6, <2>2, <2>3, StepIs
    <2>. QED
      BY <2>4
  <1>. HIDE DEF S
  <1>7. 0 .. 9 \subseteq S
    BY <1>5, <1>6, RangeInduction
  <1>. QED
    BY <1>1, <1>3, <1>4, <1>7 DEF S, f

\* What the register comes to at a root of the generator, whose coefficients
\* cancel there.
Evaluated(root, register) ==
    Added(Added(Times(2 * root, Part(register, 0, 8)), Times(root, Part(register, 8, 8))),
          Part(register, 16, 8))

Cancels(u1, u2, u3, v1, v2, v3, w, t) ==
    \/ u2 = v1 /\ u3 = v2 /\ v3 = w /\ u1 = t
    \/ u1 = v1 /\ u2 = v2 /\ u3 = v3 /\ w = t
    \/ u1 = v2 /\ u2 = v3 /\ v1 = w /\ u3 = t

LEMMA CancelledBits ==
    ASSUME NEW u1, NEW u2, NEW u3, NEW v1, NEW v2, NEW v3, NEW w, NEW t,
           Cancels(u1, u2, u3, v1, v2, v3, w, t), NEW a, NEW b, NEW c, NEW d, t = Xor(d, c)
    PROVE  Xor(Xor(Xor(a, Xor(Xor(u1, u2), u3)), Xor(b, Xor(Xor(v1, v2), v3))), w)
             = Xor(Xor(Xor(c, a), b), d)
  <1>1. CASE u2 = v1 /\ u3 = v2 /\ v3 = w /\ u1 = t
    BY <1>1 DEF Xor
  <1>2. CASE u1 = v1 /\ u2 = v2 /\ u3 = v3 /\ w = t
    BY <1>2 DEF Xor
  <1>3. CASE u1 = v2 /\ u2 = v3 /\ v1 = w /\ u3 = t
    BY <1>3 DEF Xor
  <1>. QED
    BY <1>1, <1>2, <1>3 DEF Cancels

Byte(x) == HasBits(x, 8)

LEMMA AddedByte ==
    \A x, y : Byte(x) => Byte(Added(x, y)) /\ \A i \in 1 .. 8 : Added(x, y)[i] = Xor(x[i], y[i])
  BY AddedHasBits DEF Byte

LEMMA Cancelled ==
    ASSUME NEW u1, NEW u2, NEW u3, NEW v1, NEW v2, NEW v3, NEW w, NEW t,
           Cancels(u1, u2, u3, v1, v2, v3, w, t), NEW a, NEW b, NEW c, NEW d, t = Added(d, c),
           Byte(u1), Byte(u2), Byte(v1), Byte(v2), Byte(a), Byte(b), Byte(c), Byte(d)
    PROVE  Added(Added(Added(a, Added(Added(u1, u2), u3)), Added(b, Added(Added(v1, v2), v3))), w)
             = Added(Added(Added(c, a), b), d)
  <1>. DEFINE u12 == Added(u1, u2)
              u == Added(u12, u3)
              v12 == Added(v1, v2)
              v == Added(v12, v3)
              au == Added(a, u)
              bv == Added(b, v)
              aubv == Added(au, bv)
              left == Added(aubv, w)
              ca == Added(c, a)
              cab == Added(ca, b)
              right == Added(cab, d)
  <1>1. /\ Byte(u12) /\ \A i \in 1 .. 8 : u12[i] = Xor(u1[i], u2[i])
        /\ Byte(v12) /\ \A i \in 1 .. 8 : v12[i] = Xor(v1[i], v2[i])
        /\ Byte(ca) /\ \A i \in 1 .. 8 : ca[i] = Xor(c[i], a[i])
        /\ \A i \in 1 .. 8 : t[i] = Xor(d[i], c[i])
    BY AddedByte
  <1>. HIDE DEF u12, v12, ca
  <1>2. /\ \A i \in 1 .. 8 : u[i] = Xor(u12[i], u3[i])
        /\ \A i \in 1 .. 8 : v[i] = Xor(v12[i], v3[i])
        /\ Byte(cab) /\ \A i \in 1 .. 8 : cab[i] = Xor(ca[i], b[i])
    BY <1>1, AddedByte
  <1>. HIDE DEF u, v, cab
  <1>3. /\ Byte(au) /\ \A i \in 1 .. 8 : au[i] = Xor(a[i], u[i])
        /\ \A i \in 1 .. 8 : bv[i] = Xor(b[i], v[i])
        /\ Byte(right) /\ \A i \in 1 .. 8 : right[i] = Xor(cab[i], d[i])
    BY <1>2, AddedByte
  <1>. HIDE DEF au, bv, right
  <1>4. Byte(aubv) /\ \A i \in 1 .. 8 : aubv[i] = Xor(au[i], bv[i])
    BY <1>3, AddedByte
  <1>. HIDE DEF aubv
  <1>5. Byte(left) /\ \A i \in 1 .. 8 : left[i] = Xor(aubv[i], w[i])
    BY <1>4, AddedByte
  <1>. HIDE DEF left
  <1>6. ASSUME NEW i \in 1 .. 8 PROVE left[i] = right[i]
    <2>1. Cancels(u1[i], u2[i], u3[i], v1[i], v2[i], v3[i], w[i], t[i])
      BY DEF Cancels
    <2>2. Xor(Xor(Xor(a[i], Xor(Xor(u1[i], u2[i]), u3[i])),
                  Xor(b[i], Xor(Xor(v1[i], v2[i]), v3[i]))), w[i])
            = Xor(Xor(Xor(c[i], a[i]), b[i]), d[i])
      BY <1>1, <2>1, CancelledBits
    <2>. QED
      BY <1>1, <1>2, <1>3, <1>4, <1>5, <2>2, SMTT(30)
  <1>7. left = right
    BY <1>3, <1>5, <1>6, SameWords DEF Byte
  <1>. QED
    BY <1>7 DEF left, right, aubv, au, bv, cab, u, v, u12, v12, ca

LEMMA TimesByte == \A k, x : Byte(Times(k, x))
  BY TimesHasBits DEF Byte

\* A constant times a sum, and a sum of three.
LEMMA TimesSums ==
    ASSUME NEW k, NEW x, NEW y, NEW z, Byte(x), Byte(y)
    PROVE  /\ Times(k, Added(x, y)) = Added(Times(k, x), Times(k, y))
           /\ Times(k, Added(Added(x, y), z))
                = Added(Added(Times(k, x), Times(k, y)), Times(k, z))
  <1>. DEFINE xy == Added(x, y)
  <1>1. Byte(xy)
    BY AddedByte
  <1>2. Times(k, xy) = Added(Times(k, x), Times(k, y))
    BY TimesAdded DEF Byte
  <1>. HIDE DEF xy
  <1>3. Times(k, Added(xy, z)) = Added(Times(k, xy), Times(k, z))
    BY <1>1, TimesAdded DEF Byte
  <1>. QED
    BY <1>2, <1>3 DEF xy

LEMMA TimesThrice ==
    ASSUME NEW j \in 0 .. 28, NEW k \in {1, 3}, NEW k1 \in {2, 4}, NEW k2 \in {3, 5},
           NEW d
    PROVE  Times(j, Added(Added(Times(k, d), Times(k1, d)), Times(k2, d)))
             = Added(Added(Times(j + k, d), Times(j + k1, d)), Times(j + k2, d))
  <1>1. Times(j, Added(Added(Times(k, d), Times(k1, d)), Times(k2, d)))
          = Added(Added(Times(j, Times(k, d)), Times(j, Times(k1, d))), Times(j, Times(k2, d)))
    BY TimesByte, TimesSums
  <1>2. SumsTo(j, k, j + k) /\ SumsTo(j, k1, j + k1) /\ SumsTo(j, k2, j + k2)
    BY DEF SumsTo
  <1>3. /\ Times(j, Times(k, d)) = Times(j + k, d)
        /\ Times(j, Times(k1, d)) = Times(j + k1, d)
        /\ Times(j, Times(k2, d)) = Times(j + k2, d)
    BY <1>2, TimesTimes
  <1>. QED
    BY <1>1, <1>3

LEMMA StepEvaluated ==
    ASSUME NEW root \in 1 .. 3, NEW register, HasBits(register, 24), NEW byte, HasBits(byte, 8)
    PROVE  Evaluated(root, RsStep(register, byte))
             = Added(Times(root, Evaluated(root, register)), Times(3 * root, byte))
  <1>. DEFINE r2 == Part(register, 0, 8)
              r1 == Part(register, 8, 8)
              r0 == Part(register, 16, 8)
              d == Added(byte, r2)
              t(k) == Times(k, d)
              next == RsStep(register, byte)
              s2 == Part(next, 0, 8)
              s1 == Part(next, 8, 8)
              s0 == Part(next, 16, 8)
              twice == 2 * root
              thrice == 3 * root
              low == Added(Added(t(1), t(2)), t(3))
              high == Added(Added(t(3), t(4)), t(5))
  <1>1. /\ Byte(r2) /\ Byte(r1) /\ Byte(r0) /\ Byte(byte)
    BY Parted DEF Byte
  <1>2. /\ s2 = Added(r1, GfMul({1, 2, 3}, d))
        /\ s1 = Added(r0, GfMul({3, 4, 5}, d))
        /\ s0 = GfMul({6}, d)
    BY StepIs
  <1>. HIDE DEF r2, r1, r0, d
  <1>3. GfMul({1, 2, 3}, d) = low
    <2>1. GfMul({1, 1 + 1, 1 + 2}, d)
            = Added(Added(Times(1, d), Times(1 + 1, d)), Times(1 + 2, d))
      BY 1 \in 0 .. 5, TimesThree
    <2>. QED
      BY <2>1
  <1>4. GfMul({3, 4, 5}, d) = high
    <2>1. GfMul({3, 3 + 1, 3 + 2}, d)
            = Added(Added(Times(3, d), Times(3 + 1, d)), Times(3 + 2, d))
      BY 3 \in 0 .. 5, TimesThree
    <2>. QED
      BY <2>1
  <1>5. GfMul({6}, d) = t(6)
    BY LowPowers, 6 \in 0 .. 7 DEF Times
  <1>6. \A k : Byte(t(k))
    BY TimesByte
  <1>7. Byte(low) /\ Byte(high)
    BY <1>6, AddedByte
  <1>8. Evaluated(root, next) = Added(Added(Times(twice, s2), Times(root, s1)), s0)
    BY DEF Evaluated
  <1>9. Times(root, Evaluated(root, register))
          = Added(Added(Times(thrice, r2), Times(twice, r1)), Times(root, r0))
    <2>. DEFINE x == Times(twice, r2)
                y == Times(root, r1)
    <2>1. Evaluated(root, register) = Added(Added(x, y), r0)
      BY DEF Evaluated, r2, r1, r0
    <2>2. Byte(x) /\ Byte(y)
      BY TimesByte
    <2>. HIDE DEF x, y
    <2>3. Times(root, Added(Added(x, y), r0))
            = Added(Added(Times(root, x), Times(root, y)), Times(root, r0))
      BY <2>2, TimesSums
    <2>4. SumsTo(root, twice, thrice) /\ SumsTo(root, root, twice)
      BY DEF SumsTo
    <2>. HIDE DEF twice, thrice
    <2>5. Times(root, x) = Times(thrice, r2)
      BY <2>4, TimesTimes DEF x
    <2>6. Times(root, y) = Times(twice, r1)
      BY <2>4, TimesTimes DEF y
    <2>. QED
      BY <2>1, <2>3, <2>5, <2>6
  <1>. DEFINE u1 == t(twice + 1)
              u2 == t(twice + 2)
              u3 == t(twice + 3)
              v1 == t(root + 3)
              v2 == t(root + 4)
              v3 == t(root + 5)
              w  == t(6)
              all == t(thrice)
              a == Times(twice, r1)
              b == Times(root, r0)
              c == Times(thrice, r2)
              e == Times(thrice, byte)
  <1>10. Times(twice, s2) = Added(a, Added(Added(u1, u2), u3))
    <2>1. Times(twice, Added(r1, low)) = Added(a, Times(twice, low))
      <3>. HIDE DEF low, twice, t
      <3>. QED
        BY <1>1, <1>7, TimesSums
    <2>2. Times(twice, low) = Added(Added(u1, u2), u3)
      <3>1. twice \in 0 .. 28
        OBVIOUS
      <3>. HIDE DEF twice
      <3>2. Times(twice, Added(Added(Times(1, d), Times(2, d)), Times(3, d)))
              = Added(Added(Times(twice + 1, d), Times(twice + 2, d)), Times(twice + 3, d))
        BY <3>1, TimesThrice, ZenonT(40)
      <3>. QED
        BY <3>2
    <2>. QED
      BY <1>2, <1>3, <2>1, <2>2
  <1>11. Times(root, s1) = Added(b, Added(Added(v1, v2), v3))
    <2>1. Times(root, Added(r0, high)) = Added(b, Times(root, high))
      <3>. HIDE DEF high, t
      <3>. QED
        BY <1>1, <1>7, TimesSums
    <2>2. Times(root, high) = Added(Added(v1, v2), v3)
      <3>1. root \in 0 .. 28
        OBVIOUS
      <3>2. Times(root, Added(Added(Times(3, d), Times(4, d)), Times(5, d)))
              = Added(Added(Times(root + 3, d), Times(root + 4, d)), Times(root + 5, d))
        BY <3>1, TimesThrice
      <3>. QED
        BY <3>2
    <2>. QED
      BY <1>2, <1>4, <2>1, <2>2
  <1>12. all = Added(e, c)
    BY <1>1, TimesSums DEF d
  <1>13. Cancels(u1, u2, u3, v1, v2, v3, w, all)
    <2>. HIDE DEF t
    <2>1. CASE root = 1
      BY <2>1 DEF Cancels
    <2>2. CASE root = 2
      BY <2>2 DEF Cancels
    <2>3. CASE root = 3
      BY <2>3 DEF Cancels
    <2>. QED
      BY <2>1, <2>2, <2>3
  <1>14. /\ Byte(u1) /\ Byte(u2) /\ Byte(v1) /\ Byte(v2)
         /\ Byte(a) /\ Byte(b) /\ Byte(c) /\ Byte(e)
    BY TimesByte
  <1>15. s0 = w
    BY <1>2, <1>5
  <1>. HIDE DEF u1, u2, u3, v1, v2, v3, w, all, a, b, c, e
  <1>16. Added(Added(Added(a, Added(Added(u1, u2), u3)), Added(b, Added(Added(v1, v2), v3))), w)
           = Added(Added(Added(c, a), b), e)
    BY <1>12, <1>13, <1>14, Cancelled
  <1>17. Evaluated(root, next) = Added(Added(Added(c, a), b), e)
    BY <1>8, <1>10, <1>11, <1>15, <1>16
  <1>. QED
    BY <1>9, <1>17 DEF a, b, c, e

\* Bit j of the first n of twelve bytes.
Stripe(n, j) == {8 * i + j : i \in 0 .. n - 1}

LEMMA StripeGrows ==
    ASSUME NEW words, NEW all, LaidOut(all, words, 12, 8), NEW j \in 0 .. 7, NEW n \in 0 .. 11,
           IsFiniteSet(Stripe(n, j))
    PROVE  /\ IsFiniteSet(Stripe(n + 1, j))
           /\ Sum(all, Stripe(n + 1, j)) = Xor(Sum(all, Stripe(n, j)), words[n + 1][j + 1])
  <1>. DEFINE P == Stripe(n, j)
              x == 8 * n + j
  <1>1. Stripe(n + 1, j) = P \cup {x}
    <2>1. (n + 1) - 1 = n
      OBVIOUS
    <2>2. 0 .. n = (0 .. n - 1) \cup {n}
      OBVIOUS
    <2>. QED
      BY <2>1, <2>2 DEF Stripe
  <1>2. P \in SUBSET Nat /\ x \in Nat /\ x \notin P
    BY DEF Stripe
  <1>3. all[x + 1] = words[n + 1][j + 1]
    <2>1. n + 1 \in 1 .. 12 /\ j + 1 \in 1 .. 8 /\ 8 * ((n + 1) - 1) + (j + 1) = x + 1
      OBVIOUS
    <2>2. all[8 * ((n + 1) - 1) + (j + 1)] = words[n + 1][j + 1]
      BY <2>1 DEF LaidOut
    <2>. QED
      BY <2>1, <2>2
  <1>. HIDE DEF P, x
  <1>4. IsFiniteSet(P)
    BY DEF P
  <1>5. IsFiniteSet(P \cup {x}) /\ Sum(all, P \cup {x}) = Xor(Sum(all, P), all[x + 1])
    BY <1>2, <1>4, SumOfMore, FS_AddElement
  <1>. QED
    BY <1>1, <1>3, <1>5 DEF P

LEMMA StripeOfNone == ASSUME NEW j PROVE Stripe(0, j) = {}
  BY DEF Stripe

\* The bytes of a word, each times its power of a root.
Terms(word, root) ==
    [i \in 1 .. 12 |-> Times(root * (12 - i), Part(word, 8 * (i - 1), 8))]

LEMMA TermsAre ==
    ASSUME NEW word, NEW root \in 1 .. 3
    PROVE  /\ AreWords(Terms(word, root), 12, 8)
           /\ LaidOut(FlattenSeq(Terms(word, root)), Terms(word, root), 12, 8)
  <1>1. AreWords(Terms(word, root), 12, 8)
    BY TimesHasBits DEF Terms, AreWords, HasBits
  <1>. QED
    BY <1>1, Flattened

\* The bytes of the link control add up to the register at the root.
LEMMA EvaluatedNothing ==
    ASSUME NEW root \in 1 .. 3
    PROVE  Evaluated(root, Zeros(24)) = Zeros(8)
  <1>. DEFINE z == Zeros(24)
              o == Zeros(8)
  <1>1. z = [i \in 1 .. 24 |-> {}] /\ o = [i \in 1 .. 8 |-> {}]
    BY DEF Zeros, Bits, Zero
  <1>2. HasBits(o, 8)
    BY <1>1 DEF HasBits
  <1>. HIDE DEF z, o
  <1>3. ASSUME NEW k \in {0, 8, 16} PROVE Part(z, k, 8) = o
    <2>. DEFINE part == Part(z, k, 8)
    <2>1. HasBits(part, 8) /\ \A i \in 1 .. 8 : part[i] = z[k + i]
      BY Parted
    <2>2. \A i \in 1 .. 8 : z[k + i] = o[i]
      BY <1>1
    <2>. HIDE DEF part
    <2>3. part = o
      BY <1>2, <2>1, <2>2, SameWords, SMTT(30)
    <2>. QED
      BY <2>3 DEF part
  <1>4. Added(o, o) = o
    <2>. DEFINE oo == Added(o, o)
    <2>1. HasBits(oo, 8) /\ \A i \in 1 .. 8 : oo[i] = Xor(o[i], o[i])
      BY <1>2, AddedHasBits
    <2>. HIDE DEF oo
    <2>2. \A i \in 1 .. 8 : oo[i] = o[i]
      BY <1>1, <2>1 DEF Xor
    <2>3. oo = o
      BY <1>2, <2>1, <2>2, SameWords
    <2>. QED
      BY <2>3 DEF oo
  <1>5. Times(2 * root, o) = o /\ Times(root, o) = o
    <2>1. 2 * root \in 0 .. 33 /\ root \in 0 .. 33
      OBVIOUS
    <2>. QED
      BY <2>1, TimesNothing DEF o
  <1>. QED
    BY <1>3, <1>4, <1>5 DEF Evaluated, z, o

LEMMA PowersAdd ==
    ASSUME NEW root \in 1 .. 3, NEW n \in 0 .. 8
    PROVE  /\ SumsTo(root * (8 - n), root, root * (9 - n))
           /\ SumsTo(root * (8 - n), 3 * root, root * (12 - (n + 1)))
           /\ 9 - (n + 1) = 8 - n
  <1>1. CASE root = 1
    BY <1>1 DEF SumsTo
  <1>2. CASE root = 2
    BY <1>2 DEF SumsTo
  <1>3. CASE root = 3
    BY <1>3 DEF SumsTo
  <1>. QED
    BY <1>1, <1>2, <1>3

LEMMA RegisterGrows ==
    ASSUME NEW root \in 1 .. 3, NEW lc, NEW n \in 0 .. 8
    PROVE  LET at(k) == Times(root * (9 - k), Evaluated(root, Registers(lc)[k]))
           IN  at(n + 1) = Added(at(n), Times(root * (12 - (n + 1)), Part(lc, 8 * n, 8)))
  <1>. DEFINE register == Registers(lc)[n]
              byte == Part(lc, 8 * n, 8)
              low == root * (8 - n)
              mid == root * (9 - n)
              high == root * (12 - (n + 1))
              thrice == 3 * root
              x == Times(root, Evaluated(root, register))
              y == Times(thrice, byte)
  <1>1. HasBits(register, 24) /\ Registers(lc)[n + 1] = RsStep(register, byte)
    BY RegistersAre
  <1>2. HasBits(byte, 8)
    <2>1. 8 * n \in Nat
      OBVIOUS
    <2>. QED
      BY <2>1, Parted
  <1>3. SumsTo(low, root, mid) /\ SumsTo(low, thrice, high) /\ 9 - (n + 1) = 8 - n
    BY PowersAdd
  <1>. HIDE DEF register, byte
  <1>4. Evaluated(root, RsStep(register, byte)) = Added(x, y)
    BY <1>1, <1>2, StepEvaluated
  <1>. HIDE DEF low, mid, high, thrice
  <1>5. Byte(x) /\ Byte(y)
    BY TimesByte
  <1>6. Times(low, x) = Times(mid, Evaluated(root, register))
    BY <1>3, TimesTimes
  <1>7. Times(low, y) = Times(high, byte)
    BY <1>3, TimesTimes
  <1>. HIDE DEF x, y
  <1>8. Times(low, Added(x, y)) = Added(Times(low, x), Times(low, y))
    BY <1>5, TimesSums
  <1>9. Times(root * (9 - (n + 1)), Evaluated(root, Registers(lc)[n + 1]))
          = Times(low, Added(x, y))
    BY <1>1, <1>3, <1>4 DEF low
  <1>. QED
    BY <1>6, <1>7, <1>8, <1>9 DEF register, byte, mid, high

HasLinkControl(word, lc) ==
    /\ \A n \in 0 .. 8 : Part(word, 8 * n, 8) = Part(lc, 8 * n, 8)
    /\ Part(word, 72, 24) = Rs129(lc)

LEMMA LinkControlSummed ==
    ASSUME NEW root \in 1 .. 3, NEW lc, NEW word, HasLinkControl(word, lc), NEW j \in 0 .. 7
    PROVE  /\ IsFiniteSet(Stripe(9, j))
           /\ Sum(FlattenSeq(Terms(word, root)), Stripe(9, j))
                = Evaluated(root, Rs129(lc))[j + 1]
  <1>. DEFINE words == Terms(word, root)
              all == FlattenSeq(words)
              at(k) == Times(root * (9 - k), Evaluated(root, Registers(lc)[k]))
              S == {n \in Nat : IsFiniteSet(Stripe(n, j))
                                /\ Sum(all, Stripe(n, j)) = at(n)[j + 1]}
  <1>1. LaidOut(all, words, 12, 8)
    BY TermsAre
  <1>2. ASSUME NEW n \in 0 .. 8
        PROVE  words[n + 1] = Times(root * (12 - (n + 1)), Part(lc, 8 * n, 8))
    <2>1. n + 1 \in 1 .. 12 /\ (n + 1) - 1 = n
      OBVIOUS
    <2>2. words[n + 1] = Times(root * (12 - (n + 1)), Part(word, 8 * ((n + 1) - 1), 8))
      BY <2>1 DEF Terms
    <2>3. Part(word, 8 * n, 8) = Part(lc, 8 * n, 8)
      BY DEF HasLinkControl
    <2>. QED
      BY <2>1, <2>2, <2>3
  <1>3. at(0) = Zeros(8)
    <2>1. root * (9 - 0) \in 0 .. 33
      OBVIOUS
    <2>2. Evaluated(root, Registers(lc)[0]) = Zeros(8)
      BY RegistersAre, EvaluatedNothing
    <2>. DEFINE k == root * (9 - 0)
    <2>. HIDE DEF k
    <2>3. Times(k, Zeros(8)) = Zeros(8)
      BY <2>1, TimesNothing DEF k
    <2>. QED
      BY <2>2, <2>3 DEF k
  <1>4. \A k \in 0 .. 8 :
            at(k + 1) = Added(at(k), Times(root * (12 - (k + 1)), Part(lc, 8 * k, 8)))
    BY RegisterGrows
  <1>5. \A k : HasBits(at(k), 8)
    BY TimesHasBits
  <1>6. at(9) = Evaluated(root, Rs129(lc))
    <2>. DEFINE e == Evaluated(root, Rs129(lc))
    <2>1. Registers(lc)[9] = Rs129(lc) /\ root * (9 - 9) = 0
      BY RegistersAre
    <2>2. HasBits(e, 8)
      <3>. DEFINE x == Times(2 * root, Part(Rs129(lc), 0, 8))
                  y == Times(root, Part(Rs129(lc), 8, 8))
      <3>1. HasBits(x, 8)
        BY TimesHasBits
      <3>. HIDE DEF x, y
      <3>2. HasBits(Added(x, y), 8)
        BY <3>1, AddedHasBits
      <3>3. HasBits(Added(Added(x, y), Part(Rs129(lc), 16, 8)), 8)
        BY <3>2, AddedHasBits
      <3>. QED
        BY <3>3 DEF Evaluated, x, y
    <2>3. at(9) = Times(0, e)
      BY <2>1
    <2>. HIDE DEF e
    <2>4. Times(0, e) = e
      BY <2>2, OneTime, AlphaIs DEF Times
    <2>. QED
      BY <2>3, <2>4 DEF e
  <1>. HIDE DEF words, all, at
  <1>7. 0 \in S
    <2>1. Zeros(8)[j + 1] = {}
      BY DEF Zeros, Bits, Zero
    <2>2. Sum(all, Stripe(0, j)) = at(0)[j + 1]
      BY <1>3, <2>1, StripeOfNone, SumOfNone
    <2>3. IsFiniteSet(Stripe(0, j))
      BY StripeOfNone, FS_EmptySet
    <2>. QED
      BY <2>2, <2>3
  <1>8. ASSUME NEW n \in 0 .. 9, n # 9, n \in S PROVE n + 1 \in S
    <2>1. n \in 0 .. 11 /\ n \in 0 .. 8 /\ j + 1 \in 1 .. 8
      BY <1>8
    <2>2. IsFiniteSet(Stripe(n, j)) /\ Sum(all, Stripe(n, j)) = at(n)[j + 1]
      BY <1>8
    <2>3. /\ IsFiniteSet(Stripe(n + 1, j))
          /\ Sum(all, Stripe(n + 1, j)) = Xor(Sum(all, Stripe(n, j)), words[n + 1][j + 1])
      BY <1>1, <2>1, <2>2, StripeGrows
    <2>. DEFINE term == Times(root * (12 - (n + 1)), Part(lc, 8 * n, 8))
    <2>4. words[n + 1] = term
      BY <1>2, <2>1
    <2>5. at(n + 1) = Added(at(n), term)
      BY <1>4, <2>1
    <2>. HIDE DEF term
    <2>6. Added(at(n), term)[j + 1] = Xor(at(n)[j + 1], term[j + 1])
      BY <1>5, <2>1, AddedHasBits
    <2>7. Sum(all, Stripe(n + 1, j)) = at(n + 1)[j + 1]
      BY <2>2, <2>3, <2>4, <2>5, <2>6
    <2>. QED
      BY <2>3, <2>7
  <1>. HIDE DEF S
  <1>9. 0 .. 9 \subseteq S
    BY <1>7, <1>8, RangeInduction
  <1>10. 9 \in S
    BY <1>9
  <1>. QED
    BY <1>6, <1>10 DEF S, all, words

\* With the parity there is nothing left: the twelve bytes are a word of the
\* Reed-Solomon code (_rs129_encode).
THEOREM ParityReadsBack ==
    ASSUME NEW root \in 1 .. 3, NEW lc, NEW word, HasLinkControl(word, lc), NEW j \in 0 .. 7
    PROVE  Sum(FlattenSeq(Terms(word, root)), Stripe(12, j)) = Zero
  <1>. DEFINE words == Terms(word, root)
              all == FlattenSeq(words)
              r == Rs129(lc)
              x == Times(2 * root, Part(r, 0, 8))
              y == Times(root, Part(r, 8, 8))
              z == Part(r, 16, 8)
              e == Evaluated(root, r)
              P(n) == Sum(all, Stripe(n, j))
  <1>1. LaidOut(all, words, 12, 8)
    BY TermsAre
  <1>2. IsFiniteSet(Stripe(9, j)) /\ P(9) = e[j + 1]
    BY LinkControlSummed
  <1>3. words[10] = x /\ words[11] = y /\ words[12] = z
    <2>1. /\ Part(word, 72, 8) = Part(r, 0, 8)
          /\ Part(word, 80, 8) = Part(r, 8, 8)
          /\ Part(word, 88, 8) = z
      <3>1. r = Part(word, 72, 24)
        BY DEF HasLinkControl
      <3>2. /\ Part(Part(word, 72, 24), 0, 8) = Part(word, 72, 8)
            /\ Part(Part(word, 72, 24), 8, 8) = Part(word, 80, 8)
            /\ Part(Part(word, 72, 24), 16, 8) = Part(word, 88, 8)
        BY PartOfPart
      <3>. HIDE DEF r
      <3>. QED
        BY <3>1, <3>2
    <2>2. /\ words[10] = Times(root * (12 - 10), Part(word, 8 * (10 - 1), 8))
          /\ words[11] = Times(root * (12 - 11), Part(word, 8 * (11 - 1), 8))
          /\ words[12] = Times(root * (12 - 12), Part(word, 8 * (12 - 1), 8))
      BY DEF Terms
    <2>3. /\ root * (12 - 10) = 2 * root /\ root * (12 - 11) = root /\ root * (12 - 12) = 0
          /\ 8 * (10 - 1) = 72 /\ 8 * (11 - 1) = 80 /\ 8 * (12 - 1) = 88
      OBVIOUS
    <2>4. Times(0, z) = z
      <3>1. HasBits(z, 8)
        BY Parted
      <3>. HIDE DEF z
      <3>. QED
        BY <3>1, OneTime, AlphaIs DEF Times
    <2>. HIDE DEF words, r
    <2>. QED
      BY <2>1, <2>2, <2>3, <2>4
  <1>4. e[j + 1] = Xor(Xor(x[j + 1], y[j + 1]), z[j + 1])
    <2>1. j + 1 \in 1 .. 8
      OBVIOUS
    <2>2. HasBits(x, 8)
      BY TimesHasBits
    <2>3. e = Added(Added(x, y), z)
      BY DEF Evaluated
    <2>. HIDE DEF x, y, z, e
    <2>4. HasBits(Added(x, y), 8) /\ Added(x, y)[j + 1] = Xor(x[j + 1], y[j + 1])
      BY <2>1, <2>2, AddedHasBits
    <2>5. Added(Added(x, y), z)[j + 1] = Xor(Added(x, y)[j + 1], z[j + 1])
      BY <2>1, <2>4, AddedHasBits
    <2>. QED
      BY <2>3, <2>4, <2>5
  <1>. HIDE DEF words, all, x, y, z, e
  <1>5. /\ IsFiniteSet(Stripe(10, j))
        /\ Sum(all, Stripe(10, j)) = Xor(Sum(all, Stripe(9, j)), x[j + 1])
    <2>1. 9 \in 0 .. 11 /\ 9 + 1 = 10
      OBVIOUS
    <2>2. /\ IsFiniteSet(Stripe(9 + 1, j))
          /\ Sum(all, Stripe(9 + 1, j)) = Xor(Sum(all, Stripe(9, j)), words[9 + 1][j + 1])
      BY <1>1, <1>2, <2>1, StripeGrows
    <2>. QED
      BY <1>3, <2>1, <2>2
  <1>6. /\ IsFiniteSet(Stripe(11, j))
        /\ Sum(all, Stripe(11, j)) = Xor(Sum(all, Stripe(10, j)), y[j + 1])
    <2>1. 10 \in 0 .. 11 /\ 10 + 1 = 11
      OBVIOUS
    <2>2. /\ IsFiniteSet(Stripe(10 + 1, j))
          /\ Sum(all, Stripe(10 + 1, j)) = Xor(Sum(all, Stripe(10, j)), words[10 + 1][j + 1])
      BY <1>1, <1>5, <2>1, StripeGrows
    <2>. QED
      BY <1>3, <2>1, <2>2
  <1>7. Sum(all, Stripe(12, j)) = Xor(Sum(all, Stripe(11, j)), z[j + 1])
    <2>1. 11 \in 0 .. 11 /\ 11 + 1 = 12
      OBVIOUS
    <2>2. Sum(all, Stripe(11 + 1, j)) = Xor(Sum(all, Stripe(11, j)), words[11 + 1][j + 1])
      BY <1>1, <1>6, <2>1, StripeGrows
    <2>. QED
      BY <1>3, <2>1, <2>2
  <1>8. \A a, b, c : Xor(Xor(Xor(Xor(Xor(a, b), c), a), b), c) = {}
    BY DEF Xor
  <1>. QED
    BY <1>2, <1>4, <1>5, <1>6, <1>7, <1>8 DEF Zero, all, words

=============================================================================

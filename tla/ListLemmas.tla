----------------------------- MODULE ListLemmas -----------------------------
(***************************************************************************)
(* Facts about sequences, chains of links and numbers that the proofs      *)
(* about the kernel's lists share.                                         *)
(***************************************************************************)
EXTENDS Integers, Sequences, SequencesExt, TLAPS, SequenceTheorems, WellFoundedInduction,
        FiniteSets, FiniteSetTheorems

(* Two sequences with the same elements are one. *)
LEMMA SameSequence ==
  ASSUME NEW S, NEW s \in Seq(S), NEW t \in Seq(S), Len(s) = Len(t),
         \A i \in 1 .. Len(s) : s[i] = t[i]
  PROVE  s = t
BY SeqEqual

(* r is q with l as its p-th element. *)
HasAt(r, q, p, l) ==
  /\ Len(r) = Len(q) + 1
  /\ \A i \in 1 .. Len(q) + 1 :
       r[i] = IF i < p THEN q[i] ELSE IF i = p THEN l ELSE q[i - 1]

(* An element that is inserted moves the ones behind it. *)
LEMMA Inserted ==
  ASSUME NEW S, NEW q \in Seq(S), NEW l \in S, NEW p \in 1 .. Len(q) + 1
  PROVE  InsertAt(q, p, l) \in Seq(S) /\ HasAt(InsertAt(q, p, l), q, p, l)
<1>. DEFINE a == SubSeq(q, 1, p - 1)
            b == <<l>>
            c == SubSeq(q, p, Len(q))
<1>1. Len(q) \in Nat /\ \A i \in 1 .. Len(q) : q[i] \in S
  BY LenProperties, ElementOfSeq
<1>2. /\ a \in Seq(S) /\ Len(a) = p - 1 /\ \A i \in 1 .. p - 1 : a[i] = q[i]
  <2>. p - 1 \in Int /\ \A i \in 1 .. p - 1 : q[i] \in S
    BY <1>1
  <2>. /\ a \in Seq(S) /\ Len(a) = IF 1 <= p - 1 THEN p - 1 - 1 + 1 ELSE 0
       /\ \A i \in 1 .. p - 1 - 1 + 1 : a[i] = q[1 + i - 1]
    BY SubSeqProperties
  <2>. HIDE DEF a
  <2>. QED  BY <1>1
<1>3. b \in Seq(S) /\ Len(b) = 1 /\ b[1] = l
  OBVIOUS
<1>4. /\ c \in Seq(S) /\ Len(c) = Len(q) - p + 1
      /\ \A i \in 1 .. Len(q) - p + 1 : c[i] = q[p + i - 1]
  <2>. \A i \in p .. Len(q) : q[i] \in S
    BY <1>1
  <2>. /\ c \in Seq(S) /\ Len(c) = IF p <= Len(q) THEN Len(q) - p + 1 ELSE 0
       /\ \A i \in 1 .. Len(q) - p + 1 : c[i] = q[p + i - 1]
    BY <1>1, SubSeqProperties
  <2>. HIDE DEF c
  <2>. QED  BY <1>1
<1>. HIDE DEF a, b, c
<1>5. /\ a \o b \in Seq(S) /\ Len(a \o b) = p
      /\ \A i \in 1 .. p : (a \o b)[i] = IF i < p THEN q[i] ELSE l
  <2>. /\ a \o b \in Seq(S) /\ Len(a \o b) = Len(a) + Len(b)
       /\ \A i \in 1 .. Len(a) + Len(b) : (a \o b)[i] = IF i <= Len(a) THEN a[i] ELSE b[i - Len(a)]
    BY <1>2, <1>3, ConcatProperties
  <2>. QED  BY <1>1, <1>2, <1>3
<1>. DEFINE ab == a \o b
<1>6. ab \in Seq(S) /\ Len(ab) = p /\ \A i \in 1 .. p : ab[i] = IF i < p THEN q[i] ELSE l
  BY <1>5
<1>7. InsertAt(q, p, l) = ab \o c
  BY DEF InsertAt, a, b, c
<1>. HIDE DEF ab
<1>8. /\ ab \o c \in Seq(S) /\ Len(ab \o c) = Len(ab) + Len(c)
      /\ \A i \in 1 .. Len(ab) + Len(c) : (ab \o c)[i] = IF i <= Len(ab) THEN ab[i] ELSE c[i - Len(ab)]
  BY <1>4, <1>6, ConcatProperties
<1>. DEFINE r == ab \o c
<1>. HIDE DEF r
<1>9. Len(ab) + Len(c) = Len(q) + 1
  BY <1>1, <1>4, <1>6
<1>10. ASSUME NEW i \in 1 .. Len(q) + 1
       PROVE  r[i] = IF i < p THEN q[i] ELSE IF i = p THEN l ELSE q[i - 1]
  <2>0. r[i] = IF i <= p THEN ab[i] ELSE c[i - p]
    BY <1>6, <1>8, <1>9 DEF r
  <2>1. CASE i <= p
    BY <1>1, <1>6, <2>0, <2>1
  <2>2. CASE i > p
    <3>1. r[i] = c[i - p]
      BY <1>1, <2>0, <2>2
    <3>2. i - p \in 1 .. Len(q) - p + 1 /\ p + (i - p) - 1 = i - 1
      BY <1>1, <2>2
    <3>3. c[i - p] = q[i - 1]
      BY <1>4, <3>2
    <3>. QED  BY <1>1, <2>2, <3>1, <3>3
  <2>. QED  BY <1>1, <2>1, <2>2
<1>. QED  BY <1>7, <1>8, <1>9, <1>10 DEF r, HasAt

(* An element that is removed moves the ones behind it. *)
LEMMA Removed ==
  ASSUME NEW S, NEW q \in Seq(S), NEW p \in 1 .. Len(q)
  PROVE  /\ RemoveAt(q, p) \in Seq(S) /\ Len(RemoveAt(q, p)) = Len(q) - 1
         /\ \A i \in 1 .. Len(q) - 1 : RemoveAt(q, p)[i] = IF i < p THEN q[i] ELSE q[i + 1]
<1>. DEFINE a == SubSeq(q, 1, p - 1)
            c == SubSeq(q, p + 1, Len(q))
<1>1. Len(q) \in Nat /\ \A i \in 1 .. Len(q) : q[i] \in S
  BY LenProperties, ElementOfSeq
<1>2. /\ a \in Seq(S) /\ Len(a) = p - 1 /\ \A i \in 1 .. p - 1 : a[i] = q[i]
  <2>. p - 1 \in Int /\ \A i \in 1 .. p - 1 : q[i] \in S
    BY <1>1
  <2>. /\ a \in Seq(S) /\ Len(a) = IF 1 <= p - 1 THEN p - 1 - 1 + 1 ELSE 0
       /\ \A i \in 1 .. p - 1 - 1 + 1 : a[i] = q[1 + i - 1]
    BY SubSeqProperties
  <2>. HIDE DEF a
  <2>. QED  BY <1>1
<1>3. /\ c \in Seq(S) /\ Len(c) = Len(q) - p
      /\ \A i \in 1 .. Len(q) - p : c[i] = q[p + i]
  <2>1. \A i \in p + 1 .. Len(q) : q[i] \in S
    BY <1>1
  <2>2. p + 1 \in Int /\ Len(q) \in Int
    BY <1>1
  <2>3. /\ c \in Seq(S) /\ Len(c) = IF p + 1 <= Len(q) THEN Len(q) - (p + 1) + 1 ELSE 0
        /\ \A i \in 1 .. Len(q) - (p + 1) + 1 : c[i] = q[(p + 1) + i - 1]
    BY <2>1, <2>2, SubSeqProperties
  <2>. HIDE DEF c
  <2>. QED  BY <1>1, <2>3
<1>4. RemoveAt(q, p) = a \o c
  BY DEF RemoveAt, a, c
<1>. HIDE DEF a, c
<1>5. /\ a \o c \in Seq(S) /\ Len(a \o c) = Len(a) + Len(c)
      /\ \A i \in 1 .. Len(a) + Len(c) : (a \o c)[i] = IF i <= Len(a) THEN a[i] ELSE c[i - Len(a)]
  BY <1>2, <1>3, ConcatProperties
<1>. DEFINE r == a \o c
<1>. HIDE DEF r
<1>6. Len(a) + Len(c) = Len(q) - 1
  BY <1>1, <1>2, <1>3
<1>7. ASSUME NEW i \in 1 .. Len(q) - 1
      PROVE  r[i] = IF i < p THEN q[i] ELSE q[i + 1]
  <2>0. r[i] = IF i <= p - 1 THEN a[i] ELSE c[i - (p - 1)]
    BY <1>2, <1>5, <1>6 DEF r
  <2>1. CASE i < p
    BY <1>1, <1>2, <2>0, <2>1
  <2>2. CASE ~(i < p)
    <3>1. r[i] = c[i - (p - 1)]
      BY <1>1, <2>0, <2>2
    <3>2. i - (p - 1) \in 1 .. Len(q) - p /\ p + (i - (p - 1)) = i + 1
      BY <1>1, <2>2
    <3>3. c[i - (p - 1)] = q[i + 1]
      BY <1>3, <3>2
    <3>. QED  BY <2>2, <3>1, <3>3
  <2>. QED  BY <2>1, <2>2
<1>. QED  BY <1>4, <1>5, <1>6, <1>7 DEF r

(* A set of natural numbers has a smallest one. *)
LEMMA SmallestNumber ==
  ASSUME NEW S \in SUBSET Nat, S # {}
  PROVE  \E m \in S : \A y \in S : m <= y
<1>1. PICK m \in S : \A y \in S : ~(<<y, m>> \in OpToRel(<, Nat))
  BY WFMin, NatLessThanWellFounded
<1>2. ASSUME NEW y \in S, y < m
      PROVE  FALSE
  <2>. <<y, m>> \in Nat \X Nat
    OBVIOUS
  <2>. <<y, m>> \in OpToRel(<, Nat)
    BY <1>2 DEF OpToRel
  <2>. QED  BY <1>1
<1>. QED  BY <1>2

(* g starts with a and goes on with what F makes of the place before. *)
Iterates(g, F, a, N) == g = [n \in 0 .. N |-> IF n = 0 THEN a ELSE F[g[n - 1]]]

(* A function can be applied over and over. *)
LEMMA Iterated ==
  ASSUME NEW S, NEW F \in [S -> S], NEW a \in S, NEW N \in Nat
  PROVE  \E g \in [0 .. N -> S] : Iterates(g, F, a, N)
<1>. DEFINE Good(n) == \E g \in [0 .. n -> S] : /\ g[0] = a
                                              /\ \A i \in 1 .. n : g[i] = F[g[i - 1]]
            Bad == {n \in Nat : ~Good(n)}
<1>1. Good(0)
  <2>. DEFINE g == [n \in 0 .. 0 |-> a]
  <2>. g \in [0 .. 0 -> S] /\ g[0] = a /\ \A i \in 1 .. 0 : g[i] = F[g[i - 1]]
    OBVIOUS
  <2>. QED  OBVIOUS
<1>2. ASSUME NEW n \in Nat, Good(n)
      PROVE  Good(n + 1)
  <2>1. PICK g \in [0 .. n -> S] : g[0] = a /\ \A i \in 1 .. n : g[i] = F[g[i - 1]]
    BY <1>2
  <2>. DEFINE h == [i \in 0 .. n + 1 |-> IF i = n + 1 THEN F[g[n]] ELSE g[i]]
  <2>2. h \in [0 .. n + 1 -> S] /\ h[0] = a
    BY <2>1
  <2>3. ASSUME NEW i \in 1 .. n + 1
        PROVE  h[i] = F[h[i - 1]]
    BY <2>1
  <2>. HIDE DEF h
  <2>. QED  BY <2>2, <2>3
<1>3. Bad = {}
  <2>. SUFFICES ASSUME Bad # {}
                PROVE  FALSE
    OBVIOUS
  <2>1. PICK m \in Bad : \A y \in Bad : m <= y
    BY SmallestNumber
  <2>2. m \in Nat /\ ~Good(m)
    OBVIOUS
  <2>. HIDE DEF Good
  <2>3. m # 0
    BY <1>1, <2>2
  <2>4. m - 1 \in Nat /\ m - 1 \notin Bad
    BY <2>1, <2>2, <2>3
  <2>. QED  BY <1>2, <2>2, <2>4
<1>4. Good(N)
  BY <1>3
<1>5. PICK g \in [0 .. N -> S] : g[0] = a /\ \A i \in 1 .. N : g[i] = F[g[i - 1]]
  BY <1>4
<1>6. g = [n \in 0 .. N |-> IF n = 0 THEN a ELSE F[g[n - 1]]]
  <2>. \A n \in 0 .. N : g[n] = IF n = 0 THEN a ELSE F[g[n - 1]]
    BY <1>5
  <2>. QED  BY <1>5
<1>. QED  BY <1>6 DEF Iterates

(* What holds first and is handed on holds throughout. *)
LEMMA HandedOn ==
  ASSUME NEW N \in Nat, NEW S \in SUBSET Nat, 0 \in S, \A n \in 1 .. N : n - 1 \in S => n \in S
  PROVE  \A n \in 0 .. N : n \in S
<1>. DEFINE Bad == (0 .. N) \ S
<1>. SUFFICES ASSUME Bad # {}
              PROVE  FALSE
  OBVIOUS
<1>0. Bad \in SUBSET Nat
  OBVIOUS
<1>1. PICK m \in Bad : \A y \in Bad : m <= y
  <2>. HIDE DEF Bad
  <2>. QED  BY <1>0, SmallestNumber
<1>2. m \in 1 .. N /\ m \notin S /\ m - 1 \in 0 .. N /\ m - 1 < m
  OBVIOUS
<1>3. m - 1 \notin Bad
  BY <1>1, <1>2
<1>. QED  BY <1>2, <1>3

(* g starts with a and goes on, at each place, with what its F makes of    *)
(* the place before.                                                       *)
Walks(g, F, a, N) == g = [n \in 0 .. N |-> IF n = 0 THEN a ELSE F[n][g[n - 1]]]

(* There is such a function. *)
LEMMA Walked ==
  ASSUME NEW S, NEW N \in Nat, NEW F \in [1 .. N -> [S -> S]], NEW a \in S
  PROVE  \E g \in [0 .. N -> S] : Walks(g, F, a, N)
<1>. DEFINE Good(n) == \E g \in [0 .. n -> S] :
              g[0] = a /\ \A i \in 1 .. n : i <= N => g[i] = F[i][g[i - 1]]
            Goods == {n \in Nat : n <= N => Good(n)}
<1>1. 0 \in Goods
  <2>. DEFINE g == [n \in 0 .. 0 |-> a]
  <2>. g \in [0 .. 0 -> S] /\ g[0] = a /\ \A i \in 1 .. 0 : i <= N => g[i] = F[i][g[i - 1]]
    OBVIOUS
  <2>. QED  OBVIOUS
<1>2. ASSUME NEW m \in 1 .. N, m - 1 \in Goods
      PROVE  m \in Goods
  <2>. DEFINE n == m - 1
  <2>0. n \in Nat /\ n + 1 = m /\ n < N
    OBVIOUS
  <2>1. PICK g \in [0 .. n -> S] : g[0] = a /\ \A i \in 1 .. n : i <= N => g[i] = F[i][g[i - 1]]
    BY <1>2, <2>0
  <2>2. g[n] \in S /\ F[m] \in [S -> S]
    BY <2>0, <2>1
  <2>. DEFINE h == [i \in 0 .. m |-> IF i = m THEN F[m][g[n]] ELSE g[i]]
  <2>3. h \in [0 .. m -> S] /\ h[0] = a
    BY <2>0, <2>1, <2>2
  <2>4. ASSUME NEW i \in 1 .. m, i <= N
        PROVE  h[i] = F[i][h[i - 1]]
    BY <2>0, <2>1, <2>4
  <2>. HIDE DEF h
  <2>. QED  BY <2>3, <2>4
<1>. HIDE DEF Good
<1>3. N \in Goods
  <2>1. Goods \in SUBSET Nat
    OBVIOUS
  <2>. HIDE DEF Goods
  <2>2. \A n \in 0 .. N : n \in Goods
    BY <1>1, <1>2, <2>1, HandedOn
  <2>. QED  BY <2>2
<1>4. PICK g \in [0 .. N -> S] : g[0] = a /\ \A i \in 1 .. N : i <= N => g[i] = F[i][g[i - 1]]
  BY <1>3 DEF Good
<1>5. \A n \in 0 .. N : g[n] = IF n = 0 THEN a ELSE F[n][g[n - 1]]
  BY <1>4
<1>. QED  BY <1>4, <1>5 DEF Walks

(* The same when what F makes is known only of what the places can hold. *)
LEMMA WalkedWithin ==
  ASSUME NEW S, NEW N \in Nat, NEW F, NEW In \in [0 .. N -> SUBSET S], NEW a \in In[0],
         \A n \in 1 .. N : \A x \in In[n - 1] : F[n][x] \in In[n]
  PROVE  \E g \in [0 .. N -> S] : Walks(g, F, a, N) /\ \A n \in 0 .. N : g[n] \in In[n]
<1>. DEFINE G == [n \in 1 .. N |-> [x \in S |-> IF x \in In[n - 1] THEN F[n][x] ELSE x]]
<1>0. /\ a \in S
      /\ \A n \in 1 .. N : n \in 0 .. N /\ n # 0 /\ n - 1 \in 0 .. N /\ In[n - 1] \in SUBSET S /\ In[n] \in SUBSET S
  OBVIOUS
<1>1. G \in [1 .. N -> [S -> S]]
  BY <1>0
<1>2. PICK g \in [0 .. N -> S] : Walks(g, G, a, N)
  <2>. HIDE DEF G
  <2>. QED  BY <1>0, <1>1, Walked
<1>3. g[0] = a /\ \A n \in 1 .. N : g[n] = G[n][g[n - 1]]
  <2>1. \A n \in 0 .. N : g[n] = IF n = 0 THEN a ELSE G[n][g[n - 1]]
    BY <1>2 DEF Walks
  <2>. HIDE DEF G
  <2>. QED  BY <1>0, <2>1
<1>. DEFINE Held == {n \in Nat : n <= N => g[n] \in In[n]}
<1>4. ASSUME NEW n \in 1 .. N, g[n - 1] \in In[n - 1]
      PROVE  g[n] = F[n][g[n - 1]] /\ g[n] \in In[n]
  <2>1. g[n] = G[n][g[n - 1]] /\ g[n - 1] \in S
    BY <1>0, <1>3
  <2>2. G[n][g[n - 1]] = F[n][g[n - 1]]
    BY <1>4, <2>1
  <2>. HIDE DEF G
  <2>. QED  BY <1>4, <2>1, <2>2
<1>5. \A n \in 0 .. N : n \in Held
  <2>1. 0 \in Held /\ Held \in SUBSET Nat
    BY <1>3
  <2>2. ASSUME NEW n \in 1 .. N, n - 1 \in Held
        PROVE  n \in Held
    BY <1>4, <2>2
  <2>. HIDE DEF Held
  <2>. QED  BY <2>1, <2>2, HandedOn
<1>6. \A n \in 0 .. N : g[n] \in In[n]
  BY <1>5
<1>7. \A n \in 0 .. N : g[n] = IF n = 0 THEN a ELSE F[n][g[n - 1]]
  <2>1. \A n \in 1 .. N : g[n] = F[n][g[n - 1]]
    BY <1>0, <1>4, <1>6
  <2>2. \A n \in 0 .. N : n = 0 \/ n \in 1 .. N
    OBVIOUS
  <2>. QED  BY <1>3, <2>1, <2>2
<1>8. Walks(g, F, a, N)
  BY <1>7 DEF Walks
<1>. QED  BY <1>6, <1>8

(* What falls from each place to the next differs everywhere. *)
Descends(v, N) == \A n \in 1 .. N : v[n] < v[n - 1]

LEMMA Falling ==
  ASSUME NEW N \in Nat, NEW v \in [0 .. N -> Int], Descends(v, N)
  PROVE  \A i, j \in 0 .. N : v[i] = v[j] => i = j
<1>1. ASSUME NEW i \in 0 .. N
      PROVE  \A j \in 0 .. N : i < j => v[j] < v[i]
  <2>. DEFINE S == {j \in 0 .. N : i < j => v[j] < v[i]}
  <2>1. 0 \in S
    OBVIOUS
  <2>2. ASSUME NEW n \in 1 .. N, n - 1 \in S
        PROVE  n \in S
    <3>1. v[n] < v[n - 1]
      BY DEF Descends
    <3>. QED  BY <2>2, <3>1
  <2>3. S \in SUBSET Nat
    OBVIOUS
  <2>. HIDE DEF S
  <2>4. \A n \in 0 .. N : n \in S
    BY <2>1, <2>2, <2>3, HandedOn
  <2>. QED  BY <2>4 DEF S
<1>2. ASSUME NEW i \in 0 .. N, NEW j \in 0 .. N, v[i] = v[j], i < j
      PROVE  FALSE
  <2>. v[j] < v[i] /\ v[i] \in Int
    BY <1>1, <1>2
  <2>. QED  BY <1>2
<1>. QED  BY <1>2

(* N + 1 places do not fit in N. *)
LEMMA TwoAlike ==
  ASSUME NEW N \in Nat, NEW w \in [0 .. N -> 0 .. N - 1]
  PROVE  \E x, y \in 0 .. N : x # y /\ w[x] = w[y]
<1>. DEFINE A == 0 .. N
            B == 0 .. N - 1
<1>1. IsFiniteSet(A) /\ Cardinality(A) = N + 1
  BY FS_Interval
<1>2. IsFiniteSet(B) /\ Cardinality(B) = N
  BY FS_Interval
<1>3. w \in [A -> B]
  OBVIOUS
<1>4. Cardinality(B) < Cardinality(A)
  <2>. HIDE DEF A, B
  <2>. QED  BY <1>1, <1>2
<1>5. \E x, y \in A : x # y /\ w[x] = w[y]
  <2>. HIDE DEF A, B
  <2>. QED  BY <1>1, <1>2, <1>3, <1>4, FS_PigeonHole
<1>. QED  BY <1>5

(* A chain along which a number falls is no longer than there are places. *)
LEMMA ChainEnds ==
  ASSUME NEW N \in Nat, NEW w \in [0 .. N -> 0 .. N - 1], NEW r \in [0 .. N - 1 -> Int]
  PROVE  ~Descends([n \in 0 .. N |-> r[w[n]]], N)
<1>. DEFINE v == [n \in 0 .. N |-> r[w[n]]]
<1>. SUFFICES ASSUME Descends(v, N)
              PROVE  FALSE
  OBVIOUS
<1>1. PICK x \in 0 .. N, y \in 0 .. N : x # y /\ w[x] = w[y]
  BY TwoAlike
<1>2. v \in [0 .. N -> Int] /\ v[x] = v[y]
  BY <1>1
<1>. HIDE DEF v
<1>. QED  BY <1>1, <1>2, Falling
-----------------------------------------------------------------------------
(* A list whose places are numbers and whose end is -1: what a walk of N   *)
(* steps from h along nx meets.                                            *)
ReachedFrom(h, nx, N) ==
  LET reached[n \in 0 .. N] ==
        IF n = 0 THEN {h} \ {-1}
        ELSE reached[n - 1] \cup ({nx[f] : f \in reached[n - 1]} \ {-1})
  IN  reached[N]

(* C is a list with head h: its members are linked by nx and back by pv,   *)
(* only the head has no predecessor, and r falls along nx.                 *)
IsList(C, h, nx, pv, r) ==
  /\ h # -1 => h \in C
  /\ \A g \in C : nx[g] # -1 => nx[g] \in C /\ r[nx[g]] < r[g]
  /\ \A g \in C : pv[g] # -1 => pv[g] \in C /\ nx[pv[g]] = g
  /\ \A g \in C : pv[g] = -1 => h = g

(* b leads back from f to h in k steps. *)
LeadsBack(b, k, f, h, nx) ==
  b[0] = f /\ b[k] = h /\ \A m \in 1 .. k : nx[b[m]] = b[m - 1]

(* Going back from a member leads to the head. *)
LEMMA HeadFound ==
  ASSUME NEW N \in Nat, NEW C \in SUBSET (0 .. N - 1), NEW h, NEW nx, NEW pv,
         NEW r \in [0 .. N - 1 -> Int], IsList(C, h, nx, pv, r), NEW f \in C
  PROVE  \E k \in 0 .. N : \E b \in [0 .. k -> C] : LeadsBack(b, k, f, h, nx)
<1>. DEFINE Back == [g \in C |-> IF pv[g] = -1 THEN g ELSE pv[g]]
<1>1. ASSUME NEW g \in C
      PROVE  /\ g \in Int /\ g # -1
             /\ pv[g] = -1 => g = h
             /\ pv[g] # -1 => pv[g] \in C /\ nx[pv[g]] = g
             /\ nx[g] # -1 => r[nx[g]] < r[g]
  BY DEF IsList
<1>2. Back \in [C -> C]
  BY <1>1
<1>3. \E b \in [0 .. N -> C] : Iterates(b, Back, f, N)
  <2>. HIDE DEF Back
  <2>. QED  BY <1>2, Iterated
<1>4. PICK b \in [0 .. N -> C] : b = [n \in 0 .. N |-> IF n = 0 THEN f ELSE Back[b[n - 1]]]
  BY <1>3 DEF Iterates
<1>5. /\ b[0] = f
      /\ \A n \in 1 .. N : b[n] = IF pv[b[n - 1]] = -1 THEN b[n - 1] ELSE pv[b[n - 1]]
  <2>1. b[0] = f
    BY <1>4
  <2>2. ASSUME NEW n \in 1 .. N
        PROVE  b[n] = IF pv[b[n - 1]] = -1 THEN b[n - 1] ELSE pv[b[n - 1]]
    <3>1. n \in 0 .. N /\ n # 0 /\ n - 1 \in 0 .. N
      OBVIOUS
    <3>2. b[n] = Back[b[n - 1]] /\ b[n - 1] \in C
      BY <1>4, <3>1
    <3>. QED  BY <3>2
  <2>. QED  BY <2>1, <2>2
<1>. DEFINE Firsts == {n \in 0 .. N : pv[b[n]] = -1}
<1>. HIDE DEF Back
<1>6. Firsts # {}
  <2>. SUFFICES ASSUME \A n \in 0 .. N : pv[b[n]] # -1
                PROVE  FALSE
    OBVIOUS
  <2>. DEFINE q == [g \in 0 .. N - 1 |-> -r[g]]
              v == [n \in 0 .. N |-> q[b[n]]]
  <2>1. b \in [0 .. N -> 0 .. N - 1] /\ q \in [0 .. N - 1 -> Int]
    <3>1. \A n \in 0 .. N : b[n] \in 0 .. N - 1
      OBVIOUS
    <3>2. q \in [0 .. N - 1 -> Int]
      OBVIOUS
    <3>. HIDE DEF q
    <3>. QED  BY <3>1, <3>2
  <2>2. ASSUME NEW n \in 1 .. N
        PROVE  v[n] < v[n - 1]
    <3>1. n \in 0 .. N /\ n - 1 \in 0 .. N
      OBVIOUS
    <3>2. b[n - 1] \in C /\ b[n] \in C
      BY <3>1
    <3>3. b[n] = pv[b[n - 1]]
      BY <1>5, <3>1
    <3>4. nx[b[n]] = b[n - 1] /\ b[n - 1] # -1
      BY <1>1, <3>1, <3>2, <3>3
    <3>5. r[b[n - 1]] < r[b[n]]
      BY <1>1, <3>2, <3>4
    <3>6. v[n] = -r[b[n]] /\ v[n - 1] = -r[b[n - 1]] /\ r[b[n]] \in Int /\ r[b[n - 1]] \in Int
      BY <3>1, <3>2
    <3>. QED  BY <3>5, <3>6
  <2>3. Descends(v, N)
    <3>. HIDE DEF v
    <3>. QED  BY <2>2 DEF Descends
  <2>. HIDE DEF q
  <2>. QED  BY <2>1, <2>3, ChainEnds
<1>7. Firsts \in SUBSET Nat
  OBVIOUS
<1>8. PICK k \in Firsts : \A n \in Firsts : k <= n
  <2>. HIDE DEF Firsts
  <2>. QED  BY <1>6, <1>7, SmallestNumber
<1>. DEFINE c == [n \in 0 .. k |-> b[n]]
<1>9. k \in 0 .. N /\ c \in [0 .. k -> C] /\ c[0] = f /\ c[k] = h
  <2>1. k \in 0 .. N /\ pv[b[k]] = -1 /\ b[k] \in C
    BY <1>8
  <2>2. c \in [0 .. k -> C]
    BY <2>1
  <2>3. c[0] = b[0] /\ c[k] = b[k]
    BY <2>1
  <2>4. b[k] = h
    BY <1>1, <2>1
  <2>. QED  BY <1>5, <2>1, <2>2, <2>3, <2>4
<1>10. ASSUME NEW m \in 1 .. k
       PROVE  nx[c[m]] = c[m - 1]
  <2>1. m \in 1 .. N /\ m \in 0 .. N /\ m - 1 \in 0 .. N /\ m - 1 < k /\ m - 1 \notin Firsts
    BY <1>8, <1>9
  <2>2. pv[b[m - 1]] # -1 /\ b[m - 1] \in C
    BY <2>1
  <2>3. b[m] = pv[b[m - 1]]
    BY <1>5, <2>1, <2>2
  <2>4. nx[b[m]] = b[m - 1]
    BY <1>1, <2>2, <2>3
  <2>. QED  BY <1>9, <2>1, <2>4
<1>. HIDE DEF c
<1>. QED  BY <1>9, <1>10 DEF LeadsBack

(* A walk along a list meets exactly its members. *)
LEMMA WalkMeetsAll ==
  ASSUME NEW N \in Nat, NEW C \in SUBSET (0 .. N - 1), NEW h, NEW nx, NEW pv,
         NEW r \in [0 .. N - 1 -> Int], IsList(C, h, nx, pv, r)
  PROVE  ReachedFrom(h, nx, N) = C
<1>. DEFINE first == {h} \ {-1}
            More == [R \in SUBSET C |-> R \cup ({nx[f] : f \in R} \ {-1})]
            reached[n \in 0 .. N] ==
              IF n = 0 THEN {h} \ {-1}
              ELSE reached[n - 1] \cup ({nx[f] : f \in reached[n - 1]} \ {-1})
<1>1. first \in SUBSET C
  BY DEF IsList
<1>2. \A f \in C : nx[f] # -1 => nx[f] \in C
  BY DEF IsList
<1>3. \E g \in [0 .. N -> SUBSET C] : Iterates(g, More, first, N)
  <2>1. More \in [SUBSET C -> SUBSET C]
    BY <1>2
  <2>. HIDE DEF More, first
  <2>. QED  BY <1>1, <2>1, Iterated
<1>4. PICK g \in [0 .. N -> SUBSET C] :
        g = [n \in 0 .. N |-> IF n = 0 THEN first ELSE More[g[n - 1]]]
  BY <1>3 DEF Iterates
<1>5. g = [n \in 0 .. N |->
             IF n = 0 THEN {h} \ {-1}
             ELSE g[n - 1] \cup ({nx[f] : f \in g[n - 1]} \ {-1})]
  <2>1. ASSUME NEW n \in 0 .. N
        PROVE  g[n] = IF n = 0 THEN {h} \ {-1}
                      ELSE g[n - 1] \cup ({nx[f] : f \in g[n - 1]} \ {-1})
    <3>1. g[n] = IF n = 0 THEN first ELSE More[g[n - 1]]
      BY <1>4
    <3>2. n # 0 => n - 1 \in 0 .. N /\ g[n - 1] \in SUBSET C
      OBVIOUS
    <3>. QED  BY <3>1, <3>2
  <2>. QED  BY <1>4, <2>1
<1>6. reached = [n \in 0 .. N |->
             IF n = 0 THEN {h} \ {-1}
             ELSE reached[n - 1] \cup ({nx[f] : f \in reached[n - 1]} \ {-1})]
  BY <1>5
<1>7. ReachedFrom(h, nx, N) = reached[N]
  BY DEF ReachedFrom
<1>. HIDE DEF reached, More
<1>8. /\ reached[0] = first
      /\ \A n \in 1 .. N :
           reached[n] = reached[n - 1] \cup ({nx[f] : f \in reached[n - 1]} \ {-1})
  <2>1. reached[0] = first
    BY <1>6
  <2>2. ASSUME NEW n \in 1 .. N
        PROVE  reached[n] = reached[n - 1] \cup ({nx[f] : f \in reached[n - 1]} \ {-1})
    <3>1. n \in 0 .. N /\ n # 0
      OBVIOUS
    <3>. QED  BY <1>6, <3>1
  <2>. QED  BY <2>1, <2>2
<1>9. \A n \in 0 .. N : reached[n] \subseteq C
  <2>. DEFINE S == {n \in 0 .. N : reached[n] \subseteq C}
  <2>1. S \in SUBSET Nat /\ 0 \in S
    BY <1>1, <1>8
  <2>2. ASSUME NEW n \in 1 .. N, n - 1 \in S
        PROVE  n \in S
    <3>1. reached[n - 1] \subseteq C
      BY <2>2
    <3>2. reached[n] = reached[n - 1] \cup ({nx[f] : f \in reached[n - 1]} \ {-1})
      BY <1>8
    <3>3. \A x \in reached[n] : x \in C
      BY <1>2, <3>1, <3>2
    <3>. QED  BY <3>3
  <2>. HIDE DEF S
  <2>3. \A n \in 0 .. N : n \in S
    BY <2>1, <2>2, HandedOn
  <2>. QED  BY <2>3 DEF S
<1>10. ASSUME NEW f \in C
       PROVE  f \in reached[N]
  <2>1. PICK k \in 0 .. N : \E b \in [0 .. k -> C] : LeadsBack(b, k, f, h, nx)
    <3>. HIDE DEF first
    <3>. QED  BY HeadFound
  <2>2. PICK b \in [0 .. k -> C] :
           b[0] = f /\ b[k] = h /\ \A m \in 1 .. k : nx[b[m]] = b[m - 1]
    BY <2>1 DEF LeadsBack
  <2>3. k \in Nat
    OBVIOUS
  <2>4. \A n \in 0 .. k : b[k - n] \in reached[n]
    <3>. DEFINE S == {n \in 0 .. k : b[k - n] \in reached[n]}
    <3>1. S \in SUBSET Nat
      OBVIOUS
    <3>2. 0 \in S
      <4>1. b[k - 0] = h /\ b[k] \in C
        BY <2>2, <2>3
      <4>2. h # -1
        BY <2>2, <4>1
      <4>. QED  BY <1>8, <2>3, <4>1, <4>2
    <3>3. ASSUME NEW n \in 1 .. k, n - 1 \in S
          PROVE  n \in S
      <4>. DEFINE m == k - (n - 1)
      <4>1. m \in 1 .. k /\ m - 1 = k - n /\ m - 1 \in 0 .. k /\ n \in 1 .. N /\ n \in 0 .. k
        BY <2>3
      <4>2. b[m] \in reached[n - 1]
        BY <3>3
      <4>. HIDE DEF m
      <4>3. nx[b[m]] = b[m - 1] /\ b[m - 1] \in C
        BY <2>2, <4>1
      <4>4. b[m - 1] # -1
        BY <4>3
      <4>5. b[m - 1] \in reached[n]
        BY <1>8, <4>1, <4>2, <4>3, <4>4
      <4>. QED  BY <4>1, <4>5
    <3>. HIDE DEF S
    <3>4. \A n \in 0 .. k : n \in S
      BY <2>3, <3>1, <3>2, <3>3, HandedOn
    <3>. QED  BY <3>4 DEF S
  <2>5. f \in reached[k]
    <3>1. k \in 0 .. k /\ k - k = 0
      BY <2>3
    <3>. QED  BY <2>2, <2>4, <3>1
  <2>6. \A n \in 0 .. N : k <= n => f \in reached[n]
    <3>. DEFINE S == {n \in 0 .. N : k <= n => f \in reached[n]}
    <3>1. S \in SUBSET Nat /\ 0 \in S
      BY <2>3, <2>5
    <3>2. ASSUME NEW n \in 1 .. N, n - 1 \in S
          PROVE  n \in S
      <4>1. CASE n = k
        BY <2>5, <4>1
      <4>2. CASE n # k
        BY <1>8, <2>3, <3>2, <4>2
      <4>. QED  BY <4>1, <4>2
    <3>. HIDE DEF S
    <3>3. \A n \in 0 .. N : n \in S
      BY <3>1, <3>2, HandedOn
    <3>. QED  BY <3>3 DEF S
  <2>. QED  BY <2>3, <2>6
<1>11. N \in 0 .. N
  OBVIOUS
<1>. QED  BY <1>7, <1>9, <1>10, <1>11
=============================================================================

--------------------------- MODULE Service_proofs ---------------------------
(***************************************************************************)
(* That the hosts file redirects only while the proxy listens, keeps the   *)
(* user's lines and one block, and is restored by the uninstaller, through *)
(* every number of edits, failed writes and crashes; and that a stop       *)
(* leaves no dependent behind, whatever the dependents do meanwhile.       *)
(***************************************************************************)
EXTENDS Service, FiniteSetTheorems, SequenceTheorems, WellFoundedInduction, TLAPS

-----------------------------------------------------------------------------
(* Positions *)

(* g lists the n positions of P from the first to the last. *)
Enumerates(g, n, P) ==
  /\ g \in [1..n -> P]
  /\ \A k, m \in 1..n : k < m => g[k] < g[m]
  /\ \A i \in P : \E k \in 1..n : g[k] = i

Positions(P) == P \subseteq Nat \ {0} /\ IsFiniteSet(P)

LEMMA NthEnumerates ==
  ASSUME NEW P, Positions(P)
  PROVE  /\ Cardinality(P) \in Nat
         /\ Enumerates([k \in 1..Cardinality(P) |-> Nth(P, k)], Cardinality(P), P)
<1> DEFINE n == Cardinality(P)
           upTo(i) == P \cap 1..i
           rank == [i \in P |-> Cardinality(upTo(i))]
           nth == [k \in 1..n |-> Nth(P, k)]
<1>0. P \subseteq Nat \ {0} /\ IsFiniteSet(P) /\ n \in Nat
  BY FS_CardinalityType DEF Positions
<1>1. ASSUME NEW i \in P
      PROVE  /\ IsFiniteSet(upTo(i)) /\ upTo(i) \subseteq P /\ i \in upTo(i)
             /\ rank[i] = Cardinality(upTo(i)) /\ rank[i] \in 1..n
  <2>1. upTo(i) \subseteq P /\ i \in upTo(i)
    BY <1>0
  <2>2. IsFiniteSet(upTo(i)) /\ Cardinality(upTo(i)) <= n /\ Cardinality(upTo(i)) \in Nat
    BY <1>0, <2>1, FS_Subset, FS_CardinalityType
  <2>3. Cardinality(upTo(i)) # 0
    BY <2>1, <2>2, FS_EmptySet
  <2> QED
    BY <1>0, <2>1, <2>2, <2>3
<1>2. ASSUME NEW i \in P, NEW j \in P, i < j
      PROVE  rank[i] < rank[j]
  <2>1. upTo(i) \subseteq upTo(j) /\ j \notin upTo(i)
    BY <1>0, <1>2
  <2>2. j \in upTo(j) /\ IsFiniteSet(upTo(j))
    BY <1>1
  <2>3. Cardinality(upTo(i)) <= Cardinality(upTo(j)) /\ Cardinality(upTo(i)) # Cardinality(upTo(j))
    BY <2>1, <2>2, FS_Subset
  <2>4. rank[i] \in Nat /\ rank[j] \in Nat
    BY <1>0, <1>1
  <2> QED
    BY <2>3, <2>4, <1>1
<1>3. ASSUME NEW i \in P, NEW j \in P, rank[i] = rank[j]
      PROVE  i = j
  <2>1. rank[i] \in Nat /\ rank[j] \in Nat /\ i \in Nat /\ j \in Nat
    BY <1>0, <1>1
  <2>2. ~(i < j) /\ ~(j < i)
    BY <1>2, <1>3, <2>1
  <2> QED
    BY <2>1, <2>2
<1>4. rank \in Surjection(P, 1..n)
  <2>1. rank \in [P -> 1..n]
    BY <1>1
  <2>2. rank \in Injection(P, 1..n)
    BY <1>3, <2>1 DEF Injection, IsInjective
  <2>3. IsFiniteSet(1..n) /\ Cardinality(1..n) = n
    BY <1>0, FS_Interval
  <2> QED
    BY <2>2, <2>3, FS_Injection
<1>5. ASSUME NEW k \in 1..n
      PROVE  nth[k] \in P /\ rank[nth[k]] = k
  <2>1. PICK i \in P : rank[i] = k
    BY <1>4 DEF Surjection
  <2>2. \E j \in P : Cardinality(upTo(j)) = k
    BY <2>1
  <2>3. Nth(P, k) \in P /\ Cardinality(upTo(Nth(P, k))) = k
    BY <2>2 DEF Nth
  <2> QED
    BY <2>3
<1>6. ASSUME NEW k \in 1..n, NEW m \in 1..n, k < m
      PROVE  nth[k] < nth[m]
  <2>1. nth[k] \in Nat /\ nth[m] \in Nat /\ nth[k] \in P /\ nth[m] \in P
    BY <1>0, <1>5
  <2>2. rank[nth[k]] = k /\ rank[nth[m]] = m /\ k \in Nat /\ m \in Nat
    BY <1>0, <1>5
  <2>3. nth[m] < nth[k] => rank[nth[m]] < rank[nth[k]]
    BY <1>2, <2>1
  <2>4. nth[m] = nth[k] => m = k
    BY <2>2
  <2> HIDE DEF nth, rank
  <2> QED
    BY <1>6, <2>1, <2>2, <2>3, <2>4
<1>7. ASSUME NEW i \in P
      PROVE  \E k \in 1..n : nth[k] = i
  BY <1>1, <1>3, <1>5
<1>8. nth \in [1..n -> P]
  BY <1>5
<1> HIDE DEF nth
<1> QED
  <2>1. Enumerates(nth, n, P)
    BY <1>6, <1>7, <1>8 DEF Enumerates
  <2> QED
    BY <1>0, <2>1 DEF nth

(* A set of positions has a least one. *)
LEMMA LeastPosition ==
  ASSUME NEW T \in SUBSET Nat, T # {}
  PROVE  \E i \in T : \A k \in T : i <= k
<1> DEFINE R == OpToRel(<, Nat)
<1>1. IsWellFoundedOn(R, Nat)
  BY NatLessThanWellFounded
<1>2. \A x, y \in Nat : x < y => <<x, y>> \in R
  BY DEF OpToRel
<1> HIDE DEF R
<1>3. PICK x \in T : \A y \in T : ~(<<y, x>> \in R)
  BY <1>1, WFMin
<1>4. ASSUME NEW y \in T
      PROVE  x <= y
  <2>1. x \in Nat /\ y \in Nat
    BY <1>3, <1>4
  <2>2. ~(y < x)
    BY <1>2, <1>3, <2>1
  <2> QED
    BY <2>1, <2>2
<1> QED
  BY <1>3, <1>4

(* There is only one way to list a set of positions. *)
LEMMA EnumerationsBegin ==
  ASSUME NEW P, Positions(P), NEW n \in Nat, NEW m \in Nat, NEW f, NEW g,
         Enumerates(f, n, P), Enumerates(g, m, P)
  PROVE  \A k \in 1..n : k <= m /\ f[k] = g[k]
<1> DEFINE Bad == {k \in 1..n : ~(k <= m /\ f[k] = g[k])}
<1>1. SUFFICES ASSUME Bad # {} PROVE FALSE
  OBVIOUS
<1>2. PICK k \in Bad : \A j \in Bad : k <= j
  <2>1. Bad \in SUBSET Nat
    OBVIOUS
  <2> HIDE DEF Bad
  <2> QED
    BY <1>1, <2>1, LeastPosition
<1>3. \A j \in 1..n : j < k => j <= m /\ f[j] = g[j]
  BY <1>2
<1>4. /\ \A i, j \in 1..n : i < j => f[i] < f[j]
      /\ \A i, j \in 1..m : i < j => g[i] < g[j]
      /\ \A i \in 1..n : f[i] \in P /\ f[i] \in Nat
      /\ \A i \in 1..m : g[i] \in P /\ g[i] \in Nat
  BY DEF Enumerates, Positions
<1>5. k \in 1..n /\ f[k] \in P
  BY <1>2, <1>4
<1>6. PICK j \in 1..m : g[j] = f[k]
  BY <1>5 DEF Enumerates
<1>7. ~(j < k)
  <2>1. SUFFICES ASSUME j < k PROVE FALSE
    OBVIOUS
  <2>2. j \in 1..n /\ f[j] = g[j] /\ f[j] < f[k] /\ f[k] \in Nat
    BY <1>3, <1>4, <1>5, <2>1
  <2> QED
    BY <1>6, <2>2
<1>8. k \in 1..m
  BY <1>5, <1>6, <1>7
<1>9. PICK i \in 1..n : f[i] = g[k]
  BY <1>4, <1>8 DEF Enumerates
<1>10. ~(i < k)
  <2>1. SUFFICES ASSUME i < k PROVE FALSE
    OBVIOUS
  <2>2. i \in 1..m /\ f[i] = g[i] /\ g[i] < g[k] /\ g[k] \in Nat
    BY <1>3, <1>4, <1>8, <2>1
  <2> QED
    BY <1>9, <2>2
<1>11. f[k] <= f[i] /\ g[k] <= g[j]
  BY <1>4, <1>5, <1>7, <1>8, <1>10
<1>12. f[k] = g[k]
  BY <1>4, <1>5, <1>6, <1>8, <1>9, <1>11
<1> QED
  BY <1>2, <1>8, <1>12

LEMMA EnumerationIs ==
  ASSUME NEW P, Positions(P), NEW n \in Nat, NEW g, Enumerates(g, n, P)
  PROVE  Cardinality(P) = n /\ \A k \in 1..n : Nth(P, k) = g[k]
<1> DEFINE c == Cardinality(P)
           nth == [k \in 1..c |-> Nth(P, k)]
<1>1. c \in Nat /\ Enumerates(nth, c, P)
  BY NthEnumerates
<1>2. nth = [k \in 1..c |-> Nth(P, k)]
  OBVIOUS
<1> HIDE DEF nth, c
<1>3. /\ \A k \in 1..n : k <= c /\ g[k] = nth[k]
      /\ \A k \in 1..c : k <= n
  BY <1>1, EnumerationsBegin
<1>4. c = n
  <2>1. ~(n < c) /\ ~(c < n)
    BY <1>1, <1>3
  <2> QED
    BY <1>1, <2>1
<1>5. \A k \in 1..n : Nth(P, k) = g[k]
  BY <1>2, <1>3, <1>4
<1> QED
  BY <1>4, <1>5 DEF c

-----------------------------------------------------------------------------
(* Lines taken from lines *)

(* t is the lines of s at P, and g tells which is which. *)
Taken(g, t, s, P) ==
  Enumerates(g, Len(t), P) /\ \A k \in 1..Len(t) : t[k] = s[g[k]]

(* R is where g says the lines at Q are from. *)
From(g, Q, R) == (\A k \in Q : g[k] \in R) /\ \A i \in R : \E k \in Q : g[k] = i

LEMMA PositionsOf ==
  ASSUME NEW S, NEW s \in Seq(S), NEW P \in SUBSET DOMAIN s
  PROVE  Positions(P)
<1>1. Len(s) \in Nat /\ DOMAIN s = 1..Len(s)
  OBVIOUS
<1>2. IsFiniteSet(1..Len(s))
  BY <1>1, FS_Interval
<1> QED
  BY <1>1, <1>2, FS_Subset DEF Positions

LEMMA LinesAtTaken ==
  ASSUME NEW S, NEW s \in Seq(S), NEW P \in SUBSET DOMAIN s
  PROVE  /\ LinesAt(s, P) \in Seq(S)
         /\ \E g : Taken(g, LinesAt(s, P), s, P)
<1> DEFINE n == Cardinality(P)
           t == LinesAt(s, P)
           g == [k \in 1..n |-> Nth(P, k)]
<1>1. n \in Nat /\ Enumerates(g, n, P)
  BY PositionsOf, NthEnumerates
<1>2. \A k \in 1..n : s[g[k]] \in S
  <2>1. \A k \in 1..n : g[k] \in DOMAIN s
    BY <1>1 DEF Enumerates
  <2> HIDE DEF g, n
  <2> QED
    BY <2>1
<1>3. t = [k \in 1..n |-> s[g[k]]]
  BY DEF LinesAt
<1> HIDE DEF g, n, t
<1>4. t \in [1..n -> S]
  BY <1>2, <1>3
<1>5. t \in Seq(S) /\ Len(t) = n
  BY <1>1, <1>4, SeqDef
<1>6. Taken(g, t, s, P)
  BY <1>1, <1>3, <1>5 DEF Taken
<1> QED
  BY <1>5, <1>6 DEF t

LEMMA TakenIs ==
  ASSUME NEW S, NEW s \in Seq(S), NEW P \in SUBSET DOMAIN s, NEW t \in Seq(S), NEW g,
         Taken(g, t, s, P)
  PROVE  t = LinesAt(s, P)
<1>1. Len(t) \in Nat /\ DOMAIN t = 1..Len(t) /\ t = [k \in 1..Len(t) |-> t[k]]
  OBVIOUS
<1>2. Enumerates(g, Len(t), P) /\ \A k \in 1..Len(t) : t[k] = s[g[k]]
  BY DEF Taken
<1>3. Cardinality(P) = Len(t) /\ \A k \in 1..Len(t) : Nth(P, k) = g[k]
  BY <1>1, <1>2, PositionsOf, EnumerationIs
<1>4. LinesAt(s, P) = [k \in 1..Len(t) |-> s[Nth(P, k)]]
  BY <1>3 DEF LinesAt
<1>5. [k \in 1..Len(t) |-> s[Nth(P, k)]] = [k \in 1..Len(t) |-> t[k]]
  BY <1>2, <1>3
<1> QED
  BY <1>1, <1>4, <1>5

(* To take twice is to take once. *)
LEMMA TakenTwice ==
  ASSUME NEW S, NEW s \in Seq(S), NEW P \in SUBSET DOMAIN s, NEW t \in Seq(S), NEW g,
         Taken(g, t, s, P), NEW Q \in SUBSET DOMAIN t, NEW R \in SUBSET DOMAIN s,
         From(g, Q, R)
  PROVE  LinesAt(t, Q) = LinesAt(s, R)
<1> DEFINE u == LinesAt(t, Q)
<1>1. u \in Seq(S) /\ \E h : Taken(h, u, t, Q)
  BY LinesAtTaken
<1> HIDE DEF u
<1>2. PICK h : Taken(h, u, t, Q)
  BY <1>1
<1> DEFINE f == [k \in 1..Len(u) |-> g[h[k]]]
<1>3. /\ Len(t) \in Nat /\ Len(u) \in Nat /\ DOMAIN t = 1..Len(t)
      /\ g \in [1..Len(t) -> P] /\ h \in [1..Len(u) -> Q]
      /\ \A i, j \in 1..Len(t) : i < j => g[i] < g[j]
      /\ \A i, j \in 1..Len(u) : i < j => h[i] < h[j]
      /\ \A q \in Q : \E k \in 1..Len(u) : h[k] = q
      /\ \A k \in 1..Len(t) : t[k] = s[g[k]]
      /\ \A k \in 1..Len(u) : u[k] = t[h[k]]
  <2>1. Len(t) \in Nat /\ Len(u) \in Nat /\ DOMAIN t = 1..Len(t)
    BY <1>1
  <2>2. Enumerates(g, Len(t), P) /\ \A k \in 1..Len(t) : t[k] = s[g[k]]
    BY DEF Taken
  <2>3. Enumerates(h, Len(u), Q) /\ \A k \in 1..Len(u) : u[k] = t[h[k]]
    BY <1>2 DEF Taken
  <2> QED
    BY <2>1, <2>2, <2>3 DEF Enumerates
<1>4. \A k \in 1..Len(u) : h[k] \in Q /\ h[k] \in 1..Len(t) /\ f[k] = g[h[k]]
  BY <1>3
<1>5. f \in [1..Len(u) -> R]
  <2>1. \A k \in 1..Len(u) : g[h[k]] \in R
    BY <1>4 DEF From
  <2> QED
    BY <2>1
<1>6. ASSUME NEW i \in R
      PROVE  \E k \in 1..Len(u) : f[k] = i
  <2>1. PICK q \in Q : g[q] = i
    BY DEF From
  <2>2. PICK k \in 1..Len(u) : h[k] = q
    BY <1>3
  <2> QED
    BY <1>4, <2>1, <2>2
<1>7. \A k, m \in 1..Len(u) : k < m => f[k] < f[m]
  BY <1>3, <1>4
<1>8. \A k \in 1..Len(u) : u[k] = s[f[k]]
  BY <1>3, <1>4
<1> HIDE DEF f
<1>9. Taken(f, u, s, R)
  BY <1>5, <1>6, <1>7, <1>8 DEF Taken, Enumerates
<1>10. u = LinesAt(s, R)
  BY <1>1, <1>9, TakenIs
<1> QED
  BY <1>10 DEF u

(* Lines none of which is the user's make no difference to his own. *)
LEMMA OwnLinesTaken ==
  ASSUME NEW S, NEW s \in Seq(S), NEW P \in SUBSET DOMAIN s, NEW t \in Seq(S), NEW g,
         Taken(g, t, s, P), Where(s, UserLines) \subseteq P
  PROVE  OwnLines(t) = OwnLines(s)
<1> DEFINE Q == Where(t, UserLines)
           R == Where(s, UserLines)
<1>1. /\ Len(t) \in Nat /\ DOMAIN t = 1..Len(t)
      /\ g \in [1..Len(t) -> P]
      /\ \A i \in P : \E k \in 1..Len(t) : g[k] = i
      /\ \A k \in 1..Len(t) : t[k] = s[g[k]]
  BY DEF Taken, Enumerates
<1>2. ASSUME NEW i \in R
      PROVE  \E k \in Q : g[k] = i
  <2>1. PICK k \in 1..Len(t) : g[k] = i
    BY <1>1
  <2>2. k \in Q
    BY <1>1, <2>1 DEF Where
  <2> QED
    BY <2>1, <2>2
<1>3. ASSUME NEW k \in Q
      PROVE  g[k] \in R
  BY <1>1 DEF Where
<1>4. From(g, Q, R)
  BY <1>2, <1>3 DEF From
<1>5. Q \in SUBSET DOMAIN t /\ R \in SUBSET DOMAIN s
  BY DEF Where
<1> HIDE DEF Q, R
<1>6. LinesAt(t, Q) = LinesAt(s, R)
  BY <1>4, <1>5, TakenTwice
<1> QED
  BY <1>6 DEF OwnLines, Q, R

(* What is put behind some lines leaves them there. *)
LEMMA FrontTaken ==
  ASSUME NEW S, NEW s \in Seq(S), NEW t \in Seq(S), Len(t) <= Len(s),
         \A k \in 1..Len(t) : t[k] = s[k]
  PROVE  Taken([k \in 1..Len(t) |-> k], t, s, 1..Len(t))
  BY DEF Taken, Enumerates

(* A line the user deletes is the one line of his that goes. *)
LEMMA OwnLinesWithout ==
  ASSUME NEW S, NEW s \in Seq(S), NEW l
  PROVE  OwnLines(Without(s, l)) = Without(OwnLines(s), l)
<1> DEFINE t == Without(s, l)
           o == OwnLines(s)
           K == DOMAIN s \ Where(s, {l})
           U == Where(s, UserLines)
           R == U \cap K
<1>1. K \in SUBSET DOMAIN s /\ U \in SUBSET DOMAIN s /\ R \in SUBSET DOMAIN s
  BY DEF Where
<1>2. /\ t \in Seq(S) /\ \E g : Taken(g, t, s, K)
      /\ o \in Seq(S) /\ \E g : Taken(g, o, s, U)
  <2> HIDE DEF K, U
  <2>1. t = LinesAt(s, K) /\ o = LinesAt(s, U)
    BY DEF Without, OwnLines, K, U
  <2> QED
    BY <1>1, <2>1, LinesAtTaken
<1> DEFINE Q == Where(t, UserLines)
           W == DOMAIN o \ Where(o, {l})
<1>3. LinesAt(t, Q) = LinesAt(s, R)
  <2>1. PICK g : Taken(g, t, s, K)
    BY <1>2
  <2>2. From(g, Q, R)
    <3>1. ASSUME NEW i \in R
          PROVE  \E k \in Q : g[k] = i
      <4>1. PICK k \in 1..Len(t) : g[k] = i
        BY <2>1 DEF Taken, Enumerates
      <4> QED
        BY <1>2, <2>1, <4>1 DEF Taken, Where
    <3>2. ASSUME NEW k \in Q
          PROVE  g[k] \in R
      <4>1. k \in 1..Len(t) /\ t[k] \in UserLines
        BY <1>2 DEF Where
      <4>2. g[k] \in K /\ t[k] = s[g[k]]
        BY <2>1, <4>1 DEF Taken, Enumerates
      <4> QED
        BY <4>1, <4>2 DEF Where
    <3> QED
      BY <3>1, <3>2 DEF From
  <2>3. Q \in SUBSET DOMAIN t
    BY DEF Where
  <2> HIDE DEF t, K, R, Q
  <2> QED
    BY <1>1, <1>2, <2>1, <2>2, <2>3, TakenTwice
<1>4. LinesAt(o, W) = LinesAt(s, R)
  <2>1. PICK g : Taken(g, o, s, U)
    BY <1>2
  <2>2. From(g, W, R)
    <3>1. ASSUME NEW i \in R
          PROVE  \E k \in W : g[k] = i
      <4>1. PICK k \in 1..Len(o) : g[k] = i
        BY <2>1 DEF Taken, Enumerates
      <4> QED
        BY <1>2, <2>1, <4>1 DEF Taken, Where
    <3>2. ASSUME NEW k \in W
          PROVE  g[k] \in R
      <4>1. k \in 1..Len(o) /\ o[k] # l
        BY <1>2 DEF Where
      <4>2. g[k] \in U /\ o[k] = s[g[k]]
        BY <2>1, <4>1 DEF Taken, Enumerates
      <4> QED
        BY <4>1, <4>2 DEF Where
    <3> QED
      BY <3>1, <3>2 DEF From
  <2>3. W \in SUBSET DOMAIN o
    OBVIOUS
  <2> HIDE DEF o, U, R, W
  <2> QED
    BY <1>1, <1>2, <2>1, <2>2, <2>3, TakenTwice
<1>5. OwnLines(t) = LinesAt(t, Where(t, UserLines))
  BY DEF OwnLines
<1>6. Without(o, l) = LinesAt(o, DOMAIN o \ Where(o, {l}))
  BY DEF Without
<1> QED
  BY <1>3, <1>4, <1>5, <1>6

(* A line the user adds comes last of his. *)
LEMMA OwnLinesAppend ==
  ASSUME NEW S, NEW s \in Seq(S), NEW l \in S \cap UserLines
  PROVE  OwnLines(Append(s, l)) = Append(OwnLines(s), l)
<1> DEFINE t == Append(s, l)
           o == OwnLines(s)
           U == Where(s, UserLines)
           V == Where(t, UserLines)
<1>1. /\ t \in Seq(S) /\ Len(t) = Len(s) + 1 /\ Len(s) \in Nat
      /\ \A i \in 1..Len(s) : t[i] = s[i]
      /\ t[Len(s) + 1] = l
      /\ DOMAIN s = 1..Len(s) /\ DOMAIN t = 1..Len(s) + 1
  OBVIOUS
<1>2. V = U \cup {Len(s) + 1} /\ U \in SUBSET 1..Len(s) /\ V \in SUBSET DOMAIN t
  BY <1>1 DEF Where
<1>3. o \in Seq(S) /\ \E g : Taken(g, o, s, U)
  BY <1>1, <1>2, LinesAtTaken DEF OwnLines
<1> HIDE DEF o, U, V, t
<1>4. PICK g : Taken(g, o, s, U)
  BY <1>3
<1> DEFINE p == Append(o, l)
           f == [k \in 1..Len(p) |-> IF k <= Len(o) THEN g[k] ELSE Len(s) + 1]
<1>5. /\ p \in Seq(S) /\ Len(p) = Len(o) + 1 /\ Len(o) \in Nat
      /\ \A k \in 1..Len(o) : p[k] = o[k]
      /\ p[Len(o) + 1] = l
  BY <1>3
<1>6. /\ g \in [1..Len(o) -> U]
      /\ \A i, j \in 1..Len(o) : i < j => g[i] < g[j]
      /\ \A i \in U : \E k \in 1..Len(o) : g[k] = i
      /\ \A k \in 1..Len(o) : o[k] = s[g[k]]
  BY <1>4 DEF Taken, Enumerates
<1>7. /\ \A k \in 1..Len(o) : f[k] = g[k] /\ g[k] \in 1..Len(s)
      /\ f[Len(o) + 1] = Len(s) + 1
  <2>1. \A k \in 1..Len(o) : k \in 1..Len(p) /\ k <= Len(o)
    BY <1>5
  <2>2. Len(o) + 1 \in 1..Len(p) /\ ~(Len(o) + 1 <= Len(o))
    BY <1>5
  <2>3. \A k \in 1..Len(o) : g[k] \in 1..Len(s)
    BY <1>2, <1>6
  <2> HIDE DEF p
  <2> QED
    BY <2>1, <2>2, <2>3
<1>8. f \in [1..Len(p) -> V]
  BY <1>2, <1>5, <1>6
<1> HIDE DEF f, p
<1>9. /\ \A i, j \in 1..Len(p) : i < j => f[i] < f[j]
      /\ \A i \in V : \E k \in 1..Len(p) : f[k] = i
  <2>1. ASSUME NEW i \in 1..Len(p), NEW j \in 1..Len(p), i < j
        PROVE  f[i] < f[j]
    <3>1. i \in 1..Len(o) /\ f[i] = g[i] /\ g[i] \in 1..Len(s)
      BY <1>5, <1>7, <2>1
    <3>2. CASE j \in 1..Len(o)
      BY <1>6, <1>7, <2>1, <3>1, <3>2
    <3>3. CASE j = Len(o) + 1
      BY <1>1, <1>7, <3>1, <3>3
    <3> QED
      BY <1>5, <3>2, <3>3
  <2>2. ASSUME NEW i \in V
        PROVE  \E k \in 1..Len(p) : f[k] = i
    <3>1. CASE i \in U
      BY <1>5, <1>6, <1>7, <3>1
    <3>2. CASE i = Len(s) + 1
      BY <1>5, <1>7, <3>2
    <3> QED
      BY <1>2, <3>1, <3>2
  <2> QED
    BY <2>1, <2>2
<1>10. \A k \in 1..Len(p) : p[k] = t[f[k]]
  BY <1>1, <1>5, <1>6, <1>7
<1>11. Taken(f, p, t, V)
  BY <1>8, <1>9, <1>10 DEF Taken, Enumerates
<1>12. p = LinesAt(t, V)
  BY <1>1, <1>2, <1>5, <1>11, TakenIs
<1> QED
  BY <1>12 DEF OwnLines, p, o, t, V

-----------------------------------------------------------------------------
(* The redirect block *)

(* The first n lines of the block begin at line p; the others are none of it. *)
BlockAt(s, p, n) ==
  /\ p + n - 1 <= Len(s)
  /\ \A j \in 1..n : s[p + j - 1] = BlockLines[j]
  /\ \A i \in 1..Len(s) : i < p \/ p + n <= i => s[i] \in UserLines \cup {Blank, Garbled}

(* A file has at most one block, which may be cut short. *)
Shaped(s) ==
  s \in Seq(Lines) /\ \E p \in 1..Len(s) + 1, n \in 0..Len(BlockLines) : BlockAt(s, p, n)

(* Its block is whole. *)
Fresh(s) == s \in Seq(Lines) /\ \E p \in 1..Len(s) : BlockAt(s, p, Len(BlockLines))

LEMMA LinesApart ==
  /\ Begin # End /\ Begin # Blank /\ End # Blank
  /\ Hosts \in Seq(Redirects)
  /\ Len(Hosts) \in Nat
  /\ \A j \in 1..Len(Hosts) : Hosts[j] \in Redirects
  /\ \A r \in Redirects : \E j \in 1..Len(Hosts) : Hosts[j] = r
  /\ \A i, j \in 1..Len(Hosts) : Hosts[i] = Hosts[j] => i = j
  /\ \A r \in Redirects : r \notin UserLines /\ r # Begin /\ r # End /\ r # Blank /\ r # Garbled
  /\ \A l \in UserLines : l # Begin /\ l # End /\ l # Blank /\ l # Garbled
  /\ Garbled # Begin /\ Garbled # End
<1>1. Hosts \in Seq(Redirects) /\ Len(Hosts) \in Nat /\ DOMAIN Hosts = 1..Len(Hosts)
  BY HostsAssumption
<1>2. \A i, j \in 1..Len(Hosts) : Hosts[i] = Hosts[j] => i = j
  BY <1>1, HostsAssumption DEF IsInjective
<1>3. \A j \in 1..Len(Hosts) : Hosts[j] \in Redirects
  BY <1>1
<1>4. \A r \in Redirects : \E j \in 1..Len(Hosts) : Hosts[j] = r
  BY <1>1 DEF Redirects, ToSet
<1>5. Begin # End /\ Begin # Blank /\ End # Blank /\ Garbled # Begin /\ Garbled # End
  BY DEF Begin, End, Blank, Garbled
<1>6. /\ \A r \in Redirects : r \notin UserLines /\ r # Begin /\ r # End /\ r # Blank /\ r # Garbled
      /\ \A l \in UserLines : l # Begin /\ l # End /\ l # Blank /\ l # Garbled
  BY HostsAssumption
<1> QED
  BY <1>1, <1>2, <1>3, <1>4, <1>5, <1>6

LEMMA BlockLinesAre ==
  /\ BlockLines \in Seq(Redirects \cup {Begin, End})
  /\ Len(BlockLines) = Len(Hosts) + 2
  /\ BlockLines[1] = Begin
  /\ BlockLines[Len(Hosts) + 2] = End
  /\ \A j \in 2..Len(Hosts) + 1 : BlockLines[j] = Hosts[j - 1] /\ BlockLines[j] \in Redirects
<1> DEFINE S == Redirects \cup {Begin, End}
           b == <<Begin>>
           e == <<End>>
           n == Len(Hosts)
<1>1. Hosts \in Seq(S) /\ b \in Seq(S) /\ e \in Seq(S) /\ n \in Nat
  BY LinesApart, SeqMonotonic
<1>2. Len(b) = 1 /\ Len(e) = 1 /\ b[1] = Begin /\ e[1] = End
  OBVIOUS
<1> HIDE DEF b, e, S
<1>3. /\ b \o Hosts \in Seq(S) /\ Len(b \o Hosts) = Len(b) + Len(Hosts)
      /\ \A i \in 1..Len(b) + Len(Hosts) :
           (b \o Hosts)[i] = IF i <= Len(b) THEN b[i] ELSE Hosts[i - Len(b)]
  BY <1>1, ConcatProperties
<1> DEFINE c == b \o Hosts
<1> HIDE DEF c, n
<1>4. /\ c \in Seq(S) /\ Len(c) = 1 + n /\ c[1] = Begin
      /\ \A j \in 2..1 + n : c[j] = Hosts[j - 1]
  <2>1. \A i \in 1..1 + n : c[i] = IF i <= 1 THEN b[i] ELSE Hosts[i - 1]
    BY <1>2, <1>3 DEF c, n
  <2> QED
    BY <1>1, <1>2, <1>3, <2>1 DEF c, n
<1>5. /\ c \o e \in Seq(S) /\ Len(c \o e) = n + 2
      /\ \A i \in 1..n + 2 : (c \o e)[i] = IF i <= n + 1 THEN c[i] ELSE e[i - (n + 1)]
  <2>1. /\ c \o e \in Seq(S) /\ Len(c \o e) = Len(c) + Len(e)
        /\ \A i \in 1..Len(c) + Len(e) : (c \o e)[i] = IF i <= Len(c) THEN c[i] ELSE e[i - Len(c)]
    BY <1>1, <1>4, ConcatProperties
  <2>2. Len(c) + Len(e) = n + 2 /\ Len(c) = n + 1
    BY <1>1, <1>2, <1>4
  <2> QED
    BY <2>1, <2>2
<1>6. (c \o e)[1] = Begin /\ (c \o e)[n + 2] = End
  BY <1>1, <1>2, <1>4, <1>5
<1>7. \A j \in 2..n + 1 : (c \o e)[j] = Hosts[j - 1] /\ Hosts[j - 1] \in Redirects
  <2>1. \A j \in 2..n + 1 : j \in 1..n + 2 /\ j <= n + 1 /\ j \in 2..1 + n /\ j - 1 \in 1..n
    BY <1>1
  <2> QED
    BY <1>4, <1>5, <2>1, LinesApart DEF n
<1>8. BlockLines = c \o e
  BY DEF BlockLines, c, b, e
<1> QED
  BY <1>5, <1>6, <1>7, <1>8 DEF S, n

(* What the lines of a file with a block are. *)
LEMMA ShapedLines ==
  ASSUME NEW s \in Seq(Lines), NEW p \in Nat \ {0}, NEW n \in 0..Len(BlockLines), BlockAt(s, p, n)
  PROVE  /\ \A i \in 1..Len(s) : i < p \/ p + n <= i => s[i] \in UserLines \cup {Blank, Garbled}
         /\ n > 0 => p \in 1..Len(s) /\ s[p] = Begin
         /\ \A i \in 1..Len(s) : s[i] = Begin => i = p /\ n > 0
         /\ \A i \in 1..Len(s) : s[i] = End => n = Len(BlockLines) /\ i = p + n - 1
         /\ \A i \in 1..Len(s) : s[i] \in Redirects => p < i /\ i < p + n
         /\ n = Len(BlockLines) => s[p + n - 1] = End /\ p + n - 1 \in 1..Len(s)
<1> DEFINE h == Len(Hosts)
<1>0. Len(s) \in Nat /\ h \in Nat /\ Len(BlockLines) = h + 2 /\ p \in Nat /\ p > 0 /\ n \in Nat
  BY LinesApart, BlockLinesAre
<1> HIDE DEF h
<1>1. /\ p + n - 1 <= Len(s)
      /\ \A i \in 1..Len(s) : i < p \/ p + n <= i => s[i] \in UserLines \cup {Blank, Garbled}
  BY DEF BlockAt
<1>2. ASSUME NEW i \in 1..Len(s), p <= i, i < p + n
      PROVE  i - p + 1 \in 1..n /\ s[i] = BlockLines[i - p + 1]
  <2>1. i - p + 1 \in 1..n /\ p + (i - p + 1) - 1 = i
    BY <1>0, <1>2
  <2> QED
    BY <2>1 DEF BlockAt
<1>3. ASSUME NEW j \in 1..n
      PROVE  /\ BlockLines[j] = Begin => j = 1
             /\ BlockLines[j] = End => j = h + 2
             /\ BlockLines[j] \in Redirects => j \in 2..h + 1
  <2>1. j = 1 \/ j = h + 2 \/ j \in 2..h + 1
    BY <1>0
  <2> QED
    BY <1>0, <2>1, LinesApart, BlockLinesAre DEF h
<1>4. ASSUME NEW i \in 1..Len(s), s[i] \in {Begin, End} \cup Redirects
      PROVE  p <= i /\ i < p + n
  <2>1. s[i] \notin UserLines \cup {Blank, Garbled}
    BY <1>4, LinesApart
  <2> QED
    BY <1>0, <1>1, <2>1
<1>5. n > 0 => p \in 1..Len(s) /\ s[p] = Begin
  <2>1. SUFFICES ASSUME n > 0 PROVE p \in 1..Len(s) /\ s[p] = Begin
    OBVIOUS
  <2>2. p \in 1..Len(s) /\ p - p + 1 = 1
    BY <1>0, <1>1, <2>1
  <2> QED
    BY <1>0, <1>2, <2>1, <2>2, BlockLinesAre
<1>6. \A i \in 1..Len(s) : s[i] = Begin => i = p /\ n > 0
  BY <1>0, <1>2, <1>3, <1>4
<1>7. \A i \in 1..Len(s) : s[i] = End => n = Len(BlockLines) /\ i = p + n - 1
  BY <1>0, <1>2, <1>3, <1>4
<1>8. \A i \in 1..Len(s) : s[i] \in Redirects => p < i /\ i < p + n
  BY <1>0, <1>2, <1>3, <1>4
<1>9. n = Len(BlockLines) => s[p + n - 1] = End /\ p + n - 1 \in 1..Len(s)
  <2>1. SUFFICES ASSUME n = h + 2 PROVE s[p + n - 1] = End /\ p + n - 1 \in 1..Len(s)
    BY <1>0
  <2>2. n \in 1..n /\ p + n - 1 \in 1..Len(s)
    BY <1>0, <1>1, <2>1
  <2>3. s[p + n - 1] = BlockLines[n]
    BY <2>2 DEF BlockAt
  <2> QED
    BY <2>1, <2>2, <2>3, BlockLinesAre DEF h
<1> QED
  BY <1>1, <1>5, <1>6, <1>7, <1>8, <1>9

(* Nothing of a block is left outside it. *)
LEMMA StripsTheBlock ==
  ASSUME NEW s, Shaped(s)
  PROVE  \A i \in StripBlock(s) : i \in 1..Len(s) /\ s[i] \in UserLines \cup {Blank, Garbled}
<1>1. s \in Seq(Lines) /\ Len(s) \in Nat /\ DOMAIN s = 1..Len(s)
  BY DEF Shaped
<1>2. PICK p \in 1..Len(s) + 1, n \in 0..Len(BlockLines) : BlockAt(s, p, n)
  BY DEF Shaped
<1>3. p \in Nat \ {0} /\ n \in Nat
  BY <1>1, LinesApart, BlockLinesAre
<1>4. SUFFICES ASSUME NEW i \in 1..Len(s), p <= i, i < p + n, ~InBlock(s, i), s[i] \notin {Begin, End}
               PROVE  FALSE
  BY <1>1, <1>2, <1>3, ShapedLines DEF StripBlock
<1>5. n > 0 /\ p \in 1..i /\ s[p] = Begin
  BY <1>1, <1>2, <1>3, <1>4, ShapedLines
<1>6. \A k \in p..i : s[k] # End
  BY <1>1, <1>2, <1>3, <1>4, ShapedLines
<1> QED
  BY <1>4, <1>5, <1>6 DEF InBlock

(* The user's lines are outside a block that is closed. *)
LEMMA OwnLinesAreOutside ==
  ASSUME NEW s, Shaped(s), ~Unclosed(s)
  PROVE  Where(s, UserLines) \subseteq TrimBlank(s)
<1>1. s \in Seq(Lines) /\ Len(s) \in Nat /\ DOMAIN s = 1..Len(s)
  BY DEF Shaped
<1>2. PICK p \in 1..Len(s) + 1, n \in 0..Len(BlockLines) : BlockAt(s, p, n)
  BY DEF Shaped
<1>3. p \in Nat \ {0} /\ n \in Nat
  BY <1>1, LinesApart, BlockLinesAre
<1>4. SUFFICES ASSUME NEW i \in 1..Len(s), s[i] \in UserLines
               PROVE  i \in StripBlock(s) /\ s[i] # Blank
  BY <1>1 DEF Where, TrimBlank
<1>5. s[i] \notin {Begin, End, Blank}
  BY <1>4, LinesApart
<1>6. SUFFICES ASSUME InBlock(s, i) PROVE FALSE
  BY <1>1, <1>5 DEF StripBlock
<1>7. PICK b \in 1..i : s[b] = Begin /\ \A k \in b..i : s[k] # End
  BY <1>6 DEF InBlock
<1>8. b = p /\ n > 0
  BY <1>1, <1>2, <1>3, <1>7, ShapedLines
<1>9. ~(i < p + n)
  <2>1. SUFFICES ASSUME i < p + n PROVE FALSE
    OBVIOUS
  <2>2. i - p + 1 \in 1..n /\ p + (i - p + 1) - 1 = i
    BY <1>3, <1>7, <1>8, <2>1
  <2>3. s[i] = BlockLines[i - p + 1] /\ i - p + 1 \in 1..Len(BlockLines)
    BY <1>2, <1>3, <2>2 DEF BlockAt
  <2>4. s[i] \in Redirects \cup {Begin, End}
    BY <2>3, BlockLinesAre
  <2> QED
    BY <1>4, <2>4, LinesApart
<1>10. n # Len(BlockLines)
  BY <1>1, <1>2, <1>3, <1>7, <1>8, <1>9, ShapedLines
<1>11. \A k \in 1..Len(s) : s[k] # End
  BY <1>2, <1>3, <1>10, <1>1, ShapedLines
<1>12. InBlock(s, Len(s))
  BY <1>1, <1>7, <1>11 DEF InBlock
<1> QED
  BY <1>12 DEF Unclosed

-----------------------------------------------------------------------------
(* What Add and Remove write *)

Plain == UserLines \cup {Blank, Garbled}

LEMMA PlainShaped ==
  ASSUME NEW s \in Seq(Plain)
  PROVE  s \in Seq(Lines) /\ Shaped(s) /\ ~Redirected(s)
<1>1. s \in Seq(Lines)
  BY SeqMonotonic DEF Plain, Lines
<1>2. Len(s) \in Nat /\ \A i \in 1..Len(s) : s[i] \in Plain
  OBVIOUS
<1>3. Shaped(s)
  <2>1. 1 \in 1..Len(s) + 1 /\ 0 \in 0..Len(BlockLines) /\ 1 + 0 - 1 <= Len(s)
    BY <1>2, LinesApart, BlockLinesAre
  <2>2. BlockAt(s, 1, 0)
    BY <1>2, <2>1 DEF BlockAt, Plain
  <2> QED
    BY <1>1, <2>1, <2>2 DEF Shaped
<1>4. ~Redirected(s)
  <2>1. \A l \in ToSet(s) : l \in Plain
    BY <1>2 DEF ToSet
  <2> QED
    BY <2>1, LinesApart DEF Redirected, Plain
<1> QED
  BY <1>1, <1>3, <1>4

LEMMA OwnLinesInFront ==
  ASSUME NEW u \in Seq(Lines), NEW b \in Seq(Lines \ UserLines)
  PROVE  OwnLines(u \o b) = OwnLines(u)
<1> DEFINE t == u \o b
<1>1. b \in Seq(Lines)
  BY SeqMonotonic
<1>2. /\ t \in Seq(Lines) /\ Len(t) = Len(u) + Len(b)
      /\ \A i \in 1..Len(u) + Len(b) : t[i] = IF i <= Len(u) THEN u[i] ELSE b[i - Len(u)]
  BY <1>1, ConcatProperties
<1> HIDE DEF t
<1>3. Len(u) \in Nat /\ Len(b) \in Nat /\ DOMAIN t = 1..Len(t)
  BY <1>1, <1>2
<1>4. Len(u) <= Len(t) /\ \A k \in 1..Len(u) : u[k] = t[k]
  BY <1>2, <1>3
<1>5. 1..Len(u) \subseteq DOMAIN t
  BY <1>3, <1>4
<1>6. Taken([k \in 1..Len(u) |-> k], u, t, 1..Len(u))
  BY <1>2, <1>4, FrontTaken
<1>7. ASSUME NEW i \in Where(t, UserLines)
      PROVE  i \in 1..Len(u)
  <2>1. i \in 1..Len(u) + Len(b) /\ t[i] \in UserLines
    BY <1>2, <1>3, <1>7 DEF Where
  <2>2. SUFFICES ASSUME ~(i <= Len(u)) PROVE FALSE
    BY <1>3, <2>1
  <2>3. i - Len(u) \in 1..Len(b) /\ t[i] = b[i - Len(u)]
    BY <1>2, <1>3, <2>1, <2>2
  <2> QED
    BY <2>1, <2>3
<1>8. Where(t, UserLines) \subseteq 1..Len(u)
  BY <1>7
<1>9. OwnLines(u) = OwnLines(t)
  BY <1>2, <1>5, <1>6, <1>8, OwnLinesTaken
<1> QED
  BY <1>9 DEF t

(* Lines of the user, all of his that no block hides, and the block. *)
LEMMA RenderIs ==
  ASSUME NEW s, Shaped(s), NEW block \in Seq(Lines \ UserLines)
  PROVE  \E front \in Seq(Plain) :
           /\ Render(s, block) = front \o block
           /\ ~Unclosed(s) => OwnLines(front \o block) = OwnLines(s)
<1> DEFINE P == TrimBlank(s)
           kept == LinesAt(s, P)
<1>1. s \in Seq(Lines) /\ DOMAIN s = 1..Len(s)
  BY DEF Shaped
<1>2. P \in SUBSET DOMAIN s /\ \A i \in P : s[i] \in Plain
  BY <1>1, StripsTheBlock DEF TrimBlank, Plain
<1>3. kept \in Seq(Lines) /\ \E g : Taken(g, kept, s, P)
  BY <1>1, <1>2, LinesAtTaken
<1>4. Render(s, block) = IF kept = <<>> \/ block = <<>> THEN kept \o block ELSE kept \o <<Blank>> \o block
  BY DEF Render
<1> HIDE DEF kept, P
<1>5. PICK g : Taken(g, kept, s, P)
  BY <1>3
<1>6. kept \in Seq(Plain)
  <2>1. Len(kept) \in Nat /\ kept \in [1..Len(kept) -> Lines]
    BY <1>3
  <2>2. \A k \in 1..Len(kept) : kept[k] \in Plain
    BY <1>2, <1>5 DEF Taken, Enumerates
  <2>3. kept \in [1..Len(kept) -> Plain]
    BY <2>1, <2>2
  <2> QED
    BY <2>1, <2>3, SeqDef
<1>7. ~Unclosed(s) => OwnLines(kept) = OwnLines(s)
  BY <1>1, <1>2, <1>3, <1>5, OwnLinesAreOutside, OwnLinesTaken DEF P
<1>8. CASE kept = <<>> \/ block = <<>>
  <2>1. OwnLines(kept \o block) = OwnLines(kept)
    BY <1>3, OwnLinesInFront
  <2> QED
    BY <1>4, <1>6, <1>7, <1>8, <2>1
<1>9. CASE ~(kept = <<>> \/ block = <<>>)
  <2> DEFINE blank == <<Blank>>
             front == kept \o blank
  <2>1. blank \in Seq(Lines \ UserLines) /\ blank \in Seq(Plain)
    BY LinesApart DEF Plain, Lines
  <2> HIDE DEF blank
  <2>2. front \in Seq(Plain) /\ OwnLines(front) = OwnLines(kept)
    BY <1>3, <1>6, <2>1, ConcatProperties, OwnLinesInFront
  <2> HIDE DEF front
  <2>3. OwnLines(front \o block) = OwnLines(front)
    BY <2>2, PlainShaped, OwnLinesInFront
  <2>4. Render(s, block) = front \o block
    BY <1>4, <1>9 DEF front, blank
  <2> QED
    BY <1>7, <2>2, <2>3, <2>4
<1> QED
  BY <1>8, <1>9

LEMMA BlockIsNotTheUsers ==
  BlockLines \in Seq(Lines \ UserLines) /\ <<>> \in Seq(Lines \ UserLines)
<1>1. Redirects \cup {Begin, End} \subseteq Lines \ UserLines
  BY LinesApart DEF Lines
<1> QED
  BY <1>1, BlockLinesAre, SeqMonotonic, EmptySeq

LEMMA RemovedIsPlain ==
  ASSUME NEW s, Shaped(s)
  PROVE  Render(s, <<>>) \in Seq(Plain)
<1>1. PICK front \in Seq(Plain) : Render(s, <<>>) = front \o <<>>
  BY RenderIs, BlockIsNotTheUsers
<1> QED
  BY <1>1, ConcatEmptySeq

LEMMA AddedIsFresh ==
  ASSUME NEW s, Shaped(s)
  PROVE  Fresh(Render(s, BlockLines))
<1> DEFINE b == BlockLines
           t == Render(s, b)
<1>1. PICK front \in Seq(Plain) : t = front \o b
  BY RenderIs, BlockIsNotTheUsers
<1>2. front \in Seq(Lines) /\ b \in Seq(Lines) /\ Len(front) \in Nat /\ Len(b) \in Nat /\ Len(b) > 0
  BY PlainShaped, BlockIsNotTheUsers, SeqMonotonic, BlockLinesAre, LinesApart
<1> HIDE DEF b, t
<1>3. /\ t \in Seq(Lines) /\ Len(t) = Len(front) + Len(b)
      /\ \A i \in 1..Len(front) + Len(b) : t[i] = IF i <= Len(front) THEN front[i] ELSE b[i - Len(front)]
  BY <1>1, <1>2, ConcatProperties
<1> DEFINE p == Len(front) + 1
<1>4. p \in 1..Len(t) /\ p + Len(b) - 1 <= Len(t)
  BY <1>2, <1>3
<1>5. \A j \in 1..Len(b) : t[p + j - 1] = b[j]
  <2>1. ASSUME NEW j \in 1..Len(b)
        PROVE  t[p + j - 1] = b[j]
    <3>1. /\ p + j - 1 \in 1..Len(front) + Len(b) /\ ~(p + j - 1 <= Len(front))
          /\ (p + j - 1) - Len(front) = j
      BY <1>2
    <3> QED
      BY <1>3, <3>1
  <2> QED
    BY <2>1
<1>6. \A i \in 1..Len(t) : i < p \/ p + Len(b) <= i => t[i] \in Plain
  <2>1. ASSUME NEW i \in 1..Len(t), i < p \/ p + Len(b) <= i
        PROVE  t[i] \in Plain
    <3>1. i \in 1..Len(front) + Len(b) /\ i <= Len(front) /\ i \in 1..Len(front)
      BY <1>2, <1>3, <2>1
    <3>2. t[i] = front[i] /\ front[i] \in Plain
      BY <1>3, <3>1
    <3> QED
      BY <3>2
  <2> QED
    BY <2>1
<1> HIDE DEF p
<1>7. BlockAt(t, p, Len(b))
  BY <1>4, <1>5, <1>6 DEF BlockAt, b, Plain
<1> QED
  BY <1>3, <1>4, <1>7 DEF Fresh, b, t

LEMMA FreshIsShaped ==
  ASSUME NEW s, Fresh(s)
  PROVE  Shaped(s)
<1>1. s \in Seq(Lines) /\ Len(s) \in Nat /\ Len(BlockLines) \in 0..Len(BlockLines)
  BY BlockLinesAre, LinesApart DEF Fresh
<1>2. PICK p \in 1..Len(s) : BlockAt(s, p, Len(BlockLines))
  BY DEF Fresh
<1>3. p \in 1..Len(s) + 1
  BY <1>1
<1> QED
  BY <1>1, <1>2, <1>3 DEF Shaped

LEMMA RenderShaped ==
  ASSUME NEW s, Shaped(s)
  PROVE  Shaped(Render(s, BlockLines)) /\ Shaped(Render(s, <<>>)) /\ ~Redirected(Render(s, <<>>))
  BY AddedIsFresh, FreshIsShaped, RemovedIsPlain, PlainShaped

LEMMA RenderKeepsOwnLines ==
  ASSUME NEW s, Shaped(s), ~Unclosed(s)
  PROVE  /\ OwnLines(Render(s, BlockLines)) = OwnLines(s)
         /\ OwnLines(Render(s, <<>>)) = OwnLines(s)
  BY RenderIs, BlockIsNotTheUsers

-----------------------------------------------------------------------------
(* What the uninstaller writes *)

LEMMA EncodedIs ==
  ASSUME NEW s \in Seq(Plain)
  PROVE  Encoded(s) \in Seq(Plain) /\ OwnLines(Encoded(s)) = InAscii(OwnLines(s))
<1> DEFINE e == Encoded(s)
           o == OwnLines(s)
           U == Where(s, UserLines)
           V == Where(e, UserLines)
           W == DOMAIN o \ Where(o, NonAscii)
<1>1. s \in Seq(Lines) /\ Len(s) \in Nat /\ DOMAIN s = 1..Len(s) /\ \A i \in 1..Len(s) : s[i] \in Plain
  BY PlainShaped
<1>2. e = [k \in 1..Len(s) |-> IF s[k] \in NonAscii THEN Garbled ELSE s[k]]
  BY <1>1 DEF Encoded
<1>3. e \in Seq(Plain) /\ Len(e) = Len(s) /\ DOMAIN e = 1..Len(s)
  <2> HIDE DEF e
  <2>1. \A k \in 1..Len(s) : e[k] \in Plain
    BY <1>1, <1>2 DEF Plain
  <2>2. e \in [1..Len(s) -> Plain]
    BY <1>2, <2>1
  <2> QED
    BY <1>1, <2>2, SeqDef
<1>4. \A i \in 1..Len(s) : i \in V <=> s[i] \in UserLines /\ s[i] \notin NonAscii
  <2> HIDE DEF e
  <2> QED
    BY <1>2, <1>3, LinesApart DEF Where
<1>5. V \in SUBSET DOMAIN s /\ \A i \in V : e[i] = s[i]
  <2>1. V \in SUBSET DOMAIN s
    BY <1>1, <1>3 DEF Where
  <2> HIDE DEF e, V
  <2> QED
    BY <1>1, <1>2, <1>4, <2>1
<1>6. o \in Seq(Lines) /\ \E g : Taken(g, o, s, U)
  <2>1. U \in SUBSET DOMAIN s
    BY DEF Where
  <2> HIDE DEF U
  <2>2. o = LinesAt(s, U)
    BY DEF OwnLines, U
  <2> QED
    BY <1>1, <2>1, <2>2, LinesAtTaken
<1>7. LinesAt(o, W) = LinesAt(s, V)
  <2>1. PICK g : Taken(g, o, s, U)
    BY <1>6
  <2>2. /\ Len(o) \in Nat /\ DOMAIN o = 1..Len(o)
        /\ \A k \in 1..Len(o) : g[k] \in U /\ o[k] = s[g[k]]
        /\ \A i \in U : \E k \in 1..Len(o) : g[k] = i
    BY <1>6, <2>1 DEF Taken, Enumerates
  <2>3. \A i \in U : i \in 1..Len(s) /\ s[i] \in UserLines
    BY <1>1 DEF Where
  <2>4. \A k \in 1..Len(o) : k \in W <=> o[k] \notin NonAscii
    BY <2>2 DEF Where
  <2>5. \A i \in V : i \in U
    BY <1>1, <1>4, <1>5 DEF Where
  <2> HIDE DEF o, U, V, W, e
  <2>6. W \in SUBSET DOMAIN o
    BY DEF W
  <2>7. From(g, W, V)
    <3>1. ASSUME NEW k \in W
          PROVE  g[k] \in V
      BY <1>4, <2>2, <2>3, <2>4, <2>6, <3>1
    <3>2. ASSUME NEW i \in V
          PROVE  \E k \in W : g[k] = i
      <4>1. PICK k \in 1..Len(o) : g[k] = i
        BY <2>2, <2>5
      <4>2. s[i] \notin NonAscii /\ o[k] = s[i]
        BY <1>1, <1>4, <1>5, <2>2, <4>1
      <4> QED
        BY <2>4, <4>1, <4>2
    <3> QED
      BY <3>1, <3>2 DEF From
  <2>8. U \in SUBSET DOMAIN s
    BY DEF U, Where
  <2> QED
    BY <1>1, <1>5, <1>6, <2>1, <2>6, <2>7, <2>8, TakenTwice
<1>8. LinesAt(e, V) = LinesAt(s, V)
  <2> HIDE DEF e, V
  <2>1. \A k \in 1..Cardinality(V) : Nth(V, k) \in V
    <3>1. Positions(V)
      BY <1>1, <1>5, PositionsOf
    <3>2. Enumerates([k \in 1..Cardinality(V) |-> Nth(V, k)], Cardinality(V), V)
      BY <3>1, NthEnumerates
    <3> QED
      BY <3>2 DEF Enumerates
  <2>2. \A k \in 1..Cardinality(V) : e[Nth(V, k)] = s[Nth(V, k)]
    BY <1>5, <2>1
  <2> QED
    BY <2>2 DEF LinesAt
<1>9. OwnLines(e) = LinesAt(e, V) /\ InAscii(o) = LinesAt(o, W)
  BY DEF OwnLines, InAscii
<1> QED
  BY <1>3, <1>7, <1>8, <1>9

(* The uninstaller leaves no redirect, and of the user's lines all those   *)
(* in ASCII that no unclosed block hides.                                  *)
LEMMA StrippedIs ==
  ASSUME NEW s, Shaped(s)
  PROVE  /\ Shaped(Stripped(s)) /\ ~Redirected(Stripped(s))
         /\ ~Unclosed(s) => OwnLines(Stripped(s)) = InAscii(OwnLines(s))
<1> DEFINE kept == Render(s, <<>>)
           left == IF kept = <<>> THEN <<Blank>> ELSE kept
<1>1. kept \in Seq(Plain) /\ (~Unclosed(s) => OwnLines(kept) = OwnLines(s))
  BY RemovedIsPlain, RenderKeepsOwnLines
<1>2. Stripped(s) = Encoded(left)
  BY DEF Stripped
<1> HIDE DEF kept
<1>3. left \in Seq(Plain) /\ OwnLines(left) = OwnLines(kept)
  <2>1. CASE kept = <<>>
    <3> DEFINE b == <<Blank>>
    <3>1. b \in Seq(Plain) /\ b \in Seq(Lines \ UserLines) /\ <<>> \in Seq(Lines)
      BY LinesApart DEF Plain, Lines
    <3> HIDE DEF b
    <3>2. OwnLines(<<>> \o b) = OwnLines(<<>>) /\ <<>> \o b = b
      BY <3>1, OwnLinesInFront, ConcatEmptySeq
    <3> QED
      BY <2>1, <3>1, <3>2 DEF b
  <2>2. CASE kept # <<>>
    BY <1>1, <2>2
  <2> QED
    BY <2>1, <2>2
<1> HIDE DEF left
<1>4. Encoded(left) \in Seq(Plain) /\ OwnLines(Encoded(left)) = InAscii(OwnLines(left))
  BY <1>3, EncodedIs
<1> QED
  BY <1>1, <1>2, <1>3, <1>4, PlainShaped

-----------------------------------------------------------------------------
(* Files that were cut short, and edited files *)

LEMMA CutShaped ==
  ASSUME NEW s, Shaped(s), NEW t \in CutShort(s)
  PROVE  Shaped(t) /\ (~Redirected(s) => ~Redirected(t))
<1>1. s \in Seq(Lines) /\ Len(s) \in Nat /\ \A i \in 1..Len(s) : s[i] \in Lines
  BY DEF Shaped
<1>2. PICK m \in 0..Len(s) - 1 : t = SubSeq(s, 1, m)
  BY DEF CutShort
<1>3. t \in Seq(Lines) /\ Len(t) = m /\ \A i \in 1..m : t[i] = s[i]
  <2>1. \A i \in 1..m : s[i] \in Lines
    BY <1>1, <1>2
  <2>2. 1 \in Int /\ m \in Int /\ m \in Nat
    BY <1>1, <1>2
  <2>3. /\ SubSeq(s, 1, m) \in Seq(Lines)
        /\ Len(SubSeq(s, 1, m)) = IF 1 <= m THEN m - 1 + 1 ELSE 0
        /\ \A i \in 1..m - 1 + 1 : SubSeq(s, 1, m)[i] = s[1 + i - 1]
    BY <2>1, <2>2, SubSeqProperties
  <2> QED
    BY <1>2, <2>2, <2>3
<1>4. m \in Nat /\ m < Len(s)
  BY <1>1, <1>2
<1>5. PICK p \in 1..Len(s) + 1, n \in 0..Len(BlockLines) : BlockAt(s, p, n)
  BY DEF Shaped
<1>6. p \in Nat /\ p > 0 /\ n \in Nat /\ Len(BlockLines) \in Nat
  BY <1>1, LinesApart, BlockLinesAre
<1>7. /\ \A j \in 1..n : s[p + j - 1] = BlockLines[j]
      /\ \A i \in 1..Len(s) : i < p \/ p + n <= i => s[i] \in UserLines \cup {Blank, Garbled}
  BY <1>5 DEF BlockAt
<1>8. ~Redirected(s) => ~Redirected(t)
  <2>1. ToSet(t) \subseteq ToSet(s)
    BY <1>1, <1>3, <1>4 DEF ToSet
  <2> QED
    BY <2>1 DEF Redirected
<1>9. CASE m < p
  <2>1. m + 1 \in 1..Len(t) + 1 /\ 0 \in 0..Len(BlockLines) /\ (m + 1) + 0 - 1 <= Len(t)
    BY <1>3, <1>4, <1>6
  <2>2. \A i \in 1..Len(t) : t[i] \in UserLines \cup {Blank, Garbled}
    <3>1. \A i \in 1..m : i \in 1..Len(s) /\ i < p
      BY <1>4, <1>6, <1>9
    <3> QED
      BY <1>3, <1>7, <3>1
  <2>3. BlockAt(t, m + 1, 0)
    BY <1>4, <2>1, <2>2 DEF BlockAt
  <2> QED
    BY <1>3, <1>8, <2>1, <2>3 DEF Shaped
<1>10. CASE p <= m
  <2> DEFINE k == IF m - p + 1 < n THEN m - p + 1 ELSE n
  <2>1. p \in 1..Len(t) + 1 /\ k \in 0..Len(BlockLines) /\ p + k - 1 <= Len(t) /\ k <= n
    BY <1>3, <1>4, <1>6, <1>10
  <2>2. \A j \in 1..k : t[p + j - 1] = BlockLines[j]
    <3>1. ASSUME NEW j \in 1..k
          PROVE  t[p + j - 1] = BlockLines[j]
      <4>1. j \in 1..n /\ p + j - 1 \in 1..m
        BY <1>4, <1>6, <1>10, <3>1
      <4> QED
        BY <1>3, <1>7, <4>1
    <3> QED
      BY <3>1
  <2>3. \A i \in 1..Len(t) : i < p \/ p + k <= i => t[i] \in UserLines \cup {Blank, Garbled}
    <3>1. ASSUME NEW i \in 1..Len(t), i < p \/ p + k <= i
          PROVE  t[i] \in UserLines \cup {Blank, Garbled}
      <4>1. i \in 1..m /\ i \in 1..Len(s) /\ (i < p \/ p + n <= i)
        BY <1>3, <1>4, <1>6, <1>10, <3>1
      <4> QED
        BY <1>3, <1>7, <4>1
    <3> QED
      BY <3>1
  <2> HIDE DEF k
  <2>4. BlockAt(t, p, k)
    BY <2>1, <2>2, <2>3 DEF BlockAt
  <2> QED
    BY <1>3, <1>8, <2>1, <2>4 DEF Shaped
<1> QED
  BY <1>4, <1>6, <1>9, <1>10

LEMMA AppendShaped ==
  ASSUME NEW s, NEW l \in UserLines
  PROVE  /\ Shaped(s) => Shaped(Append(s, l))
         /\ Fresh(s) => Fresh(Append(s, l))
         /\ s \in Seq(Lines) /\ ~Redirected(s) => ~Redirected(Append(s, l))
<1> DEFINE t == Append(s, l)
<1>1. SUFFICES ASSUME s \in Seq(Lines)
               PROVE  /\ Shaped(s) => Shaped(t)
                      /\ Fresh(s) => Fresh(t)
                      /\ ~Redirected(s) => ~Redirected(t)
  BY DEF Shaped, Fresh
<1>2. /\ t \in Seq(Lines) /\ Len(t) = Len(s) + 1 /\ Len(s) \in Nat
      /\ \A i \in 1..Len(s) : t[i] = s[i]
      /\ t[Len(s) + 1] = l
      /\ l \in Lines
  <2>1. l \in Lines
    BY DEF Lines
  <2> QED
    BY <1>1, <2>1
<1> HIDE DEF t
<1>3. ASSUME NEW p \in Nat \ {0}, NEW n \in Nat, BlockAt(s, p, n)
      PROVE  BlockAt(t, p, n)
  <2>1. /\ p + n - 1 <= Len(s)
        /\ \A j \in 1..n : s[p + j - 1] = BlockLines[j]
        /\ \A i \in 1..Len(s) : i < p \/ p + n <= i => s[i] \in UserLines \cup {Blank, Garbled}
    BY <1>3 DEF BlockAt
  <2>2. p + n - 1 <= Len(t)
    BY <1>2, <2>1
  <2>3. \A j \in 1..n : p + j - 1 \in 1..Len(s)
    BY <1>2, <2>1
  <2>4. \A j \in 1..n : t[p + j - 1] = BlockLines[j]
    BY <1>2, <2>1, <2>3
  <2>5. \A i \in 1..Len(t) : i < p \/ p + n <= i => t[i] \in UserLines \cup {Blank, Garbled}
    BY <1>2, <2>1
  <2> QED
    BY <2>2, <2>4, <2>5 DEF BlockAt
<1>4. Shaped(s) => Shaped(t)
  <2>1. SUFFICES ASSUME NEW p \in 1..Len(s) + 1, NEW n \in 0..Len(BlockLines), BlockAt(s, p, n)
                 PROVE  Shaped(t)
    BY DEF Shaped
  <2>2. p \in Nat \ {0} /\ n \in Nat /\ p \in 1..Len(t) + 1
    BY <1>2, LinesApart, BlockLinesAre
  <2> QED
    BY <1>2, <1>3, <2>1, <2>2 DEF Shaped
<1>5. Fresh(s) => Fresh(t)
  <2>1. SUFFICES ASSUME NEW p \in 1..Len(s), BlockAt(s, p, Len(BlockLines))
                 PROVE  Fresh(t)
    BY DEF Fresh
  <2>2. p \in Nat \ {0} /\ Len(BlockLines) \in Nat /\ p \in 1..Len(t)
    BY <1>2, LinesApart, BlockLinesAre
  <2> QED
    BY <1>2, <1>3, <2>1, <2>2 DEF Fresh
<1>6. ~Redirected(s) => ~Redirected(t)
  <2>1. ToSet(t) \subseteq ToSet(s) \cup {l}
    BY <1>1, <1>2 DEF ToSet
  <2> QED
    BY <2>1, LinesApart DEF Redirected
<1> QED
  BY <1>4, <1>5, <1>6

Within(p, n, P) == \A j \in 1..n : p + j - 1 \in P

(* g has the n positions from p on at the indices from q on. *)
Shifts(g, q, p, n, indices) ==
  \A j \in 1..n : q + j - 1 \in indices /\ g[q + j - 1] = p + j - 1

(* Lines that stay and were next to each other still are. *)
LEMMA StayTogether ==
  ASSUME NEW S, NEW s \in Seq(S), NEW P \in SUBSET DOMAIN s, NEW t \in Seq(S), NEW g,
         Taken(g, t, s, P), NEW p \in Nat, NEW n \in Nat,
         Within(p, n, P),
         NEW q \in 1..Len(t), g[q] = p
  PROVE  Shifts(g, q, p, n, 1..Len(t))
<1>1. /\ Len(t) \in Nat /\ Len(s) \in Nat /\ DOMAIN s = 1..Len(s) /\ q \in Nat
      /\ \A k \in 1..Len(t) : g[k] \in P /\ g[k] \in Nat
      /\ \A i, j \in 1..Len(t) : i < j => g[i] < g[j]
      /\ \A i \in P : \E k \in 1..Len(t) : g[k] = i
  <2>1. Len(t) \in Nat /\ Len(s) \in Nat /\ DOMAIN s = 1..Len(s) /\ q \in Nat
    OBVIOUS
  <2>2. Enumerates(g, Len(t), P)
    BY DEF Taken
  <2> QED
    BY <2>1, <2>2 DEF Enumerates
<1> DEFINE Together(j) == q + j - 1 \in 1..Len(t) /\ g[q + j - 1] = p + j - 1
           Apart == {j \in 1..n : ~Together(j)}
<1>2. SUFFICES ASSUME Apart # {} PROVE FALSE
  BY DEF Shifts
<1>3. PICK j \in Apart : \A i \in Apart : j <= i
  <2>1. Apart \in SUBSET Nat
    OBVIOUS
  <2> HIDE DEF Apart
  <2> QED
    BY <1>2, <2>1, LeastPosition
<1>4. j \in 1..n /\ ~Together(j)
  BY <1>3
<1>5. j # 1
  <2>1. q + 1 - 1 = q /\ p + 1 - 1 = p
    BY <1>1
  <2> QED
    BY <1>4, <2>1
<1> DEFINE i == j - 1
<1>6. i \in 1..n /\ i < j /\ Together(i)
  <2>1. i \in 1..n /\ i < j
    BY <1>4, <1>5
  <2>2. i \notin Apart
    <3> HIDE DEF Apart, i
    <3> QED
      BY <1>3, <1>4, <2>1
  <2>3. Together(i)
    <3> HIDE DEF Together
    <3> QED
      BY <2>1, <2>2
  <2> QED
    BY <2>1, <2>3
<1>7. PICK k \in 1..Len(t) : g[k] = p + j - 1
  BY <1>1, <1>4 DEF Within
<1> DEFINE r == q + i - 1
<1>8. r \in 1..Len(t) /\ g[r] = p + j - 2
  BY <1>4, <1>6
<1>9. r < k
  <2>1. r \in Nat /\ k \in Nat /\ g[r] < g[k]
    BY <1>1, <1>4, <1>7, <1>8
  <2>2. ~(k < r) /\ k # r
    <3> HIDE DEF r
    <3>1. g[r] \in Nat /\ g[k] \in Nat
      BY <1>1, <1>8
    <3> QED
      BY <1>1, <1>8, <2>1, <3>1
  <2> QED
    BY <2>1, <2>2
<1>10. ~(r + 1 < k)
  <2>1. SUFFICES ASSUME r + 1 < k PROVE FALSE
    OBVIOUS
  <2>2. r + 1 \in 1..Len(t) /\ r < r + 1
    BY <1>8, <1>9, <2>1, <1>1
  <2>3. g[r] < g[r + 1] /\ g[r + 1] < g[k] /\ g[r + 1] \in Nat
    BY <1>1, <1>7, <1>8, <2>1, <2>2
  <2> HIDE DEF r
  <2> QED
    BY <1>1, <1>4, <1>7, <1>8, <2>3
<1>11. k = r + 1 /\ r + 1 = q + j - 1
  BY <1>1, <1>4, <1>8, <1>9, <1>10
<1> QED
  BY <1>4, <1>7, <1>11

LEMMA WithoutTaken ==
  ASSUME NEW s \in Seq(Lines), NEW l
  PROVE  /\ Without(s, l) \in Seq(Lines)
         /\ \E g : Taken(g, Without(s, l), s, DOMAIN s \ Where(s, {l}))
<1>1. DOMAIN s \ Where(s, {l}) \in SUBSET DOMAIN s
  OBVIOUS
<1> QED
  BY <1>1, LinesAtTaken DEF Without

(* To delete a line of the user moves the block, and leaves it whole. *)
LEMMA WithoutMovesBlock ==
  ASSUME NEW s \in Seq(Lines), NEW l \in UserLines,
         NEW p \in Nat \ {0}, NEW n \in Nat \ {0}, n <= Len(BlockLines), BlockAt(s, p, n)
  PROVE  \E q \in 1..Len(Without(s, l)) : BlockAt(Without(s, l), q, n)
<1> DEFINE t == Without(s, l)
           K == DOMAIN s \ Where(s, {l})
<1>1. t \in Seq(Lines) /\ \E g : Taken(g, t, s, K)
  BY WithoutTaken
<1>2. K \in SUBSET DOMAIN s /\ \A i \in DOMAIN s : s[i] # l => i \in K
  BY DEF Where
<1> HIDE DEF t, K
<1>3. PICK g : Taken(g, t, s, K)
  BY <1>1
<1>4. /\ Len(t) \in Nat /\ Len(s) \in Nat /\ DOMAIN s = 1..Len(s)
      /\ \A k \in 1..Len(t) : g[k] \in 1..Len(s) /\ t[k] = s[g[k]]
      /\ \A i, j \in 1..Len(t) : i < j => g[i] < g[j]
      /\ \A i \in K : \E k \in 1..Len(t) : g[k] = i
  <2>1. Len(t) \in Nat /\ Len(s) \in Nat /\ DOMAIN s = 1..Len(s)
    BY <1>1
  <2>2. Enumerates(g, Len(t), K) /\ \A k \in 1..Len(t) : t[k] = s[g[k]]
    BY <1>3 DEF Taken
  <2> QED
    BY <1>2, <2>1, <2>2 DEF Enumerates
<1>5. /\ p + n - 1 <= Len(s)
      /\ \A j \in 1..n : s[p + j - 1] = BlockLines[j]
      /\ \A i \in 1..Len(s) : i < p \/ p + n <= i => s[i] \in UserLines \cup {Blank, Garbled}
  BY DEF BlockAt
<1>6. \A j \in 1..n : p + j - 1 \in K
  <2>1. ASSUME NEW j \in 1..n
        PROVE  p + j - 1 \in K
    <3>1. p + j - 1 \in DOMAIN s /\ j \in 1..Len(BlockLines)
      BY <1>4, <1>5, LinesApart, BlockLinesAre
    <3>2. s[p + j - 1] \in Redirects \cup {Begin, End}
      BY <1>5, <3>1, BlockLinesAre
    <3>3. s[p + j - 1] # l
      BY <3>2, LinesApart
    <3> QED
      BY <1>2, <3>1, <3>3
  <2> QED
    BY <2>1
<1>7. p \in K
  <2>1. 1 \in 1..n /\ p + 1 - 1 = p
    OBVIOUS
  <2> QED
    BY <1>6, <2>1
<1>8. PICK q \in 1..Len(t) : g[q] = p
  BY <1>4, <1>7
<1>9. \A j \in 1..n : q + j - 1 \in 1..Len(t) /\ g[q + j - 1] = p + j - 1
  <2>1. p \in Nat /\ n \in Nat /\ Within(p, n, K)
    BY <1>6 DEF Within
  <2> QED
    <3>1. Shifts(g, q, p, n, 1..Len(t))
      BY <1>1, <1>2, <1>3, <1>8, <2>1, StayTogether
    <3> QED
      BY <3>1 DEF Shifts
<1>10. q + n - 1 \in 1..Len(t) /\ g[q + n - 1] = p + n - 1
  <2>1. n \in 1..n
    OBVIOUS
  <2> QED
    BY <1>9, <2>1
<1>11. \A j \in 1..n : t[q + j - 1] = BlockLines[j]
  BY <1>4, <1>5, <1>9
<1>12. \A i \in 1..Len(t) : i < q \/ q + n <= i => t[i] \in UserLines \cup {Blank, Garbled}
  <2>1. ASSUME NEW i \in 1..Len(t), i < q \/ q + n <= i
        PROVE  t[i] \in UserLines \cup {Blank, Garbled}
    <3>1. g[i] \in 1..Len(s) /\ t[i] = s[g[i]]
      BY <1>4
    <3>2. CASE i < q
      <4>1. g[i] < p
        BY <1>4, <1>8, <3>2
      <4> QED
        BY <1>5, <3>1, <4>1
    <3>3. CASE q + n <= i
      <4>1. q + n - 1 < i
        BY <1>4, <3>3
      <4>2. p + n - 1 < g[i]
        BY <1>4, <1>10, <4>1
      <4>3. p + n <= g[i]
        BY <3>1, <4>2
      <4> QED
        BY <1>5, <3>1, <4>3
    <3> QED
      BY <2>1, <3>2, <3>3
  <2> QED
    BY <2>1
<1>13. q + n - 1 <= Len(t)
  BY <1>4, <1>10
<1>14. BlockAt(t, q, n)
  BY <1>11, <1>12, <1>13 DEF BlockAt
<1> QED
  BY <1>14 DEF t

LEMMA WithoutShaped ==
  ASSUME NEW s, NEW l \in UserLines
  PROVE  /\ Shaped(s) => Shaped(Without(s, l))
         /\ Fresh(s) => Fresh(Without(s, l))
         /\ s \in Seq(Lines) /\ ~Redirected(s) => ~Redirected(Without(s, l))
<1> DEFINE t == Without(s, l)
           K == DOMAIN s \ Where(s, {l})
<1>1. SUFFICES ASSUME s \in Seq(Lines)
               PROVE  /\ Shaped(s) => Shaped(t)
                      /\ Fresh(s) => Fresh(t)
                      /\ ~Redirected(s) => ~Redirected(t)
  BY DEF Shaped, Fresh
<1>2. t \in Seq(Lines) /\ \E g : Taken(g, t, s, K)
  BY <1>1, WithoutTaken
<1>3. K \in SUBSET DOMAIN s
  OBVIOUS
<1> HIDE DEF K, t
<1>4. PICK g : Taken(g, t, s, K)
  BY <1>2
<1>5. /\ Len(t) \in Nat /\ Len(s) \in Nat /\ DOMAIN s = 1..Len(s) /\ DOMAIN t = 1..Len(t)
      /\ \A k \in 1..Len(t) : g[k] \in 1..Len(s) /\ t[k] = s[g[k]]
  BY <1>1, <1>2, <1>3, <1>4 DEF Taken, Enumerates
<1>6. ASSUME NEW p \in 1..Len(s) + 1, NEW n \in 0..Len(BlockLines), BlockAt(s, p, n)
      PROVE  Shaped(t)
  <2>1. p \in Nat \ {0} /\ n \in Nat /\ n <= Len(BlockLines) /\ Len(BlockLines) \in Nat
    BY <1>5, LinesApart, BlockLinesAre
  <2>2. CASE n = 0
    <3>1. \A i \in 1..Len(s) : s[i] \in Plain
      <4>1. \A i \in 1..Len(s) : i < p \/ p + n <= i
        BY <1>5, <2>1, <2>2
      <4> QED
        BY <1>6, <4>1 DEF BlockAt, Plain
    <3>2. \A k \in 1..Len(t) : t[k] \in Plain
      BY <1>5, <3>1
    <3>3. t \in Seq(Plain)
      BY <1>2, <1>5, <3>2, SeqDef
    <3> QED
      BY <3>3, PlainShaped
  <2>3. CASE n # 0
    <3>1. \E q \in 1..Len(t) : BlockAt(t, q, n)
      <4>1. n \in Nat \ {0}
        BY <2>1, <2>3
      <4> QED
        BY <1>1, <1>6, <2>1, <4>1, WithoutMovesBlock DEF t
    <3>2. PICK q \in 1..Len(t) : BlockAt(t, q, n)
      BY <3>1
    <3>3. q \in 1..Len(t) + 1
      BY <1>5
    <3> QED
      BY <1>2, <3>2, <3>3 DEF Shaped
  <2> QED
    BY <2>2, <2>3
<1>7. Shaped(s) => Shaped(t)
  BY <1>6 DEF Shaped
<1>8. Fresh(s) => Fresh(t)
  <2>1. SUFFICES ASSUME NEW p \in 1..Len(s), BlockAt(s, p, Len(BlockLines))
                 PROVE  Fresh(t)
    BY DEF Fresh
  <2>2. p \in Nat \ {0} /\ Len(BlockLines) \in Nat \ {0} /\ Len(BlockLines) <= Len(BlockLines)
    BY <1>5, LinesApart, BlockLinesAre
  <2>3. \E q \in 1..Len(t) : BlockAt(t, q, Len(BlockLines))
    BY <1>1, <2>1, <2>2, WithoutMovesBlock DEF t
  <2> QED
    BY <1>2, <2>3 DEF Fresh
<1>9. ~Redirected(s) => ~Redirected(t)
  <2>1. ToSet(t) \subseteq ToSet(s)
    BY <1>5 DEF ToSet
  <2> QED
    BY <2>1 DEF Redirected
<1> QED
  BY <1>7, <1>8, <1>9

(* No redirect without the marker that Remove and the uninstaller look for. *)
LEMMA RedirectedIsPresent ==
  ASSUME NEW s, Shaped(s), Redirected(s)
  PROVE  Present(s)
<1>1. s \in Seq(Lines) /\ Len(s) \in Nat /\ DOMAIN s = 1..Len(s)
  BY DEF Shaped
<1>2. PICK p \in 1..Len(s) + 1, n \in 0..Len(BlockLines) : BlockAt(s, p, n)
  BY DEF Shaped
<1>3. p \in Nat \ {0} /\ n \in Nat
  BY <1>1, LinesApart, BlockLinesAre
<1>4. PICK i \in 1..Len(s) : s[i] \in Redirects
  BY <1>1 DEF Redirected, ToSet
<1>5. n > 0
  BY <1>1, <1>2, <1>3, <1>4, ShapedLines
<1>6. p \in 1..Len(s) /\ s[p] = Begin
  BY <1>1, <1>2, <1>3, <1>5, ShapedLines
<1> QED
  BY <1>1, <1>6 DEF Present, ToSet

LEMMA FreshBlockIs ==
  ASSUME NEW s, Fresh(s)
  PROVE  /\ \A l \in {Begin, End} \cup Redirects : Cardinality(Where(s, {l})) = 1
         /\ \E i \in DOMAIN s : SubSeq(s, i, i + Len(Hosts) + 1) = BlockLines
<1> DEFINE n == Len(BlockLines)
<1>1. /\ s \in Seq(Lines) /\ Len(s) \in Nat /\ DOMAIN s = 1..Len(s)
      /\ n \in Nat /\ n = Len(Hosts) + 2 /\ Len(Hosts) \in Nat
      /\ \A i \in 1..Len(s) : s[i] \in Lines
  BY LinesApart, BlockLinesAre DEF Fresh
<1>2. PICK p \in 1..Len(s) : BlockAt(s, p, n)
  BY DEF Fresh
<1> HIDE DEF n
<1>3. p \in Nat \ {0} /\ n > 0 /\ n \in 0..n
  BY <1>1
<1>4. /\ p + n - 1 <= Len(s)
      /\ \A j \in 1..n : s[p + j - 1] = BlockLines[j]
      /\ \A i \in 1..Len(s) : i < p \/ p + n <= i => s[i] \in UserLines \cup {Blank, Garbled}
  BY <1>2 DEF BlockAt
<1>5. \A j \in 1..n : p + j - 1 \in 1..Len(s)
  BY <1>1, <1>3, <1>4
<1>6. \A i, j \in 1..n : BlockLines[i] = BlockLines[j] => i = j
  <2>1. ASSUME NEW i \in 1..n, NEW j \in 1..n, BlockLines[i] = BlockLines[j]
        PROVE  i = j
    <3>1. i = 1 \/ i = n \/ (i \in 2..Len(Hosts) + 1 /\ i - 1 \in 1..Len(Hosts))
      BY <1>1
    <3>2. j = 1 \/ j = n \/ (j \in 2..Len(Hosts) + 1 /\ j - 1 \in 1..Len(Hosts))
      BY <1>1
    <3>3. /\ BlockLines[1] = Begin /\ BlockLines[n] = End /\ Begin # End
          /\ \A k \in 2..Len(Hosts) + 1 : BlockLines[k] # Begin /\ BlockLines[k] # End
      BY <1>1, BlockLinesAre, LinesApart
    <3>4. CASE i \in 2..Len(Hosts) + 1 /\ j \in 2..Len(Hosts) + 1
      <4>1. Hosts[i - 1] = Hosts[j - 1]
        BY <2>1, <3>4, BlockLinesAre
      <4>2. i - 1 \in 1..Len(Hosts) /\ j - 1 \in 1..Len(Hosts)
        BY <1>1, <3>4
      <4>3. i - 1 = j - 1
        BY <4>1, <4>2, LinesApart
      <4> QED
        BY <4>3
    <3> QED
      BY <2>1, <3>1, <3>2, <3>3, <3>4
  <2> QED
    BY <2>1
<1>7. ASSUME NEW l \in {Begin, End} \cup Redirects
      PROVE  Cardinality(Where(s, {l})) = 1
  <2>1. PICK j \in 1..n : BlockLines[j] = l
    <3>1. CASE l = Begin
      BY <1>1, <3>1, BlockLinesAre
    <3>2. CASE l = End
      BY <1>1, <3>2, BlockLinesAre
    <3>3. CASE l \in Redirects
      <4>1. PICK k \in 1..Len(Hosts) : Hosts[k] = l
        BY <3>3, LinesApart
      <4>2. k + 1 \in 2..Len(Hosts) + 1 /\ k + 1 - 1 = k /\ k + 1 \in 1..n
        BY <1>1
      <4>3. BlockLines[k + 1] = l
        BY <4>1, <4>2, BlockLinesAre
      <4> QED
        BY <4>2, <4>3
    <3> QED
      BY <3>1, <3>2, <3>3
  <2> DEFINE i == p + j - 1
  <2>2. i \in 1..Len(s) /\ s[i] = l
    BY <1>4, <1>5, <2>1
  <2>3. ASSUME NEW m \in 1..Len(s), s[m] = l
        PROVE  m = i
    <3>1. s[m] \notin UserLines \cup {Blank, Garbled}
      BY <1>7, <2>3, LinesApart
    <3>2. p <= m /\ m < p + n
      BY <1>1, <1>3, <1>4, <3>1
    <3>3. m - p + 1 \in 1..n /\ p + (m - p + 1) - 1 = m
      BY <1>1, <1>3, <3>2
    <3>4. BlockLines[m - p + 1] = BlockLines[j]
      BY <1>4, <2>1, <2>3, <3>3
    <3>5. m - p + 1 = j
      BY <1>6, <3>3, <3>4
    <3> QED
      BY <1>3, <3>5
  <2> HIDE DEF i
  <2>4. Where(s, {l}) = {i}
    BY <1>1, <2>2, <2>3 DEF Where
  <2> QED
    BY <2>4, FS_Singleton
<1>8. SubSeq(s, p, p + Len(Hosts) + 1) = BlockLines
  <2> DEFINE m == p + Len(Hosts) + 1
             b == SubSeq(s, p, m)
  <2>1. m \in Int /\ p \in Int /\ m = p + n - 1 /\ p <= m /\ \A i \in p..m : s[i] \in Lines
    BY <1>1, <1>3, <1>4
  <2> HIDE DEF m
  <2>2. /\ b \in Seq(Lines) /\ Len(b) = m - p + 1
        /\ \A i \in 1..m - p + 1 : b[i] = s[p + i - 1]
    BY <2>1, SubSeqProperties
  <2> HIDE DEF b
  <2>3. m - p + 1 = n
    BY <1>1, <1>3, <2>1
  <2>4. BlockLines \in Seq(Lines)
    BY BlockIsNotTheUsers, SeqMonotonic
  <2>5. \A i \in 1..Len(b) : b[i] = BlockLines[i]
    BY <1>4, <2>2, <2>3
  <2>6. b = BlockLines
    BY <2>2, <2>3, <2>4, <2>5, SeqEqual DEF n
  <2> QED
    BY <2>6 DEF b, m
<1> QED
  BY <1>1, <1>7, <1>8

-----------------------------------------------------------------------------
(* The hosts file over the life of the process *)

FilesShaped == Shaped(file) /\ Shaped(read) /\ Shaped(toStrip)

(* Once written the block stays whole while the proxy serves. *)
ServingInv == phase \in {"run", "serving"} /\ uninstall # "done" => Fresh(file)

(* Before a start and behind the removal nothing redirects, or a write has *)
(* failed since.                                                           *)
RemovedInv ==
  phase \in {"down", "bound", "end", "wait", "drain"} /\ uninstall # "done" /\ Redirected(file) =>
    interrupted

(* What the uninstaller has stripped only an overtaken start puts back. *)
RestoredInv ==
  uninstall = "done" /\ ~overtaken =>
    phase \notin {"bound", "add"} /\ (~unstripped => ~Redirected(file))

FileInv == FilesShaped /\ ServingInv /\ RemovedInv /\ RestoredInv /\ UserLinesKept

LEMMA NothingIsPlain == <<>> \in Seq(Plain) /\ OwnLines(<<>>) = <<>>
<1>1. <<>> \in Seq(Plain)
  BY EmptySeq
<1>2. Where(<<>>, UserLines) = {}
  BY DEF Where
<1>3. OwnLines(<<>>) = <<>>
  BY <1>2, FS_EmptySet DEF OwnLines, LinesAt
<1> QED
  BY <1>1, <1>3

LEMMA FileInvInitially == Init => FileInv
<1> SUFFICES ASSUME Init PROVE FileInv
  OBVIOUS
<1>1. /\ phase = "down" /\ read = <<>> /\ toStrip = <<>> /\ file = mine /\ uninstall = "no"
      /\ file = <<>> \/ \E l \in UserLines : file = <<l>>
  BY DEF Init
<1>2. file \in Seq(Plain) /\ OwnLines(file) = file
  <2>1. CASE file = <<>>
    BY <2>1, NothingIsPlain
  <2>2. ASSUME NEW l \in UserLines, file = <<l>>
        PROVE  file \in Seq(Plain) /\ OwnLines(file) = file
    <3>1. file \in Seq(Plain) /\ file = Append(<<>>, l)
      BY <2>2 DEF Plain
    <3>2. l \in Lines \cap UserLines /\ <<>> \in Seq(Lines)
      BY EmptySeq DEF Lines
    <3> QED
      BY <3>1, <3>2, OwnLinesAppend, NothingIsPlain
  <2> QED
    BY <1>1, <2>1, <2>2
<1>3. Shaped(file) /\ Shaped(read) /\ Shaped(toStrip) /\ ~Redirected(file)
  BY <1>1, <1>2, NothingIsPlain, PlainShaped
<1> QED
  BY <1>1, <1>2, <1>3 DEF FileInv, FilesShaped, ServingInv, RemovedInv, RestoredInv, UserLinesKept

(* A completed write of what Add or Remove makes of what it has read. *)
LEMMA WroteKeeps ==
  ASSUME FileInv, phase \in {"add", "remove"}, NEW block \in {BlockLines, <<>>},
         Wrote(Render(read, block)), UNCHANGED toStrip
  PROVE  FilesShaped' /\ UserLinesKept' /\ file' = Render(read, block)
<1>1. Shaped(read) /\ Shaped(toStrip)
  BY DEF FileInv, FilesShaped
<1>2. file' = Render(read, block) /\ read' = <<>>
  BY DEF Wrote
<1>3. Shaped(file') /\ Shaped(read') /\ Shaped(toStrip')
  BY <1>1, <1>2, RenderShaped, NothingIsPlain, PlainShaped
<1>4. CASE Unreliable(read)
  BY <1>2, <1>3, <1>4 DEF Wrote, Resync, FilesShaped, UserLinesKept, FileInv
<1>5. CASE ~Unreliable(read)
  <2>1. OwnLines(read) = mine /\ ~Unclosed(read) /\ mine' = mine
    BY <1>5 DEF Unreliable, Wrote
  <2>2. OwnLines(Render(read, block)) = OwnLines(read)
    BY <1>1, <2>1, RenderKeepsOwnLines
  <2> QED
    BY <1>2, <1>3, <2>1, <2>2 DEF FilesShaped, UserLinesKept
<1> QED
  BY <1>4, <1>5

(* A write that fails, of whatever kind of file. *)
LEMMA PartLeft ==
  ASSUME FileInv, NEW content, Shaped(content), LeavesPartOf(content)
  PROVE  /\ Shaped(file') /\ UserLinesKept'
         /\ ~Redirected(content) /\ (file' # file \/ ~Redirected(file)) => ~Redirected(file')
<1>1. Shaped(file) /\ OwnLines(file) = mine /\ file' \in {file} \cup CutShort(content)
  BY DEF FileInv, FilesShaped, UserLinesKept, LeavesPartOf
<1>2. CASE file' = file
  BY <1>1, <1>2 DEF LeavesPartOf, UserLinesKept
<1>3. CASE file' # file
  BY <1>1, <1>3, CutShaped DEF LeavesPartOf, Resync, UserLinesKept
<1> QED
  BY <1>2, <1>3

(* A write that fails, or that a crash cuts short. *)
LEMMA FailedKeeps ==
  ASSUME FileInv, NEW block \in {BlockLines, <<>>}, WriteFailed(Render(read, block)), UNCHANGED toStrip
  PROVE  /\ FilesShaped' /\ UserLinesKept' /\ interrupted' = TRUE
         /\ block = <<>> /\ ~Redirected(file) => ~Redirected(file')
<1>1. Shaped(read) /\ Shaped(read') /\ Shaped(toStrip') /\ LeavesPartOf(Render(read, block)) /\ interrupted' = TRUE
  BY NothingIsPlain, PlainShaped DEF FileInv, FilesShaped, WriteFailed
<1>2. Shaped(Render(read, block)) /\ (block = <<>> => ~Redirected(Render(read, block)))
  BY <1>1, RenderShaped
<1> QED
  BY <1>1, <1>2, PartLeft DEF FilesShaped

LEMMA EditKeeps ==
  ASSUME FileInv, NEW l \in UserLines, AddLine(l) \/ DeleteLine(l)
  PROVE  FileInv'
<1>1. Shaped(read) /\ Shaped(file) /\ OwnLines(file) = mine /\ file \in Seq(Lines)
  BY DEF FileInv, FilesShaped, UserLinesKept, Shaped
<1>2. /\ Shaped(file') /\ OwnLines(file') = mine'
      /\ Fresh(file) => Fresh(file')
      /\ ~Redirected(file) => ~Redirected(file')
  <2>1. CASE AddLine(l)
    <3>1. file' = Append(file, l) /\ mine' = Append(mine, l)
      BY <2>1 DEF AddLine, Edit
    <3>2. l \in Lines \cap UserLines
      BY DEF Lines
    <3> QED
      BY <1>1, <3>1, <3>2, AppendShaped, OwnLinesAppend
  <2>2. CASE DeleteLine(l)
    <3>1. file' = Without(file, l) /\ mine' = Without(mine, l)
      BY <2>2 DEF DeleteLine, Edit
    <3> QED
      BY <1>1, <3>1, WithoutShaped, OwnLinesWithout
  <2> QED
    BY <2>1, <2>2
<1>3. UNCHANGED <<phase, read, interrupted, uninstall, toStrip, overtaken, unstripped>>
  BY DEF AddLine, DeleteLine, Edit, processVars, uninstallVars
<1> QED
  BY <1>1, <1>2, <1>3 DEF FileInv, FilesShaped, ServingInv, RemovedInv, RestoredInv, UserLinesKept

LEMMA UninstallKeepsFiles ==
  ASSUME FileInv, UninstallStep
  PROVE  FileInv'
<1>1. Shaped(read) /\ Shaped(file) /\ Shaped(toStrip) /\ OwnLines(file) = mine
  BY DEF FileInv, FilesShaped, UserLinesKept
<1>2. ASSUME Uninstalled, Shaped(file'), UserLinesKept', ~unstripped' => ~Redirected(file')
      PROVE  FileInv'
  <2>1. /\ uninstall' = "done" /\ toStrip' = <<>> /\ overtaken' = (phase \in {"bound", "add"})
        /\ UNCHANGED <<phase, read, interrupted>>
    BY <1>2 DEF Uninstalled, processVars
  <2>2. FilesShaped'
    BY <1>1, <1>2, <2>1, NothingIsPlain, PlainShaped DEF FilesShaped
  <2> QED
    BY <1>2, <2>1, <2>2 DEF FileInv, ServingInv, RemovedInv, RestoredInv
<1>3. CASE AskToStop
  BY <1>3 DEF AskToStop, historyVars,
     FileInv, FilesShaped, ServingInv, RemovedInv, RestoredInv, UserLinesKept
<1>4. CASE Unregister
  BY <1>4 DEF Unregister, processVars, historyVars,
     FileInv, FilesShaped, ServingInv, RemovedInv, RestoredInv, UserLinesKept
<1>5. CASE ReadForStrip
  BY <1>5 DEF ReadForStrip, processVars, historyVars,
     FileInv, FilesShaped, ServingInv, RemovedInv, RestoredInv, UserLinesKept
<1>6. CASE NothingToStrip
  <2>1. Uninstalled /\ ~Present(file) /\ UNCHANGED <<file, mine, unstripped>>
    BY <1>6 DEF NothingToStrip
  <2> QED
    BY <1>1, <1>2, <2>1, RedirectedIsPresent DEF UserLinesKept
<1>7. CASE StripRedirect
  <2>1. /\ Uninstalled /\ file' = Stripped(toStrip)
        /\ IF Unreliable(toStrip) THEN mine' = OwnLines(file') ELSE mine' = InAscii(mine)
    BY <1>7 DEF StripRedirect, Resync
  <2>2. /\ Shaped(file') /\ ~Redirected(file')
        /\ ~Unclosed(toStrip) => OwnLines(file') = InAscii(OwnLines(toStrip))
    BY <1>1, <2>1, StrippedIs
  <2>3. OwnLines(file') = mine'
    BY <2>1, <2>2 DEF Unreliable
  <2> QED
    BY <1>2, <2>1, <2>2, <2>3 DEF UserLinesKept
<1>8. CASE FailStrip
  <2>1. /\ Uninstalled /\ unstripped' = (file' = file)
        /\ UNCHANGED <<file, mine>> \/ LeavesPartOf(Stripped(toStrip))
    BY <1>8 DEF FailStrip
  <2>2. CASE UNCHANGED <<file, mine>>
    BY <1>1, <1>2, <2>1, <2>2 DEF UserLinesKept
  <2>3. CASE LeavesPartOf(Stripped(toStrip))
    <3>1. /\ Shaped(file') /\ UserLinesKept'
          /\ file' # file => ~Redirected(file')
      BY <1>1, <2>3, PartLeft, StrippedIs
    <3> QED
      BY <1>2, <2>1, <3>1
  <2> QED
    BY <2>1, <2>2, <2>3
<1> QED
  BY <1>3, <1>4, <1>5, <1>6, <1>7, <1>8 DEF UninstallStep

LEMMA CrashKeeps ==
  ASSUME FileInv, Crash
  PROVE  FileInv'
<1>1. phase' = "down" /\ UNCHANGED <<uninstall, toStrip, overtaken, unstripped>>
  BY DEF Crash, uninstallVars
<1>2. CASE phase \notin {"add", "remove"}
  <2>1. interrupted' = TRUE /\ read' = <<>> /\ UNCHANGED <<file, mine>>
    BY <1>2 DEF Crash
  <2>2. Shaped(read')
    BY <2>1, NothingIsPlain, PlainShaped
  <2> QED
    BY <1>1, <2>1, <2>2
       DEF FileInv, FilesShaped, ServingInv, RemovedInv, RestoredInv, UserLinesKept
<1>3. CASE phase = "add"
  <2>1. WriteFailed(Render(read, BlockLines))
    BY <1>3 DEF Crash
  <2>2. FilesShaped' /\ UserLinesKept' /\ interrupted' = TRUE
    BY <1>1, <2>1, FailedKeeps
  <2>3. uninstall = "done" => overtaken
    BY <1>3 DEF FileInv, RestoredInv
  <2> QED
    BY <1>1, <2>2, <2>3 DEF FileInv, ServingInv, RemovedInv, RestoredInv
<1>4. CASE phase = "remove"
  <2>1. WriteFailed(Render(read, <<>>))
    BY <1>4 DEF Crash
  <2>2. /\ FilesShaped' /\ UserLinesKept' /\ interrupted' = TRUE
        /\ ~Redirected(file) => ~Redirected(file')
    BY <1>1, <2>1, FailedKeeps
  <2> QED
    BY <1>1, <2>2 DEF FileInv, ServingInv, RemovedInv, RestoredInv
<1> QED
  BY <1>2, <1>3, <1>4

LEMMA StartKeepsFiles ==
  ASSUME FileInv, Bind \/ StartStep
  PROVE  FileInv'
<1>1. CASE Bind \/ AbandonStart \/ RunTask \/ Started
  BY <1>1 DEF Bind, AbandonStart, RunTask, Started, historyVars, uninstallVars,
     FileInv, FilesShaped, ServingInv, RemovedInv, RestoredInv, UserLinesKept
<1>2. CASE ReadForAdd
  <2>1. phase = "bound" /\ phase' = "add" /\ read' = file
        /\ UNCHANGED <<file, mine, interrupted, uninstall, toStrip, overtaken, unstripped>>
    BY <1>2 DEF ReadForAdd, historyVars, uninstallVars
  <2> QED
    BY <2>1 DEF FileInv, FilesShaped, ServingInv, RemovedInv, RestoredInv, UserLinesKept
<1>3. CASE WriteRedirect
  <2>1. /\ phase = "add" /\ phase' = "run" /\ Wrote(Render(read, BlockLines))
        /\ UNCHANGED <<uninstall, toStrip, overtaken, unstripped>>
    BY <1>3 DEF WriteRedirect, uninstallVars
  <2>2. FilesShaped' /\ UserLinesKept' /\ file' = Render(read, BlockLines)
    BY <2>1, WroteKeeps
  <2>3. Fresh(file')
    BY <2>2, AddedIsFresh DEF FileInv, FilesShaped
  <2> QED
    BY <2>1, <2>2, <2>3 DEF FileInv, ServingInv, RemovedInv, RestoredInv
<1>4. CASE FailStart
  <2>1. /\ phase = "add" /\ phase' = "down" /\ WriteFailed(Render(read, BlockLines))
        /\ UNCHANGED <<uninstall, toStrip, overtaken, unstripped>>
    BY <1>4 DEF FailStart, uninstallVars
  <2>2. FilesShaped' /\ UserLinesKept' /\ interrupted' = TRUE
    BY <2>1, FailedKeeps
  <2> QED
    BY <2>1, <2>2 DEF FileInv, ServingInv, RemovedInv, RestoredInv
<1> QED
  BY <1>1, <1>2, <1>3, <1>4 DEF StartStep

LEMMA StopKeepsFiles ==
  ASSUME FileInv, Stop \/ StopStep \/ Overlook
  PROVE  FileInv'
<1>1. CASE Stop
  BY <1>1 DEF Stop, historyVars, uninstallVars,
     FileInv, FilesShaped, ServingInv, RemovedInv, RestoredInv, UserLinesKept
<1>2. CASE NothingToRemove
  <2>1. /\ ~Present(file) /\ phase = "stop" /\ phase' = "end"
        /\ UNCHANGED <<file, read, mine, interrupted, uninstall, toStrip, overtaken, unstripped>>
    BY <1>2 DEF NothingToRemove, ToDependents, historyVars, uninstallVars
  <2>2. ~Redirected(file)
    BY <2>1, RedirectedIsPresent DEF FileInv, FilesShaped
  <2> QED
    BY <2>1, <2>2 DEF FileInv, FilesShaped, ServingInv, RemovedInv, RestoredInv, UserLinesKept
<1>3. CASE ReadForRemove
  <2>1. phase = "stop" /\ phase' = "remove" /\ read' = file
        /\ UNCHANGED <<file, mine, interrupted, uninstall, toStrip, overtaken, unstripped>>
    BY <1>3 DEF ReadForRemove, historyVars, uninstallVars
  <2> QED
    BY <2>1 DEF FileInv, FilesShaped, ServingInv, RemovedInv, RestoredInv, UserLinesKept
<1>4. CASE RemoveRedirect
  <2>1. /\ phase = "remove" /\ phase' = "end" /\ Wrote(Render(read, <<>>))
        /\ UNCHANGED <<uninstall, toStrip, overtaken, unstripped>>
    BY <1>4 DEF RemoveRedirect, ToDependents, uninstallVars
  <2>2. FilesShaped' /\ UserLinesKept' /\ file' = Render(read, <<>>)
    BY <2>1, WroteKeeps
  <2>3. ~Redirected(file')
    BY <2>2, RenderShaped DEF FileInv, FilesShaped
  <2> QED
    BY <2>1, <2>2, <2>3 DEF FileInv, ServingInv, RemovedInv, RestoredInv
<1>5. CASE FailRemove
  <2>1. phase \in {"stop", "remove"} /\ phase' = "end" /\ UNCHANGED <<uninstall, toStrip, overtaken, unstripped>>
    BY <1>5 DEF FailRemove, ToDependents, uninstallVars
  <2>2. CASE phase = "stop"
    <3>1. interrupted' = TRUE /\ UNCHANGED <<read, file, mine>>
      BY <1>5, <2>2 DEF FailRemove
    <3> QED
      BY <2>1, <2>2, <3>1
         DEF FileInv, FilesShaped, ServingInv, RemovedInv, RestoredInv, UserLinesKept
  <2>3. CASE phase = "remove"
    <3>1. WriteFailed(Render(read, <<>>))
      BY <1>5, <2>3 DEF FailRemove
    <3>2. /\ FilesShaped' /\ UserLinesKept' /\ interrupted' = TRUE
          /\ ~Redirected(file) => ~Redirected(file')
      BY <2>1, <3>1, FailedKeeps
    <3> QED
      BY <2>1, <2>3, <3>2 DEF FileInv, ServingInv, RemovedInv, RestoredInv
  <2> QED
    BY <2>1, <2>2, <2>3
<1>6. CASE EndTask
  BY <1>6 DEF EndTask, historyVars, uninstallVars,
     FileInv, FilesShaped, ServingInv, RemovedInv, RestoredInv, UserLinesKept
<1>7. CASE PortFree \/ Overlook \/ ForceKill
  BY <1>7 DEF PortFree, Overlook, ForceKill, NextDependent, historyVars, uninstallVars,
     FileInv, FilesShaped, ServingInv, RemovedInv, RestoredInv, UserLinesKept
<1>8. CASE Drain
  BY <1>8 DEF Drain, historyVars, uninstallVars,
     FileInv, FilesShaped, ServingInv, RemovedInv, RestoredInv, UserLinesKept
<1> QED
  BY <1>1, <1>2, <1>3, <1>4, <1>5, <1>6, <1>7, <1>8 DEF StopStep

LEMMA FileInvKept ==
  ASSUME FileInv, [Next]_vars
  PROVE  FileInv'
<1>1. CASE UNCHANGED vars
  BY <1>1 DEF vars, processVars, historyVars, uninstallVars,
     FileInv, FilesShaped, ServingInv, RemovedInv, RestoredInv, UserLinesKept
<1>3. ASSUME NEW d \in Dependents, Listen(d) \/ Die(d) \/ PortTaken(d)
      PROVE  FileInv'
  BY <1>3 DEF Listen, Die, PortTaken, processVars, historyVars, uninstallVars,
     FileInv, FilesShaped, ServingInv, RemovedInv, RestoredInv, UserLinesKept
<1> QED
  BY <1>1, <1>3, StartKeepsFiles, StopKeepsFiles, UninstallKeepsFiles, CrashKeeps, EditKeeps DEF Next

LEMMA FileInvariant == Spec => []FileInv
<1>1. FileInv /\ [Next]_vars => FileInv'
  BY FileInvKept
<1> QED
  BY <1>1, FileInvInitially, PTL DEF Spec

(* The intercepted names lead to the proxy only while it listens: what is *)
(* left behind by a crash or a failed write is the one exception, and the *)
(* next completed write ends it (main.go:219-220, 275-276).               *)
THEOREM RedirectsOnlyWhileListening == Spec => []RedirectHasListener
<1>1. FileInv => RedirectHasListener
  BY DEF FileInv, RemovedInv, RedirectHasListener
<1> QED
  BY <1>1, FileInvariant, PTL

(* A proxy that has started has exactly one whole block in the file, over  *)
(* any number of runs, crashes, cut writes and edits (hostsfile.go:1-5).   *)
THEOREM StartsWithOneBlock == Spec => []OneFreshBlock
<1>1. FileInv => OneFreshBlock
  BY FreshBlockIs DEF FileInv, ServingInv, OneFreshBlock
<1> QED
  BY <1>1, FileInvariant, PTL

(* The user's lines stay, in their order, over any number of runs, but for *)
(* an edit between a read and its write, what a cut write has lost or      *)
(* hidden, and the lines outside ASCII, which the uninstaller garbles      *)
(* (hostsfile.go:83-87, 99-101, 144-145; uninstall.ps1:68).                *)
THEOREM UserKeepsLines == Spec => []UserLinesKept
<1>1. FileInv => UserLinesKept
  BY DEF FileInv
<1> QED
  BY <1>1, FileInvariant, PTL

(* When the uninstaller has run and the process is gone the names resolve  *)
(* normally, unless it overtook a starting service or could not read, or   *)
(* not write, the hosts file at all (uninstall.ps1:3-5).                   *)
THEOREM UninstallRestores == Spec => []UninstallRestoresNames
<1>1. FileInv => UninstallRestoresNames
  BY DEF FileInv, RestoredInv, UninstallRestoresNames
<1> QED
  BY <1>1, FileInvariant, PTL

-----------------------------------------------------------------------------
(* The dependents *)

TypeOK ==
  /\ phase \in {"down", "serving"} \cup Starting \cup Stopping
  /\ child \in [Dependents -> {"off", "starting", "up"}]
  /\ escaped \subseteq Dependents /\ unseen \subseteq Dependents

(* The stop is done with d: what is left of it, it could not end. *)
Ended(d) == child[d] # "off" => d \in escaped \cup unseen

(* The dependents are ended one after the other. *)
StopInv ==
  /\ phase \in {"end", "wait"} =>
       \/ queue = <<"web", "sidecar">>
       \/ queue = <<"sidecar">> /\ Ended("web")
  /\ phase = "drain" => \A d \in Dependents : Ended(d)

DependentsInv == TypeOK /\ StopInv

LEMMA DependentsInvInitially == Init => DependentsInv
  BY DEF Init, DependentsInv, TypeOK, StopInv

(* What goes on beside a stop does not bring an ended dependent back. *)
LEMMA OthersKeep ==
  ASSUME DependentsInv, child' \in [Dependents -> {"off", "starting", "up"}],
         UNCHANGED <<phase, queue, escaped, unseen>>,
         \A d \in Dependents : child[d] = "off" => child'[d] = "off"
  PROVE  DependentsInv'
  BY DEF DependentsInv, TypeOK, StopInv, Ended, Dependents

LEMMA StopKeeps ==
  ASSUME DependentsInv, StopStep \/ Overlook
  PROVE  DependentsInv'
<1>0. TypeOK /\ StopInv
  BY DEF DependentsInv
<1>1. CASE NothingToRemove \/ RemoveRedirect \/ FailRemove
  BY <1>0, <1>1 DEF NothingToRemove, RemoveRedirect, FailRemove, ToDependents, dependentVars,
     DependentsInv, TypeOK, StopInv, Stopping
<1>2. CASE ReadForRemove
  BY <1>0, <1>2 DEF ReadForRemove, dependentVars, DependentsInv, TypeOK, StopInv, Stopping
<1>3. CASE EndTask
  <2>1. /\ phase = "end" /\ phase' = "wait" /\ UNCHANGED <<queue, escaped, unseen>>
        /\ child' \in {child, [child EXCEPT ![Head(queue)] = "off"]}
    BY <1>3 DEF EndTask
  <2>2. /\ child' \in [Dependents -> {"off", "starting", "up"}]
        /\ \A d \in Dependents : child[d] = "off" => child'[d] = "off"
    BY <1>0, <2>1 DEF TypeOK
  <2> QED
    BY <1>0, <2>1, <2>2 DEF DependentsInv, TypeOK, StopInv, Stopping, Ended, Dependents
<1>4. CASE PortFree \/ Overlook \/ ForceKill
  <2>1. /\ phase = "wait" /\ phase' = (IF Tail(queue) = <<>> THEN "drain" ELSE "end")
        /\ queue' = Tail(queue)
    BY <1>4 DEF PortFree, Overlook, ForceKill, NextDependent
  <2>2. PICK h \in Dependents : h = Head(queue)
    BY <1>0, <2>1 DEF StopInv, Dependents
  <2>3. /\ escaped \subseteq escaped' /\ escaped' \subseteq Dependents
        /\ unseen \subseteq unseen' /\ unseen' \subseteq Dependents
    <3>1. CASE PortFree
      BY <1>0, <2>2, <3>1 DEF PortFree, TypeOK
    <3>2. CASE ForceKill
      BY <1>0, <2>2, <3>2 DEF ForceKill, TypeOK
    <3>3. CASE Overlook
      BY <1>0, <2>2, <3>3 DEF Overlook, TypeOK
    <3> QED
      BY <1>4, <3>1, <3>2, <3>3
  <2>4. child' \in {child, [child EXCEPT ![h] = "off"]}
    BY <1>4, <2>2 DEF PortFree, Overlook, ForceKill
  <2>5. child'[h] # "off" => h \in escaped' \cup unseen'
    <3>1. CASE PortFree
      BY <1>0, <2>2, <3>1 DEF PortFree, HoldsPort, TypeOK
    <3>2. CASE ForceKill
      BY <1>0, <2>2, <3>2 DEF ForceKill, TypeOK
    <3>3. CASE Overlook
      BY <1>0, <2>2, <3>3 DEF Overlook, TypeOK
    <3> QED
      BY <1>4, <3>1, <3>2, <3>3
  <2>6. /\ child' \in [Dependents -> {"off", "starting", "up"}]
        /\ \A d \in Dependents \ {h} : child'[d] = child[d]
    BY <1>0, <2>4 DEF TypeOK
  <2>7. CASE queue = <<"web", "sidecar">>
    <3>1. h = "web" /\ queue' = <<"sidecar">> /\ phase' = "end"
      BY <2>1, <2>2, <2>7
    <3> QED
      BY <2>3, <2>5, <2>6, <3>1 DEF DependentsInv, TypeOK, StopInv, Stopping, Ended
  <2>8. CASE queue = <<"sidecar">> /\ Ended("web")
    <3>1. h = "sidecar" /\ phase' = "drain"
      BY <2>1, <2>2, <2>8
    <3>2. \A d \in Dependents : Ended(d)'
      BY <2>3, <2>5, <2>6, <2>8, <3>1 DEF Ended, Dependents
    <3> QED
      BY <2>3, <2>6, <3>1, <3>2 DEF DependentsInv, TypeOK, StopInv, Stopping
  <2> QED
    BY <1>0, <2>1, <2>7, <2>8 DEF StopInv
<1>5. CASE Drain
  BY <1>0, <1>5 DEF Drain, DependentsInv, TypeOK, StopInv
<1> QED
  BY <1>1, <1>2, <1>3, <1>4, <1>5 DEF StopStep

LEMMA RestKeeps ==
  ASSUME DependentsInv, Next, ~(StopStep \/ Overlook)
  PROVE  DependentsInv'
<1>0. TypeOK /\ StopInv
  BY DEF DependentsInv
<1>1. CASE Bind \/ StartStep \/ Stop \/ Crash
  <2>1. CASE RunTask
    <3>1. child' \in [Dependents -> {"off", "starting", "up"}]
      BY <1>0, <2>1 DEF RunTask, Launched, TypeOK
    <3> QED
      BY <1>0, <2>1, <3>1 DEF RunTask, DependentsInv, TypeOK, StopInv
  <2>2. CASE Bind \/ ReadForAdd \/ AbandonStart \/ WriteRedirect \/ FailStart \/ Started \/ Stop
    BY <1>0, <2>2 DEF Bind, ReadForAdd, AbandonStart, WriteRedirect, FailStart, Started, Stop,
       dependentVars, DependentsInv, TypeOK, StopInv, Starting, Stopping
  <2>3. CASE Crash
    BY <1>0, <2>3 DEF Crash, DependentsInv, TypeOK, StopInv
  <2> QED
    BY <1>1, <2>1, <2>2, <2>3 DEF StartStep
<1>2. CASE AskToStop
  BY <1>0, <1>2 DEF AskToStop, dependentVars, DependentsInv, TypeOK, StopInv, Ended, Stopping
<1>3. CASE Unregister
  BY <1>3, OthersKeep DEF Unregister, processVars
<1>4. CASE \/ NothingToStrip \/ ReadForStrip \/ StripRedirect \/ FailStrip
           \/ \E l \in UserLines : AddLine(l) \/ DeleteLine(l)
  <2>1. UNCHANGED <<phase, queue, child, escaped, unseen>>
    BY <1>4 DEF NothingToStrip, ReadForStrip, StripRedirect, FailStrip, Uninstalled,
       AddLine, DeleteLine, Edit, processVars, dependentVars
  <2> QED
    BY <1>0, <2>1, OthersKeep DEF TypeOK
<1>5. ASSUME NEW d \in Dependents, Listen(d) \/ Die(d) \/ PortTaken(d)
      PROVE  DependentsInv'
  <2>1. /\ child' \in [Dependents -> {"off", "starting", "up"}]
        /\ \A e \in Dependents : child[e] = "off" => child'[e] = "off"
    BY <1>0, <1>5 DEF Listen, Die, PortTaken, TypeOK
  <2> QED
    BY <1>5, <2>1, OthersKeep DEF Listen, Die, PortTaken, processVars
<1> QED
  BY <1>1, <1>2, <1>3, <1>4, <1>5 DEF Next, UninstallStep

(* A dependent that listens when it is to be stopped is gone when the stop *)
(* goes on, unless it could not be killed, came up late, or the query for  *)
(* its port failed, through everything else that happens on the machine    *)
(* (supervisor_windows.go:32-36, 55-68).                                   *)
THEOREM NoneLeftListening == Spec => []DependentsStopped
<1>1. DependentsInv /\ [Next]_vars => DependentsInv'
  <2>1. DependentsInv /\ UNCHANGED vars => DependentsInv'
    BY DEF vars, processVars, dependentVars, DependentsInv, TypeOK, StopInv, Ended
  <2> QED
    BY <2>1, StopKeeps, RestKeeps
<1>2. DependentsInv => DependentsStopped
  BY DEF DependentsInv, StopInv, Ended, DependentsStopped
<1> QED
  BY <1>1, <1>2, DependentsInvInitially, PTL DEF Spec
=============================================================================

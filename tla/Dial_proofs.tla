---------------------------- MODULE Dial_proofs -----------------------------
(***************************************************************************)
(* Which addresses the proxy uses, for every number of dials, of names and *)
(* of moves of the upstream, for every bound of the TTLs and the dials and *)
(* for every set of responses that can be put on the wire.  First what the *)
(* parser makes of a response of any length, byte by byte, then what the   *)
(* cache and the dials make of it.                                         *)
(***************************************************************************)
EXTENDS UpstreamDial, SequenceTheorems, WellFoundedInduction, TLAPS

-----------------------------------------------------------------------------
(* Recursive definitions, step by step                                     *)

(* Induction, with the property given as a set. *)
LEMMA Induction ==
  ASSUME NEW p, 0 \in p, \A n \in Nat : n \in p => n + 1 \in p
  PROVE  \A n \in Nat : n \in p
<1> SUFFICES ASSUME Nat \ p # {}
             PROVE  FALSE
  OBVIOUS
<1>1. IsWellFoundedOn(OpToRel(<, Nat), Nat)
  BY NatLessThanWellFounded
<1>2. PICK n \in Nat \ p : \A m \in Nat \ p : ~(<<m, n>> \in OpToRel(<, Nat))
  BY <1>1, WFMin
<1>3. \A m \in Nat \ p : ~(m < n)
  BY <1>2 DEF OpToRel
<1>4. n # 0 /\ n - 1 \in Nat /\ n - 1 < n
  OBVIOUS
<1>5. n - 1 \in p
  BY <1>3, <1>4
<1> QED
  BY <1>4, <1>5

(* Primitive recursion up to n, with the step given as a function. *)
Stepwise(S, a, n, step) ==
  \E f \in [0..n -> S] : f[0] = a /\ \A i \in 1..n : f[i] = step[i][f[i - 1]]

LEMMA StepByStep ==
  ASSUME NEW S, NEW a \in S, NEW n \in Nat, NEW step \in [1..n -> [S -> S]]
  PROVE  Stepwise(S, a, n, step)
<1> DEFINE Upto(f, k) == f[0] = a /\ \A i \in 1..n : i <= k => f[i] = step[i][f[i - 1]]
           p == {k \in Nat : \E f \in [0..n -> S] : Upto(f, k)}
<1>1. 0 \in p
  <2>1. [i \in 0..n |-> a] \in [0..n -> S] /\ Upto([i \in 0..n |-> a], 0)
    OBVIOUS
  <2> QED
    BY <2>1
<1>2. ASSUME NEW k \in Nat, k \in p
      PROVE  k + 1 \in p
  <2>1. PICK f \in [0..n -> S] : Upto(f, k)
    BY <1>2
  <2> DEFINE v == step[k + 1][f[k]]
             g == [i \in 0..n |-> IF i = k + 1 THEN v ELSE f[i]]
  <2>2. g \in [0..n -> S]
    OBVIOUS
  <2>3. g[0] = a
    BY <2>1
  <2>4. ASSUME NEW i \in 1..n, i <= k + 1
        PROVE  g[i] = step[i][g[i - 1]]
    <3>1. i - 1 \in 0..n /\ i - 1 # k + 1 /\ g[i - 1] = f[i - 1]
      BY <2>4
    <3>2. CASE i = k + 1
      BY <3>1, <3>2
    <3>3. CASE i # k + 1
      <4>1. i <= k /\ g[i] = f[i]
        BY <2>4, <3>3
      <4> QED
        BY <2>1, <3>1, <4>1
    <3> QED
      BY <3>2, <3>3
  <2> HIDE DEF g
  <2> QED
    BY <2>2, <2>3, <2>4
<1> HIDE DEF p
<1>3. n \in p
  BY <1>1, <1>2, Induction
<1> QED
  BY <1>3 DEF p, Stepwise

(* The sequences of which FlattenSeq is the last. *)
Flattens(f, n, seqs) == f[0] = <<>> /\ \A i \in 1..n : f[i] = f[i - 1] \o seqs[i]

LEMMA PartsExist ==
  ASSUME NEW T, NEW n \in Nat, NEW seqs, \A i \in 1..n : seqs[i] \in Seq(T)
  PROVE  \E f \in [0..n -> Seq(T)] : Flattens(f, n, seqs)
<1> DEFINE U == Seq(T)
           step == [i \in 1..n |-> [s \in U |-> s \o seqs[i]]]
<1>1. <<>> \in U /\ \A i \in 1..n, s \in U : s \o seqs[i] \in U
  OBVIOUS
<1> HIDE DEF U
<1>2. step \in [1..n -> [U -> U]]
  BY <1>1
<1>3. \A i \in 1..n, s \in U : step[i][s] = s \o seqs[i]
  OBVIOUS
<1> HIDE DEF step
<1>4. PICK f \in [0..n -> U] : f[0] = <<>> /\ \A i \in 1..n : f[i] = step[i][f[i - 1]]
  BY <1>1, <1>2, StepByStep DEF Stepwise
<1>5. \A i \in 1..n : i - 1 \in 0..n /\ f[i - 1] \in U
  OBVIOUS
<1>6. Flattens(f, n, seqs)
  BY <1>3, <1>4, <1>5 DEF Flattens
<1> QED
  BY <1>6 DEF U

LEMMA PartsUnique ==
  ASSUME NEW n \in Nat, NEW seqs, NEW f, NEW g, Flattens(f, n, seqs), Flattens(g, n, seqs)
  PROVE  f[n] = g[n]
<1> DEFINE p == {k \in Nat : k <= n => f[k] = g[k]}
<1>1. 0 \in p
  BY DEF Flattens
<1>2. ASSUME NEW k \in Nat, k \in p
      PROVE  k + 1 \in p
  <2> SUFFICES ASSUME k + 1 <= n
               PROVE  f[k + 1] = g[k + 1]
    OBVIOUS
  <2>1. k + 1 \in 1..n /\ (k + 1) - 1 = k /\ f[k] = g[k]
    BY <1>2
  <2>2. f[k + 1] = f[(k + 1) - 1] \o seqs[k + 1] /\ g[k + 1] = g[(k + 1) - 1] \o seqs[k + 1]
    BY <2>1, Zenon DEF Flattens
  <2> QED
    BY <2>1, <2>2
<1> HIDE DEF p
<1>3. n \in p
  BY <1>1, <1>2, Induction
<1> QED
  BY <1>3 DEF p

LEMMA FlattenedStepwise ==
  ASSUME NEW T, NEW seqs \in Seq(Seq(T)), NEW f, Flattens(f, Len(seqs), seqs)
  PROVE  FlattenSeq(seqs) = f[Len(seqs)]
<1> DEFINE n == Len(seqs)
<1>1. n \in Nat /\ \A i \in 1..n : seqs[i] \in Seq(T)
  OBVIOUS
<1>2. CASE n = 0
  BY <1>2 DEF FlattenSeq, Flattens
<1>3. CASE n # 0
  <2> DEFINE Flat(g) == g = [i \in 1..n |-> IF i = 1 THEN seqs[i] ELSE g[i - 1] \o seqs[i]]
             flat == CHOOSE g : Flat(g)
  <2>1. FlattenSeq(seqs) = flat[n]
    BY <1>3 DEF FlattenSeq
  <2> HIDE DEF n
  <2>2. PICK e \in [0..n -> Seq(T)] : Flattens(e, n, seqs)
    BY <1>1, PartsExist
  <2> DEFINE e0 == [i \in 1..n |-> e[i]]
  <2>3. ASSUME NEW i \in 1..n
        PROVE  e0[i] = IF i = 1 THEN seqs[i] ELSE e0[i - 1] \o seqs[i]
    <3>1. e[i] = e[i - 1] \o seqs[i] /\ seqs[i] \in Seq(T) /\ e0[i] = e[i]
      BY <1>1, <2>2 DEF Flattens
    <3>2. CASE i = 1
      <4>1. e[i - 1] = <<>>
        BY <2>2, <3>2 DEF Flattens
      <4> QED
        BY <3>1, <3>2, <4>1
    <3>3. CASE i # 1
      <4>1. i - 1 \in 1..n
        BY <1>1, <3>3
      <4> QED
        BY <3>1, <3>3, <4>1
    <3> QED
      BY <3>2, <3>3
  <2>4. Flat(e0)
    BY <2>3, Zenon
  <2>5. Flat(flat)
    BY <2>4, Zenon
  <2> HIDE DEF flat
  <2> DEFINE h == [i \in 0..n |-> IF i = 0 THEN <<>> ELSE flat[i]]
  <2>6. ASSUME NEW i \in 1..n
        PROVE  h[i] = h[i - 1] \o seqs[i]
    <3>1. i \in 0..n /\ i - 1 \in 0..n /\ i # 0 /\ seqs[i] \in Seq(T)
      BY <1>1
    <3>2. h[i] = IF i = 1 THEN seqs[i] ELSE flat[i - 1] \o seqs[i]
      BY <2>5, <3>1
    <3>3. h[i - 1] = IF i - 1 = 0 THEN <<>> ELSE flat[i - 1]
      BY <3>1
    <3> HIDE DEF h
    <3>4. CASE i = 1
      BY <3>1, <3>2, <3>3, <3>4
    <3>5. CASE i # 1
      <4>1. i - 1 # 0
        BY <1>1, <3>5
      <4>2. h[i] = flat[i - 1] \o seqs[i] /\ h[i - 1] = flat[i - 1]
        BY <3>2, <3>3, <3>5, <4>1, Zenon
      <4> QED
        BY <4>2, Zenon
    <3> QED
      BY <3>4, <3>5
  <2>7. h[0] = <<>> /\ h[n] = flat[n]
    BY <1>1, <1>3 DEF n
  <2> HIDE DEF h
  <2>8. Flattens(h, n, seqs) /\ Flattens(f, n, seqs)
    BY <2>6, <2>7 DEF Flattens, n
  <2>9. h[n] = f[n]
    BY <1>1, <2>8, PartsUnique
  <2> QED
    BY <2>1, <2>7, <2>9 DEF n
<1> QED
  BY <1>2, <1>3

-----------------------------------------------------------------------------
(* Bytes of a buffer                                                       *)

(* A buffer holds bytes. *)
Readable(buf) == Len(buf) \in Nat /\ \A o \in Nat : o < Len(buf) => ByteAt(buf, o) \in 0..255

LEMMA BytesReadable ==
  ASSUME NEW buf \in Seq(Bytes)
  PROVE  Readable(buf) /\ \A o \in Nat : o < Len(buf) => ByteAt(buf, o) = buf[o + 1]
<1>1. ASSUME NEW o \in Nat, o < Len(buf)
      PROVE  ByteAt(buf, o) = buf[o + 1] /\ buf[o + 1] \in 0..255
  <2>1. o \in 0..Len(buf) - 1 /\ o + 1 \in 1..Len(buf)
    BY <1>1
  <2>2. buf[o + 1] \in Bytes
    BY <2>1
  <2> QED
    BY <2>1, <2>2, Zenon DEF ByteAt, Bytes
<1>2. Len(buf) \in Nat
  OBVIOUS
<1> QED
  BY <1>1, <1>2, Zenon DEF Readable

(* What skipName does with the byte at offset o. *)
SkipFrom(buf, f, o) ==
  IF o >= Len(buf) THEN Malformed
  ELSE IF ByteAt(buf, o) = 0 THEN o + 1
  ELSE IF ByteAt(buf, o) >= 192 THEN IF o + 2 > Len(buf) THEN Malformed ELSE o + 2
  ELSE IF ByteAt(buf, o) < 64 THEN f[o + ByteAt(buf, o) + 1]
  ELSE Malformed

LEMMA SkipNameSteps ==
  ASSUME NEW buf, Readable(buf)
  PROVE  \E f : /\ \A o \in Nat : f[o] = SkipFrom(buf, f, o)
                /\ \A o \in Nat : SkipName(buf, o) = f[o]
<1> DEFINE len == Len(buf)
           Skips(f, k) == \A o \in Nat : o + k >= len => f[o] = SkipFrom(buf, f, o)
           p == {k \in Nat : \E f : f = [o \in Nat |-> f[o]] /\ Skips(f, k)}
<1>0. len \in Nat
  BY DEF Readable
<1>1. 0 \in p
  <2> DEFINE f == [o \in Nat |-> Malformed]
  <2>1. f = [o \in Nat |-> f[o]] /\ \A o \in Nat : o >= len => f[o] = SkipFrom(buf, f, o)
    BY DEF SkipFrom
  <2> HIDE DEF f, len
  <2>2. Skips(f, 0)
    BY <1>0, <2>1
  <2> QED
    BY <2>1, <2>2
<1>2. ASSUME NEW k \in Nat, k \in p
      PROVE  k + 1 \in p
  <2>1. PICK f : f = [o \in Nat |-> f[o]] /\ Skips(f, k)
    BY <1>2
  <2> DEFINE g == [o \in Nat |-> IF o + k + 1 = len THEN SkipFrom(buf, f, o) ELSE f[o]]
  <2>2. ASSUME NEW o \in Nat, o + (k + 1) >= len
        PROVE  g[o] = SkipFrom(buf, g, o)
    <3>1. SkipFrom(buf, g, o) = SkipFrom(buf, f, o)
      <4>1. CASE o < len
        <5>0. ByteAt(buf, o) \in 0..255
          BY <4>1 DEF Readable
        <5>1. PICK b \in Nat : ByteAt(buf, o) = b
          BY <5>0
        <5> HIDE DEF len
        <5>2. o + b + 1 \in Nat /\ o + b + 1 + k + 1 # len
          BY <1>0, <2>2
        <5>3. g[o + b + 1] = f[o + b + 1]
          BY <5>2
        <5> HIDE DEF g
        <5> QED
          BY <5>1, <5>3 DEF SkipFrom
      <4>2. CASE ~(o < len)
        BY <1>0, <4>2 DEF SkipFrom
      <4> QED
        BY <4>1, <4>2
    <3>2. CASE o + k + 1 = len
      BY <3>1, <3>2
    <3>3. CASE o + k + 1 # len
      <4>1. g[o] = f[o] /\ o + k >= len
        BY <1>0, <2>2, <3>3
      <4> QED
        BY <2>1, <3>1, <4>1
    <3> QED
      BY <3>2, <3>3
  <2>3. g = [o \in Nat |-> g[o]]
    OBVIOUS
  <2> HIDE DEF g
  <2>4. Skips(g, k + 1)
    BY <2>2
  <2> QED
    BY <2>3, <2>4
<1> HIDE DEF p
<1>3. len \in p
  BY <1>0, <1>1, <1>2, Induction
<1>4. PICK f : f = [o \in Nat |-> f[o]] /\ Skips(f, len)
  BY <1>3 DEF p
<1> DEFINE Skip(g) == g = [o \in Nat |-> SkipFrom(buf, g, o)]
           skip == CHOOSE g : Skip(g)
<1>5. Skip(f)
  <2>1. \A o \in Nat : f[o] = SkipFrom(buf, f, o)
    BY <1>0, <1>4
  <2> QED
    BY <1>4, <2>1, Zenon
<1>6. Skip(skip)
  BY <1>5, Zenon
<1>7. \A o \in Nat : skip[o] = SkipFrom(buf, skip, o)
  <2> HIDE DEF skip
  <2> QED
    BY <1>6
<1>8. \A o \in Nat : SkipName(buf, o) = skip[o]
  <2>1. \A o \in Nat : o # Malformed
    BY DEF Malformed
  <2> QED
    BY <2>1 DEF SkipName, SkipFrom
<1> QED
  BY <1>7, <1>8

(* Where a name ends that begins at offset o. *)
SkipsAt(buf, o) ==
  /\ o >= Len(buf) => SkipName(buf, o) = Malformed
  /\ o < Len(buf) /\ ByteAt(buf, o) = 0 => SkipName(buf, o) = o + 1
  /\ o < Len(buf) /\ ByteAt(buf, o) = 192 =>
       SkipName(buf, o) = IF o + 2 > Len(buf) THEN Malformed ELSE o + 2
  /\ o < Len(buf) /\ ByteAt(buf, o) = 3 => SkipName(buf, o) = SkipName(buf, o + 4)

LEMMA SkipNameAt ==
  ASSUME NEW buf, Readable(buf), NEW o \in Nat
  PROVE  SkipsAt(buf, o)
<1>1. PICK f : /\ \A q \in Nat : f[q] = SkipFrom(buf, f, q)
               /\ \A q \in Nat : SkipName(buf, q) = f[q]
  BY SkipNameSteps
<1>2. SkipName(buf, o) = SkipFrom(buf, f, o) /\ SkipName(buf, o + 4) = f[o + 4]
  BY <1>1
<1> QED
  BY <1>2 DEF SkipFrom, SkipsAt

LEMMA Concatenated ==
  ASSUME NEW T, NEW s \in Seq(T), NEW t \in Seq(T)
  PROVE  /\ s \o t \in Seq(T) /\ Len(s \o t) = Len(s) + Len(t)
         /\ \A i \in 1..Len(s) : (s \o t)[i] = s[i]
         /\ \A i \in 1..Len(t) : (s \o t)[Len(s) + i] = t[i]
  OBVIOUS

(* Bytes are read from a part of a message as from the message. *)
LEMMA ByteOfPart ==
  ASSUME NEW s \in Seq(Bytes), NEW t \in Seq(Bytes), NEW o \in Nat
  PROVE  /\ o < Len(s) => ByteAt(s \o t, o) = ByteAt(s, o)
         /\ o < Len(t) => ByteAt(s \o t, Len(s) + o) = ByteAt(t, o)
<1>1. Len(s) \in Nat /\ Len(t) \in Nat /\ Len(s \o t) = Len(s) + Len(t)
  OBVIOUS
<1>2. ASSUME o < Len(s)
      PROVE  ByteAt(s \o t, o) = ByteAt(s, o)
  <2>1. o \in 0..Len(s) - 1 /\ o \in 0..Len(s \o t) - 1
    BY <1>1, <1>2
  <2>2. (s \o t)[o + 1] = s[o + 1]
    BY <1>2
  <2> QED
    BY <2>1, <2>2, Zenon DEF ByteAt
<1>3. ASSUME o < Len(t)
      PROVE  ByteAt(s \o t, Len(s) + o) = ByteAt(t, o)
  <2>1. o \in 0..Len(t) - 1 /\ Len(s) + o \in 0..Len(s \o t) - 1
    BY <1>1, <1>3
  <2>2. (s \o t)[Len(s) + o + 1] = t[o + 1]
    BY <1>3
  <2> QED
    BY <2>1, <2>2, Zenon DEF ByteAt
<1> QED
  BY <1>2, <1>3

LEMMA ByteOfCut ==
  ASSUME NEW s \in Seq(Bytes), NEW l \in 0..Len(s), NEW o \in Nat, o < l
  PROVE  ByteAt(SubSeq(s, 1, l), o) = ByteAt(s, o)
<1>1. Len(SubSeq(s, 1, l)) = l
  OBVIOUS
<1>2. o \in 0..Len(s) - 1 /\ o \in 0..Len(SubSeq(s, 1, l)) - 1
  BY <1>1
<1>3. SubSeq(s, 1, l)[o + 1] = s[o + 1]
  OBVIOUS
<1> QED
  BY <1>2, <1>3, Zenon DEF ByteAt

LEMMA Quotient ==
  ASSUME NEW n \in Nat
  PROVE  n \div 256 \in Nat /\ n % 256 \in 0..255 /\ 256 * (n \div 256) + (n % 256) = n
  OBVIOUS

LEMMA OneIsWord == 1 \in Words
  BY DEF Words

LEMMA WordAppended ==
  ASSUME NEW s \in Seq(Bytes), NEW n \in Words
  PROVE  /\ s \o Word(n) \in Seq(Bytes) /\ Len(s \o Word(n)) = Len(s) + 2
         /\ U16(s \o Word(n), Len(s)) = n
         /\ \A o \in Nat : o < Len(s) => ByteAt(s \o Word(n), o) = ByteAt(s, o)
<1> DEFINE a == n \div 256
           b == n % 256
<1>1. a \in Bytes /\ b \in Bytes /\ 256 * a + b = n
  <2>1. n \in Nat /\ n <= 65535
    BY DEF Words
  <2>2. a \in Nat /\ b \in 0..255 /\ 256 * a + b = n
    BY <2>1, Quotient
  <2> HIDE DEF a, b
  <2> QED
    BY <2>1, <2>2 DEF Bytes
<1>2. Word(n) = <<a, b>>
  BY DEF Word
<1> HIDE DEF a, b
<1>3. <<a, b>> \in Seq(Bytes) /\ Len(<<a, b>>) = 2
  BY <1>1
<1>4. s \o <<a, b>> \in Seq(Bytes) /\ Len(s \o <<a, b>>) = Len(s) + 2 /\ Len(s) \in Nat
  BY <1>1
<1>5. (s \o <<a, b>>)[Len(s) + 1] = a /\ (s \o <<a, b>>)[Len(s) + 2] = b
  BY <1>1
<1>6. ByteAt(s \o <<a, b>>, Len(s)) = a /\ ByteAt(s \o <<a, b>>, Len(s) + 1) = b
  <2>1. Len(s) \in 0..Len(s \o <<a, b>>) - 1 /\ Len(s) + 1 \in 0..Len(s \o <<a, b>>) - 1
        /\ Len(s) + 1 + 1 = Len(s) + 2
    BY <1>4
  <2> QED
    BY <1>5, <2>1, Zenon DEF ByteAt
<1>7. U16(s \o <<a, b>>, Len(s)) = n
  BY <1>1, <1>6, Zenon DEF U16
<1>8. \A o \in Nat : o < Len(s) => ByteAt(s \o <<a, b>>, o) = ByteAt(s, o)
  BY <1>3, ByteOfPart
<1> QED
  BY <1>2, <1>4, <1>7, <1>8

(* e is s, of length k, with the word n behind it. *)
Appending(s, n, k, e) == s \in Seq(Bytes) /\ Len(s) = k /\ e = s \o Word(n)

Appended(s, n, k, e) ==
  /\ e \in Seq(Bytes) /\ Len(e) = k + 2 /\ U16(e, k) = n
  /\ \A o \in Nat : o < k => ByteAt(e, o) = ByteAt(s, o)

LEMMA WordAppendedAt ==
  ASSUME NEW s, NEW n \in Words, NEW k \in Nat, NEW e, Appending(s, n, k, e)
  PROVE  Appended(s, n, k, e)
  BY WordAppended, Zenon DEF Appending, Appended

(* What is read of an answer. *)
AnswerBytes(e, type, hi, lo, data) ==
  /\ e \in Seq(Bytes) /\ Len(e) = 12 + Len(data)
  /\ ByteAt(e, 0) = 192
  /\ U16(e, 2) = type /\ U16(e, 6) = hi /\ U16(e, 8) = lo /\ U16(e, 10) = Len(data)
  /\ \A k \in 1..Len(data) : ByteAt(e, 11 + k) = data[k]

LEMMA AnswerEncoded ==
  ASSUME NEW type \in Words, NEW hi \in Words, NEW lo \in Words, NEW data \in Seq(Bytes), Len(data) \in Words
  PROVE  AnswerBytes(<<192, 12>> \o Word(type) \o Word(1) \o Word(hi) \o Word(lo) \o Word(Len(data)) \o data,
                     type, hi, lo, data)
<1>0. 1 \in Words /\ Len(data) \in Nat
  <2>1. Len(data) \in Nat
    OBVIOUS
  <2> QED
    BY <2>1, OneIsWord
<1> DEFINE s0 == <<192, 12>>
           s1 == s0 \o Word(type)
           s2 == s1 \o Word(1)
           s3 == s2 \o Word(hi)
           s4 == s3 \o Word(lo)
           s5 == s4 \o Word(Len(data))
           e == s5 \o data
<1>2. s0 \in Seq(Bytes) /\ Len(s0) = 2 /\ ByteAt(s0, 0) = 192
  <2>1. 192 \in Bytes /\ 12 \in Bytes
    BY DEF Bytes
  <2>2. s0 \in Seq(Bytes) /\ Len(s0) = 2 /\ s0[1] = 192
    BY <2>1
  <2>3. 0 \in 0..Len(s0) - 1 /\ 0 + 1 = 1
    BY <2>2
  <2> HIDE DEF s0
  <2> QED
    BY <2>2, <2>3, Zenon DEF ByteAt
<1>3. s1 = s0 \o Word(type) /\ s2 = s1 \o Word(1) /\ s3 = s2 \o Word(hi)
      /\ s4 = s3 \o Word(lo) /\ s5 = s4 \o Word(Len(data)) /\ e = s5 \o data
  OBVIOUS
<1> HIDE DEF s0, s1, s2, s3, s4, s5
<1>4. Appended(s0, type, 2, s1) /\ s1 \in Seq(Bytes) /\ Len(s1) = 4
  <2>1. Appending(s0, type, 2, s1) /\ 2 \in Nat
    BY <1>3, <1>2, Zenon DEF Appending
  <2>2. Appended(s0, type, 2, s1)
    BY <1>0, <2>1, WordAppendedAt, Zenon
  <2> QED
    BY <2>2 DEF Appended
<1>5. Appended(s1, 1, 4, s2) /\ s2 \in Seq(Bytes) /\ Len(s2) = 6
  <2>1. Appending(s1, 1, 4, s2) /\ 4 \in Nat
    BY <1>3, <1>4, Zenon DEF Appending
  <2>2. Appended(s1, 1, 4, s2)
    BY <1>0, <2>1, WordAppendedAt, Zenon
  <2> QED
    BY <2>2 DEF Appended
<1>6. Appended(s2, hi, 6, s3) /\ s3 \in Seq(Bytes) /\ Len(s3) = 8
  <2>1. Appending(s2, hi, 6, s3) /\ 6 \in Nat
    BY <1>3, <1>5, Zenon DEF Appending
  <2>2. Appended(s2, hi, 6, s3)
    BY <1>0, <2>1, WordAppendedAt, Zenon
  <2> QED
    BY <2>2 DEF Appended
<1>7. Appended(s3, lo, 8, s4) /\ s4 \in Seq(Bytes) /\ Len(s4) = 10
  <2>1. Appending(s3, lo, 8, s4) /\ 8 \in Nat
    BY <1>3, <1>6, Zenon DEF Appending
  <2>2. Appended(s3, lo, 8, s4)
    BY <1>0, <2>1, WordAppendedAt, Zenon
  <2> QED
    BY <2>2 DEF Appended
<1>8. Appended(s4, Len(data), 10, s5) /\ s5 \in Seq(Bytes) /\ Len(s5) = 12
  <2>1. Appending(s4, Len(data), 10, s5) /\ 10 \in Nat
    BY <1>3, <1>7, Zenon DEF Appending
  <2>2. Appended(s4, Len(data), 10, s5)
    BY <1>0, <2>1, WordAppendedAt, Zenon
  <2> QED
    BY <2>2 DEF Appended
<1>9. e \in Seq(Bytes) /\ Len(e) = 12 + Len(data)
      /\ \A o \in Nat : o < 12 => ByteAt(e, o) = ByteAt(s5, o)
  <2>1. s5 \o data \in Seq(Bytes) /\ Len(s5 \o data) = Len(s5) + Len(data)
    BY <1>8, Concatenated, Zenon
  <2>2. \A o \in Nat : o < 12 => ByteAt(s5 \o data, o) = ByteAt(s5, o)
    BY <1>8, ByteOfPart, Zenon
  <2> QED
    BY <1>8, <2>1, <2>2, Zenon
<1>10. \A k \in 1..Len(data) : ByteAt(e, 11 + k) = data[k]
  <2> SUFFICES ASSUME NEW k \in 1..Len(data)
               PROVE  ByteAt(e, 11 + k) = data[k]
    OBVIOUS
  <2>1. k - 1 \in Nat /\ k - 1 < Len(data) /\ 12 + (k - 1) = 11 + k /\ (k - 1) + 1 = k
        /\ k - 1 \in 0..Len(data) - 1
    BY <1>0
  <2>2. ByteAt(s5 \o data, Len(s5) + (k - 1)) = ByteAt(data, k - 1)
    BY <1>8, <2>1, ByteOfPart, Zenon
  <2> QED
    BY <1>3, <1>8, <2>1, <2>2, Zenon DEF ByteAt
<1> HIDE DEF e
<1>11. ByteAt(e, 0) = 192
  BY <1>2, <1>4, <1>5, <1>6, <1>7, <1>8, <1>9 DEF Appended
<1>12. U16(e, 2) = U16(s1, 2) /\ U16(e, 6) = U16(s3, 6) /\ U16(e, 8) = U16(s4, 8) /\ U16(e, 10) = U16(s5, 10)
  <2>1. /\ ByteAt(e, 2) = ByteAt(s1, 2) /\ ByteAt(e, 2 + 1) = ByteAt(s1, 2 + 1)
        /\ ByteAt(e, 6) = ByteAt(s3, 6) /\ ByteAt(e, 6 + 1) = ByteAt(s3, 6 + 1)
        /\ ByteAt(e, 8) = ByteAt(s4, 8) /\ ByteAt(e, 8 + 1) = ByteAt(s4, 8 + 1)
        /\ ByteAt(e, 10) = ByteAt(s5, 10) /\ ByteAt(e, 10 + 1) = ByteAt(s5, 10 + 1)
    BY <1>5, <1>6, <1>7, <1>8, <1>9 DEF Appended
  <2> QED
    BY <2>1, Zenon DEF U16
<1>13. AnswerBytes(e, type, hi, lo, data)
  BY <1>4, <1>6, <1>7, <1>8, <1>9, <1>10, <1>11, <1>12, Zenon DEF AnswerBytes, Appended
<1> QED
  BY <1>13 DEF e, s5, s4, s3, s2, s1, s0

Assembled(e, type, hi, lo, data) ==
  /\ type \in Words /\ hi \in Words /\ lo \in Words /\ data \in Seq(Bytes) /\ Len(data) \in Words
  /\ e = <<192, 12>> \o Word(type) \o Word(1) \o Word(hi) \o Word(lo) \o Word(Len(data)) \o data

LEMMA AssembledAnswer ==
  ASSUME NEW e, NEW type, NEW hi, NEW lo, NEW data, Assembled(e, type, hi, lo, data)
  PROVE  AnswerBytes(e, type, hi, lo, data)
<1>1. /\ type \in Words /\ hi \in Words /\ lo \in Words /\ data \in Seq(Bytes) /\ Len(data) \in Words
      /\ e = <<192, 12>> \o Word(type) \o Word(1) \o Word(hi) \o Word(lo) \o Word(Len(data)) \o data
  BY Zenon DEF Assembled
<1> QED
  BY <1>1, AnswerEncoded

LEMMA TuplesOfBytes ==
  /\ <<0, 0, 0, 0>> \in Seq(Bytes) /\ Len(<<0, 0, 0, 0>>) = 4
  /\ <<3, 97, 112, 105, 0>> \in Seq(Bytes) /\ Len(<<3, 97, 112, 105, 0>>) = 5
  /\ ByteAt(<<3, 97, 112, 105, 0>>, 0) = 3 /\ ByteAt(<<3, 97, 112, 105, 0>>, 4) = 0
<1>1. 0 \in Bytes /\ 3 \in Bytes /\ 97 \in Bytes /\ 112 \in Bytes /\ 105 \in Bytes
  BY DEF Bytes
<1> DEFINE q == <<3, 97, 112, 105, 0>>
<1>2. q \in Seq(Bytes) /\ Len(q) = 5 /\ q[1] = 3 /\ q[5] = 0
  BY <1>1
<1>3. 0 \in 0..Len(q) - 1 /\ 4 \in 0..Len(q) - 1 /\ 0 + 1 = 1 /\ 4 + 1 = 5
  BY <1>2
<1>4. <<0, 0, 0, 0>> \in Seq(Bytes) /\ Len(<<0, 0, 0, 0>>) = 4
  BY <1>1
<1> HIDE DEF q
<1>5. ByteAt(q, 0) = 3 /\ ByteAt(q, 4) = 0
  BY <1>2, <1>3, Zenon DEF ByteAt
<1> QED
  BY <1>2, <1>4, <1>5 DEF q

LEMMA WordAlone ==
  ASSUME NEW n \in Words
  PROVE  Word(n) \in Seq(Bytes) /\ Len(Word(n)) = 2 /\ U16(Word(n), 0) = n
<1>1. <<>> \in Seq(Bytes) /\ Len(<<>>) = 0 /\ 0 + 2 = 2
  OBVIOUS
<1>2. <<>> \o Word(n) \in Seq(Bytes) /\ Len(<<>> \o Word(n)) = Len(<<>>) + 2
      /\ U16(<<>> \o Word(n), Len(<<>>)) = n
  BY <1>1, WordAppended, Zenon
<1>3. <<>> \o Word(n) = Word(n)
  BY DEF Word
<1> QED
  BY <1>1, <1>2, <1>3, Zenon

(* What is read of the header and the question. *)
Header(e, id, code, n) ==
  /\ e \in Seq(Bytes) /\ Len(e) = 21
  /\ U16(e, 0) = id /\ U16(e, 2) = code /\ U16(e, 4) = 1 /\ U16(e, 6) = n
  /\ ByteAt(e, 12) = 3 /\ ByteAt(e, 16) = 0

HeaderAssembled(e, id, code, n) ==
  /\ id \in Words /\ code \in Words /\ n \in Words
  /\ e = Word(id) \o Word(code) \o Word(1) \o Word(n) \o <<0, 0, 0, 0>>
           \o <<3, 97, 112, 105, 0>> \o Word(1) \o Word(1)

LEMMA AssembledHeader ==
  ASSUME NEW e, NEW id, NEW code, NEW n, HeaderAssembled(e, id, code, n)
  PROVE  Header(e, id, code, n)
<1> DEFINE z == <<0, 0, 0, 0>>
           q == <<3, 97, 112, 105, 0>>
           s1 == Word(id)
           s2 == s1 \o Word(code)
           s3 == s2 \o Word(1)
           s4 == s3 \o Word(n)
           s5 == s4 \o z
           s6 == s5 \o q
           s7 == s6 \o Word(1)
           s8 == s7 \o Word(1)
<1>0. /\ id \in Words /\ code \in Words /\ n \in Words
      /\ e = Word(id) \o Word(code) \o Word(1) \o Word(n) \o <<0, 0, 0, 0>>
               \o <<3, 97, 112, 105, 0>> \o Word(1) \o Word(1)
  BY Zenon DEF HeaderAssembled
<1>1. z \in Seq(Bytes) /\ Len(z) = 4 /\ q \in Seq(Bytes) /\ Len(q) = 5
      /\ ByteAt(q, 0) = 3 /\ ByteAt(q, 4) = 0
  BY TuplesOfBytes, Zenon
<1>2. s1 \in Seq(Bytes) /\ Len(s1) = 2 /\ U16(s1, 0) = id
  BY <1>0, WordAlone, Zenon
<1>3. s2 = s1 \o Word(code) /\ s3 = s2 \o Word(1) /\ s4 = s3 \o Word(n)
      /\ s5 = s4 \o z /\ s6 = s5 \o q /\ s7 = s6 \o Word(1) /\ s8 = s7 \o Word(1) /\ e = s8
  BY <1>0, Zenon
<1> HIDE DEF z, q, s1, s2, s3, s4, s5, s6, s7, s8
<1>4. Appended(s1, code, 2, s2) /\ s2 \in Seq(Bytes) /\ Len(s2) = 4
  <2>1. Appending(s1, code, 2, s2) /\ 2 \in Nat
    BY <1>3, <1>2, Zenon DEF Appending
  <2>2. Appended(s1, code, 2, s2)
    BY <1>0, <2>1, OneIsWord, WordAppendedAt, Zenon
  <2> QED
    BY <2>2 DEF Appended
<1>5. Appended(s2, 1, 4, s3) /\ s3 \in Seq(Bytes) /\ Len(s3) = 6
  <2>1. Appending(s2, 1, 4, s3) /\ 4 \in Nat
    BY <1>3, <1>4, Zenon DEF Appending
  <2>2. Appended(s2, 1, 4, s3)
    BY <2>1, OneIsWord, WordAppendedAt, Zenon
  <2> QED
    BY <2>2 DEF Appended
<1>6. Appended(s3, n, 6, s4) /\ s4 \in Seq(Bytes) /\ Len(s4) = 8
  <2>1. Appending(s3, n, 6, s4) /\ 6 \in Nat
    BY <1>3, <1>5, Zenon DEF Appending
  <2>2. Appended(s3, n, 6, s4)
    BY <1>0, <2>1, OneIsWord, WordAppendedAt, Zenon
  <2> QED
    BY <2>2 DEF Appended
<1>7. s5 \in Seq(Bytes) /\ Len(s5) = 12 /\ \A o \in Nat : o < 8 => ByteAt(s5, o) = ByteAt(s4, o)
  <2>1. s4 \o z \in Seq(Bytes) /\ Len(s4 \o z) = Len(s4) + Len(z)
    BY <1>1, <1>6, Concatenated, Zenon
  <2>2. \A o \in Nat : o < 8 => ByteAt(s4 \o z, o) = ByteAt(s4, o)
    BY <1>1, <1>6, ByteOfPart, Zenon
  <2>3. Len(s4) + Len(z) = 12
    BY <1>1, <1>6
  <2> QED
    BY <1>3, <2>1, <2>2, <2>3, Zenon
<1>8. s6 \in Seq(Bytes) /\ Len(s6) = 17 /\ (\A o \in Nat : o < 12 => ByteAt(s6, o) = ByteAt(s5, o))
      /\ ByteAt(s6, 12) = 3 /\ ByteAt(s6, 16) = 0
  <2>1. s5 \o q \in Seq(Bytes) /\ Len(s5 \o q) = Len(s5) + Len(q)
    BY <1>1, <1>7, Concatenated, Zenon
  <2>2. \A o \in Nat : o < 12 => ByteAt(s5 \o q, o) = ByteAt(s5, o)
    BY <1>1, <1>7, ByteOfPart, Zenon
  <2>3. Len(s5) + Len(q) = 17 /\ 0 \in Nat /\ 4 \in Nat /\ 0 < Len(q) /\ 4 < Len(q)
        /\ Len(s5) + 0 = 12 /\ Len(s5) + 4 = 16
    BY <1>1, <1>7
  <2>4. ByteAt(s5 \o q, Len(s5) + 0) = 3 /\ ByteAt(s5 \o q, Len(s5) + 4) = 0
    BY <1>1, <1>7, <2>3, ByteOfPart, Zenon
  <2> QED
    BY <1>3, <2>1, <2>2, <2>3, <2>4, Zenon
<1>9. Appended(s6, 1, 17, s7) /\ s7 \in Seq(Bytes) /\ Len(s7) = 19
  <2>1. Appending(s6, 1, 17, s7) /\ 17 \in Nat
    BY <1>3, <1>8, Zenon DEF Appending
  <2>2. Appended(s6, 1, 17, s7)
    BY <2>1, OneIsWord, WordAppendedAt, Zenon
  <2> QED
    BY <2>2 DEF Appended
<1>10. Appended(s7, 1, 19, s8) /\ s8 \in Seq(Bytes) /\ Len(s8) = 21
  <2>1. Appending(s7, 1, 19, s8) /\ 19 \in Nat
    BY <1>3, <1>9, Zenon DEF Appending
  <2>2. Appended(s7, 1, 19, s8)
    BY <2>1, OneIsWord, WordAppendedAt, Zenon
  <2> QED
    BY <2>2 DEF Appended
<1>11. U16(s8, 0) = U16(s1, 0) /\ U16(s8, 2) = U16(s2, 2) /\ U16(s8, 4) = U16(s3, 4) /\ U16(s8, 6) = U16(s4, 6)
  <2>1. /\ ByteAt(s8, 0) = ByteAt(s1, 0) /\ ByteAt(s8, 0 + 1) = ByteAt(s1, 0 + 1)
        /\ ByteAt(s8, 2) = ByteAt(s2, 2) /\ ByteAt(s8, 2 + 1) = ByteAt(s2, 2 + 1)
        /\ ByteAt(s8, 4) = ByteAt(s3, 4) /\ ByteAt(s8, 4 + 1) = ByteAt(s3, 4 + 1)
        /\ ByteAt(s8, 6) = ByteAt(s4, 6) /\ ByteAt(s8, 6 + 1) = ByteAt(s4, 6 + 1)
    BY <1>4, <1>5, <1>6, <1>7, <1>8, <1>9, <1>10 DEF Appended
  <2> QED
    BY <2>1, Zenon DEF U16
<1>12. ByteAt(s8, 12) = 3 /\ ByteAt(s8, 16) = 0
  BY <1>8, <1>9, <1>10 DEF Appended
<1>13. U16(s2, 2) = code /\ U16(s3, 4) = 1 /\ U16(s4, 6) = n
  BY <1>4, <1>5, <1>6, Zenon DEF Appended
<1> QED
  BY <1>2, <1>3, <1>10, <1>11, <1>12, <1>13, Zenon DEF Header

-----------------------------------------------------------------------------
(* A message that grows by its parts                                       *)

Grows(T, g, n, seqs) == \A i \in 1..n : seqs[i] \in Seq(T) /\ g[i] = g[i - 1] \o seqs[i]

Extends(T, s, t) == \E u \in Seq(T) : t = s \o u

LEMMA ExtendsMore ==
  ASSUME NEW T, NEW s \in Seq(T), NEW t \in Seq(T), NEW u \in Seq(T), Extends(T, s, t)
  PROVE  Extends(T, s, t \o u)
<1>1. PICK v \in Seq(T) : t = s \o v
  BY DEF Extends
<1>2. t \o u = s \o (v \o u) /\ v \o u \in Seq(T)
  BY <1>1, ConcatAssociative, Concatenated
<1> QED
  BY <1>2, Zenon DEF Extends

LEMMA ExtendsAtAll ==
  ASSUME NEW T, NEW s \in Seq(T)
  PROVE  Extends(T, s, s)
<1>1. s = s \o <<>> /\ <<>> \in Seq(T)
  OBVIOUS
<1> QED
  BY <1>1, Zenon DEF Extends

LEMMA PartsAreBytes ==
  ASSUME NEW T, NEW n \in Nat, NEW seqs, NEW g, g[0] \in Seq(T), Grows(T, g, n, seqs)
  PROVE  \A i \in 0..n : g[i] \in Seq(T)
<1> DEFINE p == {k \in Nat : k <= n => g[k] \in Seq(T)}
<1>1. 0 \in p
  OBVIOUS
<1>2. ASSUME NEW k \in Nat, k \in p
      PROVE  k + 1 \in p
  <2> SUFFICES ASSUME k + 1 <= n
               PROVE  g[k + 1] \in Seq(T)
    OBVIOUS
  <2>1. k + 1 \in 1..n /\ (k + 1) - 1 = k /\ g[k] \in Seq(T)
    BY <1>2
  <2>2. seqs[k + 1] \in Seq(T) /\ g[k + 1] = g[(k + 1) - 1] \o seqs[k + 1]
    BY <2>1, Zenon DEF Grows
  <2>3. g[k + 1] = g[k] \o seqs[k + 1]
    BY <2>1, <2>2
  <2>4. g[k] \o seqs[k + 1] \in Seq(T)
    BY <2>1, <2>2, Concatenated, Zenon
  <2> QED
    BY <2>3, <2>4, Zenon
<1> HIDE DEF p
<1>3. \A k \in Nat : k \in p
  BY <1>1, <1>2, Induction, Zenon
<1> QED
  BY <1>3 DEF p

(* Each part of a message is the beginning of the whole. *)
LEMMA Beginnings ==
  ASSUME NEW T, NEW n \in Nat, NEW seqs, NEW g, g[0] \in Seq(T), Grows(T, g, n, seqs)
  PROVE  \A i \in 0..n : Extends(T, g[i], g[n])
<1> DEFINE p == {k \in Nat : k <= n => \A i \in 0..k : Extends(T, g[i], g[k])}
<1>1. 0 \in p
  <2>1. \A i \in 0..0 : i = 0
    OBVIOUS
  <2> QED
    BY <2>1, ExtendsAtAll
<1>2. ASSUME NEW k \in Nat, k \in p
      PROVE  k + 1 \in p
  <2> SUFFICES ASSUME k + 1 <= n, NEW i \in 0..k + 1
               PROVE  Extends(T, g[i], g[k + 1])
    OBVIOUS
  <2>1. k + 1 \in 1..n /\ (k + 1) - 1 = k /\ k + 1 \in 0..n /\ k \in 0..n /\ i \in 0..n
    OBVIOUS
  <2>2. seqs[k + 1] \in Seq(T) /\ g[k + 1] = g[(k + 1) - 1] \o seqs[k + 1]
    BY <2>1, Zenon DEF Grows
  <2>3. g[i] \in Seq(T) /\ g[k] \in Seq(T) /\ g[k + 1] \in Seq(T)
    BY <2>1, PartsAreBytes
  <2>4. CASE i = k + 1
    BY <2>3, <2>4, ExtendsAtAll
  <2>5. CASE i # k + 1
    <3>1. i \in 0..k /\ k <= n
      BY <2>5
    <3>2. Extends(T, g[i], g[k])
      BY <1>2, <3>1
    <3>3. Extends(T, g[i], g[k] \o seqs[k + 1])
      BY <2>2, <2>3, <3>2, ExtendsMore, Zenon
    <3> QED
      BY <2>1, <2>2, <3>3, Zenon
  <2> QED
    BY <2>4, <2>5
<1> HIDE DEF p
<1>3. n \in p
  BY <1>1, <1>2, Induction, Zenon
<1> QED
  BY <1>3 DEF p

(* What is read in a part is read in a message that begins with it. *)
LEMMA ByteOfBeginning ==
  ASSUME NEW s \in Seq(Bytes), NEW t \in Seq(Bytes), Extends(Bytes, s, t), NEW l \in 0..Len(t)
  PROVE  /\ Len(s) <= Len(t)
         /\ \A o \in Nat : o < Len(s) /\ o < l => ByteAt(SubSeq(t, 1, l), o) = ByteAt(s, o)
<1>1. PICK u \in Seq(Bytes) : t = s \o u
  BY DEF Extends
<1>2. Len(s) <= Len(t)
  <2>1. Len(s \o u) = Len(s) + Len(u) /\ Len(s) \in Nat /\ Len(u) \in Nat
    OBVIOUS
  <2> QED
    BY <1>1, <2>1
<1>3. \A o \in Nat : o < Len(s) => ByteAt(t, o) = ByteAt(s, o)
  BY <1>1, ByteOfPart, Zenon
<1> QED
  BY <1>2, <1>3, ByteOfCut

Starts(buf, l, whole) == l \in 0..Len(whole) /\ buf = SubSeq(whole, 1, l)

Part(a, s, e, buf, l) ==
  /\ a \in Seq(Bytes) /\ s \in Seq(Bytes) /\ e = a \o s
  /\ \A o \in Nat : o < Len(e) /\ o < l => ByteAt(buf, o) = ByteAt(e, o)

PartRead(a, s, e, buf, l) ==
  /\ Len(e) \in Nat /\ Len(e) = Len(a) + Len(s)
  /\ \A o \in Nat : o < Len(s) /\ Len(a) + o < l => ByteAt(buf, Len(a) + o) = ByteAt(s, o)

LEMMA BytesOfPart ==
  ASSUME NEW a, NEW s, NEW e, NEW buf, NEW l, Part(a, s, e, buf, l)
  PROVE  PartRead(a, s, e, buf, l)
<1>0. /\ a \in Seq(Bytes) /\ s \in Seq(Bytes) /\ e = a \o s
      /\ \A o \in Nat : o < Len(e) /\ o < l => ByteAt(buf, o) = ByteAt(e, o)
  BY DEF Part
<1>1. Len(e) = Len(a) + Len(s) /\ Len(a) \in Nat /\ Len(s) \in Nat
  BY <1>0
<1>2. ASSUME NEW o \in Nat, o < Len(s), Len(a) + o < l
      PROVE  ByteAt(buf, Len(a) + o) = ByteAt(s, o)
  <2>1. ByteAt(e, Len(a) + o) = ByteAt(s, o)
    BY <1>0, <1>2, ByteOfPart, Zenon
  <2>2. Len(a) + o \in Nat /\ Len(a) + o < Len(e)
    BY <1>1, <1>2
  <2>3. ByteAt(buf, Len(a) + o) = ByteAt(e, Len(a) + o)
    BY <1>0, <1>2, <2>2, Zenon
  <2> QED
    BY <2>1, <2>3, Zenon
<1> QED
  BY <1>1, <1>2 DEF PartRead

Growing(g, n, seqs, buf, l) ==
  n \in Nat /\ g[0] \in Seq(Bytes) /\ Grows(Bytes, g, n, seqs) /\ Starts(buf, l, g[n])

Held(g, n, seqs, buf, l) ==
  /\ \A o \in Nat : o < Len(g[0]) /\ o < l => ByteAt(buf, o) = ByteAt(g[0], o)
  /\ \A i \in 1..n : \A o \in Nat : o < Len(seqs[i]) /\ Len(g[i - 1]) + o < l =>
       ByteAt(buf, Len(g[i - 1]) + o) = ByteAt(seqs[i], o)

LEMMA BytesOfMessage ==
  ASSUME NEW g, NEW n, NEW seqs, NEW buf, NEW l, Growing(g, n, seqs, buf, l)
  PROVE  Held(g, n, seqs, buf, l)
<1>0. n \in Nat /\ g[0] \in Seq(Bytes) /\ Grows(Bytes, g, n, seqs) /\ Starts(buf, l, g[n])
  BY DEF Growing
<1>1. \A i \in 0..n : g[i] \in Seq(Bytes) /\ Len(g[i]) \in Nat /\ Extends(Bytes, g[i], g[n])
  <2>1. \A i \in 0..n : g[i] \in Seq(Bytes) /\ Extends(Bytes, g[i], g[n])
    BY <1>0, PartsAreBytes, Beginnings, Zenon
  <2>2. \A s \in Seq(Bytes) : Len(s) \in Nat
    OBVIOUS
  <2> QED
    BY <2>1, <2>2, Zenon
<1>2. l \in 0..Len(g[n]) /\ buf = SubSeq(g[n], 1, l) /\ 0 \in 0..n /\ n \in 0..n
  BY <1>0 DEF Starts
<1>3. \A i \in 0..n : \A o \in Nat : o < Len(g[i]) /\ o < l => ByteAt(buf, o) = ByteAt(g[i], o)
  BY <1>1, <1>2, ByteOfBeginning, Zenon
<1>4. ASSUME NEW i \in 1..n
      PROVE  /\ Len(g[i]) \in Nat /\ Len(g[i]) = Len(g[i - 1]) + Len(seqs[i])
             /\ \A o \in Nat : o < Len(seqs[i]) /\ Len(g[i - 1]) + o < l =>
                  ByteAt(buf, Len(g[i - 1]) + o) = ByteAt(seqs[i], o)
  <2>1. i \in 0..n /\ i - 1 \in 0..n
    BY <1>0
  <2>2. g[i] = g[i - 1] \o seqs[i] /\ seqs[i] \in Seq(Bytes) /\ g[i - 1] \in Seq(Bytes)
    BY <1>0, <1>1, <2>1, Zenon DEF Grows
  <2>3. \A o \in Nat : o < Len(g[i]) /\ o < l => ByteAt(buf, o) = ByteAt(g[i], o)
    BY <1>3, <2>1, Zenon
  <2>4. PartRead(g[i - 1], seqs[i], g[i], buf, l)
    <3>1. Part(g[i - 1], seqs[i], g[i], buf, l)
      BY <2>2, <2>3, Zenon DEF Part
    <3> QED
      BY <3>1, BytesOfPart, Zenon
  <2> QED
    BY <2>4, Zenon DEF PartRead
<1> QED
  BY <1>1, <1>2, <1>3, <1>4, Zenon DEF Held

-----------------------------------------------------------------------------
(* An answer in a message, and what the parser makes of it                 *)

(* What is read of an answer that begins at o, in a message cut at l. *)
AnswerRead(buf, l, o, type, hi, lo, data) ==
  /\ o < l => ByteAt(buf, o) = 192
  /\ o + 12 <= l =>
       U16(buf, o + 2) = type /\ U16(buf, o + 6) = hi /\ U16(buf, o + 8) = lo
       /\ U16(buf, o + 10) = Len(data)
  /\ o + 12 + Len(data) <= l => \A k \in 1..Len(data) : ByteAt(buf, o + 11 + k) = data[k]

(* e is held in buf from offset o on, as far as the first l bytes go. *)
PartHeld(e, type, hi, lo, data, buf, l, o) ==
  /\ Len(data) \in Nat /\ AnswerBytes(e, type, hi, lo, data) /\ l \in Nat /\ o \in Nat
  /\ \A k \in Nat : k < Len(e) /\ o + k < l => ByteAt(buf, o + k) = ByteAt(e, k)

LEMMA PartHeldRead ==
  ASSUME NEW e, NEW type, NEW hi, NEW lo, NEW data, NEW buf, NEW l, NEW o, PartHeld(e, type, hi, lo, data, buf, l, o)
  PROVE  AnswerRead(buf, l, o, type, hi, lo, data)
<1>0. /\ Len(data) \in Nat /\ l \in Nat /\ o \in Nat /\ AnswerBytes(e, type, hi, lo, data)
      /\ \A k \in Nat : k < Len(e) /\ o + k < l => ByteAt(buf, o + k) = ByteAt(e, k)
  BY DEF PartHeld
<1>1. /\ Len(e) = 12 + Len(data) /\ ByteAt(e, 0) = 192
      /\ U16(e, 2) = type /\ U16(e, 6) = hi /\ U16(e, 8) = lo /\ U16(e, 10) = Len(data)
      /\ \A k \in 1..Len(data) : ByteAt(e, 11 + k) = data[k]
  BY <1>0, Zenon DEF AnswerBytes
<1>2. o < l => ByteAt(buf, o) = 192
  <2> SUFFICES ASSUME o < l
               PROVE  ByteAt(buf, o) = 192
    OBVIOUS
  <2>1. 0 < Len(e) /\ o + 0 = o /\ o + 0 < l
    BY <1>0, <1>1
  <2>2. ByteAt(buf, o + 0) = ByteAt(e, 0)
    BY <1>0, <2>1
  <2> QED
    BY <1>1, <2>1, <2>2
<1>3. o + 12 <= l =>
        U16(buf, o + 2) = type /\ U16(buf, o + 6) = hi /\ U16(buf, o + 8) = lo
        /\ U16(buf, o + 10) = Len(data)
  <2> SUFFICES ASSUME o + 12 <= l
               PROVE  U16(buf, o + 2) = type /\ U16(buf, o + 6) = hi /\ U16(buf, o + 8) = lo
                      /\ U16(buf, o + 10) = Len(data)
    OBVIOUS
  <2>1. \A k \in 0..11 : k \in Nat /\ k < Len(e) /\ o + k < l
    BY <1>0, <1>1
  <2>2. \A k \in 0..11 : ByteAt(buf, o + k) = ByteAt(e, k)
    BY <1>0, <2>1
  <2>3. \A k \in 0..10 : ByteAt(buf, o + k) = ByteAt(e, k) /\ ByteAt(buf, o + k + 1) = ByteAt(e, k + 1)
    <3> SUFFICES ASSUME NEW k \in 0..10
                 PROVE  ByteAt(buf, o + k) = ByteAt(e, k) /\ ByteAt(buf, o + k + 1) = ByteAt(e, k + 1)
      OBVIOUS
    <3>1. k \in 0..11 /\ k + 1 \in 0..11 /\ o + (k + 1) = o + k + 1
      BY <1>0
    <3>2. ByteAt(buf, o + (k + 1)) = ByteAt(e, k + 1)
      BY <2>2, <3>1, Zenon
    <3> QED
      BY <2>2, <3>1, <3>2
  <2>4. \A k \in 0..10 : U16(buf, o + k) = U16(e, k)
    BY <2>3, Zenon DEF U16
  <2>5. 2 \in 0..10 /\ 6 \in 0..10 /\ 8 \in 0..10 /\ 10 \in 0..10
    OBVIOUS
  <2> QED
    BY <1>1, <2>4, <2>5, Zenon
<1>4. o + 12 + Len(data) <= l => \A k \in 1..Len(data) : ByteAt(buf, o + 11 + k) = data[k]
  <2> SUFFICES ASSUME o + 12 + Len(data) <= l, NEW k \in 1..Len(data)
               PROVE  ByteAt(buf, o + 11 + k) = data[k]
    OBVIOUS
  <2>1. 11 + k \in Nat /\ 11 + k < Len(e) /\ o + (11 + k) < l /\ o + (11 + k) = o + 11 + k
    BY <1>0, <1>1
  <2>2. ByteAt(buf, o + (11 + k)) = ByteAt(e, 11 + k)
    BY <1>0, <2>1
  <2>3. ByteAt(e, 11 + k) = data[k]
    BY <1>1
  <2> QED
    BY <2>1, <2>2, <2>3
<1> QED
  BY <1>2, <1>3, <1>4 DEF AnswerRead

TtlRead(hi, lo) == IF hi = 0 THEN lo ELSE MaxRead

WithAnswer(at, off, type, hi, lo, data) ==
  IF type = 1 /\ Len(data) = 4
  THEN [off |-> off, ips |-> Append(at.ips, data), ttl |-> Min({at.ttl, TtlRead(hi, lo)})]
  ELSE [at EXCEPT !.off = off]

RecordReady(buf, at, l, o, type, hi, lo, data) ==
  /\ l \in Nat /\ Len(buf) = l /\ o \in Nat /\ at.off = o /\ o < l /\ SkipsAt(buf, o)
  /\ data \in Seq(Bytes) /\ AnswerRead(buf, l, o, type, hi, lo, data)

RecordDone(buf, at, l, o, type, hi, lo, data) ==
  Record(buf, at) =
    IF o + 12 + Len(data) <= l THEN WithAnswer(at, o + 12 + Len(data), type, hi, lo, data)
    ELSE [at EXCEPT !.off = Malformed]

LEMMA RecordReads ==
  ASSUME NEW buf, NEW at, NEW l, NEW o, NEW type, NEW hi, NEW lo, NEW data,
         RecordReady(buf, at, l, o, type, hi, lo, data)
  PROVE  RecordDone(buf, at, l, o, type, hi, lo, data)
<1>0. /\ l \in Nat /\ Len(buf) = l /\ o \in Nat /\ at.off = o /\ o < l /\ SkipsAt(buf, o)
      /\ data \in Seq(Bytes) /\ AnswerRead(buf, l, o, type, hi, lo, data) /\ Len(data) \in Nat
  <2>1. data \in Seq(Bytes)
    BY DEF RecordReady
  <2>2. Len(data) \in Nat
    BY <2>1
  <2> QED
    BY <2>2 DEF RecordReady
<1>1. SkipName(buf, at.off) = IF o + 2 > l THEN Malformed ELSE o + 2
  BY <1>0 DEF SkipsAt, AnswerRead
<1> SUFFICES Record(buf, at) =
           IF o + 12 + Len(data) <= l THEN WithAnswer(at, o + 12 + Len(data), type, hi, lo, data)
           ELSE [at EXCEPT !.off = Malformed]
  BY DEF RecordDone
<1>2. CASE o + 2 > l
  <2>1. ~(o + 12 + Len(data) <= l) /\ SkipName(buf, at.off) = Malformed
    BY <1>0, <1>1, <1>2
  <2> QED
    BY <1>0, <2>1 DEF Record
<1>3. CASE ~(o + 2 > l) /\ o + 12 > l
  <2>1. ~(o + 12 + Len(data) <= l) /\ SkipName(buf, at.off) = o + 2 /\ (o + 2) + 10 > l
    BY <1>0, <1>1, <1>3
  <2> QED
    BY <1>0, <2>1 DEF Record
<1>4. CASE o + 12 <= l
  <2>1. SkipName(buf, at.off) = o + 2 /\ o + 2 # Malformed /\ ~((o + 2) + 10 > l)
        /\ (o + 2) + 8 = o + 10 /\ (o + 2) + 4 = o + 6 /\ (o + 6) + 2 = o + 8
        /\ (o + 2) + 10 + Len(data) = o + 12 + Len(data)
        /\ ((o + 12 + Len(data) > l) <=> ~(o + 12 + Len(data) <= l))
        /\ \A k \in 1..4 : (o + 2) + 9 + k = o + 11 + k
    BY <1>0, <1>1, <1>4 DEF Malformed
  <2>2. U16(buf, o + 2) = type /\ U16(buf, o + 6) = hi /\ U16(buf, o + 8) = lo
        /\ U16(buf, o + 10) = Len(data)
    BY <1>0, <1>4 DEF AnswerRead
  <2>3. U32(buf, o + 6) = TtlRead(hi, lo)
    BY <2>1, <2>2, Zenon DEF U32, TtlRead
  <2>4. CASE o + 12 + Len(data) > l
    <3>1. Record(buf, at) = [at EXCEPT !.off = Malformed]
      BY <1>0, <2>1, <2>2, <2>4, Zenon DEF Record
    <3> QED
      BY <2>1, <2>4, <3>1, Zenon
  <2>5. CASE o + 12 + Len(data) <= l
    <3> DEFINE ip == [k \in 1..4 |-> ByteAt(buf, (o + 2) + 9 + k)]
    <3>1. ASSUME Len(data) = 4
          PROVE  ip = data
      <4>1. \A k \in 1..4 : ByteAt(buf, (o + 2) + 9 + k) = data[k]
        BY <1>0, <2>1, <2>5, <3>1 DEF AnswerRead
      <4>2. data \in [1..4 -> Bytes]
        <5>1. data \in [1..Len(data) -> Bytes]
          BY <1>0, LenProperties, Zenon
        <5> QED
          BY <3>1, <5>1, Zenon
      <4>3. ip = [k \in 1..4 |-> data[k]]
        BY <4>1, Zenon
      <4> QED
        BY <4>2, <4>3, Zenon
    <3>2. ~((o + 2) + 10 + Len(data) > l)
      BY <2>1, <2>5, Zenon
    <3>3. Record(buf, at) =
            IF type = 1 /\ Len(data) = 4
            THEN [off |-> (o + 2) + 10 + Len(data), ips |-> Append(at.ips, ip), ttl |-> Min({at.ttl, TtlRead(hi, lo)})]
            ELSE [at EXCEPT !.off = (o + 2) + 10 + Len(data)]
      <4> DEFINE q == o + 2
                 next == q + 10 + Len(data)
      <4>1. /\ SkipName(buf, at.off) = q /\ q # Malformed /\ ~(q + 10 > Len(buf)) /\ ~(next > Len(buf))
            /\ U16(buf, q + 8) = Len(data) /\ U16(buf, q) = type /\ U32(buf, q + 4) = TtlRead(hi, lo)
        BY <1>0, <2>1, <2>2, <2>3, <3>2
      <4>2. ip = [k \in 1..4 |-> ByteAt(buf, q + 9 + k)] /\ next = q + 10 + Len(data)
        OBVIOUS
      <4> HIDE DEF q, ip, next
      <4>3. Record(buf, at) =
              IF type = 1 /\ Len(data) = 4
              THEN [off |-> next, ips |-> Append(at.ips, ip), ttl |-> Min({at.ttl, TtlRead(hi, lo)})]
              ELSE [at EXCEPT !.off = next]
        BY <4>1, <4>2 DEF Record, IsAddress
      <4> QED
        BY <4>3 DEF next, q
    <3> HIDE DEF ip
    <3> QED
      BY <2>1, <2>5, <3>1, <3>3, Zenon DEF WithAnswer
  <2> QED
    BY <2>1, <2>4, <2>5, Zenon
<1>5. o + 2 > l \/ (~(o + 2 > l) /\ o + 12 > l) \/ o + 12 <= l
  BY <1>0
<1> QED
  BY <1>2, <1>3, <1>4, <1>5

-----------------------------------------------------------------------------
(* The parser, from the header to the last answer                          *)

PastName(end) == IF end = Malformed THEN end ELSE end + 4

LEMMA OneQuestion ==
  ASSUME NEW buf, U16(buf, 4) = 1
  PROVE  Questions(buf) = IF PastName(SkipName(buf, 12)) > Len(buf) THEN Malformed ELSE PastName(SkipName(buf, 12))
<1> DEFINE v == PastName(SkipName(buf, 12))
           Past(g) == g = [q \in 0..U16(buf, 4) |-> IF q = 0 THEN 12 ELSE PastName(SkipName(buf, g[q - 1]))]
           past == CHOOSE g : Past(g)
           f == [q \in 0..U16(buf, 4) |-> IF q = 0 THEN 12 ELSE v]
<1>1. Past(f)
  <2> SUFFICES ASSUME NEW q \in 0..U16(buf, 4), q # 0
               PROVE  v = PastName(SkipName(buf, f[q - 1]))
    BY Zenon
  <2>1. q = 1 /\ q - 1 = 0 /\ 0 \in 0..U16(buf, 4)
    OBVIOUS
  <2>2. f[q - 1] = 12
    BY <2>1
  <2> QED
    BY <2>2, Zenon
<1>2. Past(past)
  BY <1>1, Zenon
<1>3. 0 \in 0..U16(buf, 4) /\ 1 \in 0..U16(buf, 4) /\ 1 - 1 = 0 /\ 1 # 0
  OBVIOUS
<1>4. Questions(buf) = IF past[U16(buf, 4)] > Len(buf) THEN Malformed ELSE past[U16(buf, 4)]
  BY DEF Questions, PastName
<1> HIDE DEF past
<1>5. past[0] = 12
  BY <1>2, <1>3, Zenon
<1>6. past[1] = PastName(SkipName(buf, past[1 - 1]))
  BY <1>2, <1>3, Zenon
<1> QED
  BY <1>3, <1>4, <1>5, <1>6

LEMMA QuestionsRead ==
  ASSUME NEW buf, NEW l \in Nat, Len(buf) = l, U16(buf, 4) = 1, SkipsAt(buf, 12), SkipsAt(buf, 16),
         l > 12 => ByteAt(buf, 12) = 3, l > 16 => ByteAt(buf, 16) = 0
  PROVE  Questions(buf) = IF l >= 21 THEN 21 ELSE Malformed
<1>1. SkipName(buf, 12) = IF l > 16 THEN 17 ELSE Malformed
  <2>1. SkipName(buf, 16) = IF l > 16 THEN 17 ELSE Malformed
    BY DEF SkipsAt
  <2>2. CASE l <= 12
    BY <2>2 DEF SkipsAt
  <2>3. CASE l > 12
    <3>1. 12 + 4 = 16 /\ 12 < Len(buf)
      BY <2>3
    <3>2. SkipName(buf, 12) = SkipName(buf, 12 + 4)
      BY <2>3, <3>1 DEF SkipsAt
    <3> QED
      BY <2>1, <3>1, <3>2
  <2> QED
    BY <2>2, <2>3
<1>2. Questions(buf) = IF PastName(SkipName(buf, 12)) > l THEN Malformed ELSE PastName(SkipName(buf, 12))
  BY OneQuestion
<1> QED
  BY <1>1, <1>2 DEF PastName, Malformed

(* What the first n answers of a message make of the addresses and the TTL. *)
AnswersFrom(buf, f, n) ==
  IF n = 0 THEN [off |-> Questions(buf), ips |-> <<>>, ttl |-> MaxRead]
  ELSE LET at == f[n - 1] IN IF at.off = Malformed \/ at.off >= Len(buf) THEN at ELSE Record(buf, at)

LEMMA AnswersStepwise ==
  ASSUME NEW buf, NEW f, NEW n \in Nat, U16(buf, 6) = n, f = [i \in 0..n |-> AnswersFrom(buf, f, i)]
  PROVE  \E g : /\ \A i \in 0..n : g[i] = AnswersFrom(buf, g, i)
                /\ Answers(buf) = IF g[n].off = Malformed THEN Failed
                                  ELSE [ok |-> TRUE, ips |-> g[n].ips, ttl |-> IF g[n].ips = <<>> THEN 0 ELSE g[n].ttl]
<1> DEFINE After(g) == g = [i \in 0..U16(buf, 6) |-> AnswersFrom(buf, g, i)]
           after == CHOOSE g : After(g)
<1>1. After(after)
  BY Zenon
<1>2. Answers(buf) = IF after[U16(buf, 6)].off = Malformed THEN Failed
                     ELSE [ok |-> TRUE, ips |-> after[U16(buf, 6)].ips,
                           ttl |-> IF after[U16(buf, 6)].ips = <<>> THEN 0 ELSE after[U16(buf, 6)].ttl]
  BY DEF Answers, AnswersFrom
<1> HIDE DEF after
<1>3. \A i \in 0..n : after[i] = AnswersFrom(buf, after, i)
  BY <1>1
<1> QED
  BY <1>2, <1>3, Zenon

High(n) == n \div 65536

Low(n) == n % 65536

AnswerHeld(buf, l, o, a) == AnswerRead(buf, l, o, a.type, High(a.ttl), Low(a.ttl), a.data)

TtlHeld(a) == TtlRead(High(a.ttl), Low(a.ttl))

(* Where the answers end, and the addresses and the TTL up to there. *)
Progress(ans, at, adr, t) ==
  /\ at[0] = 21 /\ adr[0] = <<>> /\ t[0] = MaxRead
  /\ \A i \in 0..Len(ans) : at[i] \in Nat
  /\ \A i \in 1..Len(ans) :
       /\ ans[i].data \in Seq(Bytes)
       /\ at[i] = at[i - 1] + 12 + Len(ans[i].data)
       /\ adr[i] = IF HoldsAddress(ans[i]) THEN Append(adr[i - 1], ans[i].data) ELSE adr[i - 1]
       /\ t[i] = IF HoldsAddress(ans[i]) THEN Min({t[i - 1], TtlHeld(ans[i])}) ELSE t[i - 1]

HeaderHeld(buf, l, id, code, n) ==
  /\ l >= 12 => U16(buf, 0) = id /\ U16(buf, 2) = code /\ U16(buf, 4) = 1 /\ U16(buf, 6) = n
  /\ (l > 12 => ByteAt(buf, 12) = 3) /\ (l > 16 => ByteAt(buf, 16) = 0)

(* The first l bytes of a message with these answers. *)
Message(buf, l, id, code, ans, at) ==
  /\ l \in Nat /\ Len(buf) = l /\ Readable(buf) /\ Len(ans) \in Nat
  /\ l <= at[Len(ans)] /\ \A i \in 0..Len(ans) : at[i] <= at[Len(ans)]
  /\ HeaderHeld(buf, l, id, code, Len(ans))
  /\ \A i \in 1..Len(ans) :
       AnswerHeld(buf, l, at[i - 1], ans[i])

Reached(at, adr, t, m) == [off |-> at[m], ips |-> adr[m], ttl |-> t[m]]

Stopped(adr, t, m) == [off |-> Malformed, ips |-> adr[m], ttl |-> t[m]]

HeldAt(buf, l, o, a) ==
  /\ Readable(buf) /\ l \in Nat /\ Len(buf) = l /\ o \in Nat /\ o < l
  /\ a.data \in Seq(Bytes) /\ AnswerHeld(buf, l, o, a)

ReadAt(buf, l, o, a, x, y) ==
  Record(buf, [off |-> o, ips |-> x, ttl |-> y]) =
    IF o + 12 + Len(a.data) <= l
    THEN [off |-> o + 12 + Len(a.data),
          ips |-> IF HoldsAddress(a) THEN Append(x, a.data) ELSE x,
          ttl |-> IF HoldsAddress(a) THEN Min({y, TtlHeld(a)}) ELSE y]
    ELSE [off |-> Malformed, ips |-> x, ttl |-> y]

LEMMA HeldAnswerRead ==
  ASSUME NEW buf, NEW l, NEW o, NEW a, HeldAt(buf, l, o, a), NEW x, NEW y
  PROVE  ReadAt(buf, l, o, a, x, y)
<1> DEFINE s == [off |-> o, ips |-> x, ttl |-> y]
           hi == High(a.ttl)
           lo == Low(a.ttl)
           type == a.type
           data == a.data
<1>0. /\ Readable(buf) /\ l \in Nat /\ Len(buf) = l /\ o \in Nat /\ o < l
      /\ data \in Seq(Bytes)
  BY DEF HeldAt
<1>1. SkipsAt(buf, o)
  BY <1>0, SkipNameAt
<1>2. AnswerRead(buf, l, o, type, hi, lo, data) /\ TtlHeld(a) = TtlRead(hi, lo)
  BY DEF HeldAt, AnswerHeld, TtlHeld
<1>3. s.off = o /\ s = [off |-> o, ips |-> x, ttl |-> y]
  OBVIOUS
<1>4. HoldsAddress(a) <=> type = 1 /\ Len(data) = 4
  BY DEF HoldsAddress
<1> HIDE DEF s, hi, lo, type, data
<1>5. RecordDone(buf, s, l, o, type, hi, lo, data)
  <2>1. RecordReady(buf, s, l, o, type, hi, lo, data)
    BY <1>0, <1>1, <1>2, <1>3, Zenon DEF RecordReady
  <2> QED
    BY <2>1, RecordReads, Zenon
<1>6. WithAnswer(s, o + 12 + Len(data), type, hi, lo, data) =
        [off |-> o + 12 + Len(data),
         ips |-> IF HoldsAddress(a) THEN Append(x, data) ELSE x,
         ttl |-> IF HoldsAddress(a) THEN Min({y, TtlHeld(a)}) ELSE y]
  BY <1>2, <1>3, <1>4 DEF WithAnswer
<1>7. [s EXCEPT !.off = Malformed] = [off |-> Malformed, ips |-> x, ttl |-> y]
  BY <1>3
<1>8. Record(buf, s) =
        IF o + 12 + Len(data) <= l
        THEN [off |-> o + 12 + Len(data),
              ips |-> IF HoldsAddress(a) THEN Append(x, data) ELSE x,
              ttl |-> IF HoldsAddress(a) THEN Min({y, TtlHeld(a)}) ELSE y]
        ELSE [off |-> Malformed, ips |-> x, ttl |-> y]
  BY <1>5, <1>6, <1>7, Zenon DEF RecordDone
<1> QED
  BY <1>8, Zenon DEF s, data, ReadAt

LEMMA OneMore ==
  ASSUME NEW buf, NEW l, NEW id, NEW code, NEW ans, NEW at, NEW adr, NEW t, Message(buf, l, id, code, ans, at),
         Progress(ans, at, adr, t), NEW i \in 1..Len(ans), at[i - 1] < l
  PROVE  Record(buf, Reached(at, adr, t, i - 1)) =
           IF at[i] <= l THEN Reached(at, adr, t, i) ELSE Stopped(adr, t, i - 1)
<1>1. l \in Nat /\ Len(buf) = l /\ Readable(buf) /\ Len(ans) \in Nat
  BY DEF Message
<1>2. i - 1 \in 0..Len(ans)
  BY <1>1
<1>3. /\ at[i - 1] \in Nat /\ ans[i].data \in Seq(Bytes) /\ at[i] = at[i - 1] + 12 + Len(ans[i].data)
      /\ adr[i] = IF HoldsAddress(ans[i]) THEN Append(adr[i - 1], ans[i].data) ELSE adr[i - 1]
      /\ t[i] = IF HoldsAddress(ans[i]) THEN Min({t[i - 1], TtlHeld(ans[i])}) ELSE t[i - 1]
  BY <1>2, Zenon DEF Progress
<1>4. AnswerHeld(buf, l, at[i - 1], ans[i])
  BY DEF Message
<1>5. HeldAt(buf, l, at[i - 1], ans[i])
  BY <1>1, <1>3, <1>4 DEF HeldAt
<1>6. ReadAt(buf, l, at[i - 1], ans[i], adr[i - 1], t[i - 1])
  BY <1>5, HeldAnswerRead, Zenon
<1> QED
  BY <1>3, <1>6 DEF Reached, Stopped, ReadAt

Found(adr, t, m) == [ok |-> TRUE, ips |-> adr[m], ttl |-> IF adr[m] = <<>> THEN 0 ELSE t[m]]

NextAnswer(buf, s) == IF s.off = Malformed \/ s.off >= Len(buf) THEN s ELSE Record(buf, s)

States(ans, at, adr, t) ==
  {Reached(at, adr, t, m) : m \in 0..Len(ans)} \cup {Stopped(adr, t, m) : m \in 0..Len(ans)}

LEMMA StatesClosed ==
  ASSUME NEW buf, NEW l, NEW id, NEW code, NEW ans, NEW at, NEW adr, NEW t, Message(buf, l, id, code, ans, at),
         Progress(ans, at, adr, t)
  PROVE  /\ \A s \in States(ans, at, adr, t) : NextAnswer(buf, s) \in States(ans, at, adr, t)
         /\ l >= 12 =>
              [off |-> Questions(buf), ips |-> <<>>, ttl |-> MaxRead]
                = IF l >= 21 THEN Reached(at, adr, t, 0) ELSE Stopped(adr, t, 0)
<1>1. l \in Nat /\ Len(buf) = l /\ Readable(buf) /\ Len(ans) \in Nat
      /\ l <= at[Len(ans)] /\ at[0] = 21 /\ adr[0] = <<>> /\ t[0] = MaxRead
  BY DEF Message, Progress
<1>2. ASSUME NEW m \in 0..Len(ans)
      PROVE  NextAnswer(buf, Reached(at, adr, t, m)) \in States(ans, at, adr, t)
  <2>1. Reached(at, adr, t, m) \in States(ans, at, adr, t) /\ Reached(at, adr, t, m).off = at[m]
    BY DEF States, Reached
  <2>2. CASE at[m] >= l
    BY <1>1, <2>1, <2>2 DEF NextAnswer
  <2>3. CASE at[m] < l
    <3>1. m + 1 \in 1..Len(ans) /\ (m + 1) - 1 = m /\ m + 1 \in 0..Len(ans)
      <4>1. m # Len(ans)
        <5>1. at[Len(ans)] \in Nat
          BY <1>1 DEF Progress
        <5> QED
          BY <1>1, <2>3, <5>1
      <4> QED
        BY <1>1, <4>1
    <3>2. Record(buf, Reached(at, adr, t, m)) =
            IF at[m + 1] <= l THEN Reached(at, adr, t, m + 1) ELSE Stopped(adr, t, m)
      BY <2>3, <3>1, OneMore
    <3>3. Record(buf, Reached(at, adr, t, m)) \in States(ans, at, adr, t)
      BY <3>1, <3>2, Zenon DEF States
    <3> QED
      BY <2>1, <3>3 DEF NextAnswer
  <2>4. at[m] \in Nat
    BY DEF Progress
  <2> QED
    BY <1>1, <2>2, <2>3, <2>4
<1>3. ASSUME NEW m \in 0..Len(ans)
      PROVE  NextAnswer(buf, Stopped(adr, t, m)) \in States(ans, at, adr, t)
  <2>1. Stopped(adr, t, m) \in States(ans, at, adr, t) /\ Stopped(adr, t, m).off = Malformed
    BY DEF States, Stopped
  <2> QED
    BY <2>1 DEF NextAnswer
<1>4. l >= 12 => Questions(buf) = IF l >= 21 THEN 21 ELSE Malformed
  <2>1. SkipsAt(buf, 12) /\ SkipsAt(buf, 16)
    BY <1>1, SkipNameAt
  <2> QED
    BY <1>1, <2>1, QuestionsRead DEF Message, HeaderHeld
<1> QED
  BY <1>1, <1>2, <1>3, <1>4 DEF States, Reached, Stopped

LEMMA AnswersRead ==
  ASSUME NEW buf, NEW l, NEW id, NEW code, NEW ans, NEW at, NEW adr, NEW t, Message(buf, l, id, code, ans, at),
         Progress(ans, at, adr, t), l >= 12
  PROVE  /\ Answers(buf) = Failed \/ \E m \in 0..Len(ans) : Answers(buf) = Found(adr, t, m)
         /\ l = at[Len(ans)] => Answers(buf) = Found(adr, t, Len(ans))
<1> DEFINE n == Len(ans)
           S == States(ans, at, adr, t)
           begin == [off |-> Questions(buf), ips |-> <<>>, ttl |-> MaxRead]
           step == [i \in 1..n |-> [s \in S |-> NextAnswer(buf, s)]]
<1>1. n \in Nat /\ Len(buf) = l /\ U16(buf, 6) = n /\ l \in Nat /\ at[0] = 21
      /\ \A m \in 0..n : at[m] \in Nat /\ at[m] <= at[n]
  BY DEF Message, Progress, HeaderHeld
<1>2. \A s \in S : NextAnswer(buf, s) \in S
  BY StatesClosed
<1>3. begin = IF l >= 21 THEN Reached(at, adr, t, 0) ELSE Stopped(adr, t, 0)
  BY StatesClosed
<1>4. begin \in S
  <2>1. 0 \in 0..n
    BY <1>1
  <2> QED
    BY <1>3, <2>1, Zenon DEF States
<1>5. \A f, i : AnswersFrom(buf, f, i) = IF i = 0 THEN begin ELSE NextAnswer(buf, f[i - 1])
  BY DEF AnswersFrom, NextAnswer
<1> HIDE DEF S, begin
<1>6. step \in [1..n -> [S -> S]]
  BY <1>2
<1>7. \A i \in 1..n, s \in S : step[i][s] = NextAnswer(buf, s)
  OBVIOUS
<1> HIDE DEF step, n
<1>8. PICK f \in [0..n -> S] : f[0] = begin /\ \A i \in 1..n : f[i] = step[i][f[i - 1]]
  <2>1. n \in Nat
    BY <1>1
  <2>2. Stepwise(S, begin, n, step)
    BY <1>4, <1>6, <2>1, StepByStep, Zenon
  <2> QED
    BY <2>2 DEF Stepwise
<1>9. f = [i \in 0..n |-> AnswersFrom(buf, f, i)]
  <2> SUFFICES ASSUME NEW i \in 0..n
               PROVE  f[i] = AnswersFrom(buf, f, i)
    OBVIOUS
  <2>1. CASE i = 0
    BY <1>5, <1>8, <2>1
  <2>2. CASE i # 0
    <3>1. i \in 1..n /\ i - 1 \in 0..n
      BY <1>1, <2>2
    <3>2. f[i - 1] \in S /\ f[i] = step[i][f[i - 1]]
      BY <1>8, <3>1
    <3>3. f[i] = NextAnswer(buf, f[i - 1])
      BY <1>7, <3>1, <3>2, Zenon
    <3> QED
      BY <1>5, <2>2, <3>3, Zenon
  <2> QED
    BY <2>1, <2>2
<1>10. PICK g : /\ \A i \in 0..n : g[i] = AnswersFrom(buf, g, i)
                /\ Answers(buf) = IF g[n].off = Malformed THEN Failed
                                  ELSE [ok |-> TRUE, ips |-> g[n].ips, ttl |-> IF g[n].ips = <<>> THEN 0 ELSE g[n].ttl]
  BY <1>1, <1>9, AnswersStepwise
<1> DEFINE p == {k \in Nat : k <= n => g[k] \in S /\ (l = at[n] => g[k] = Reached(at, adr, t, k))}
<1>11. 0 \in p
  <2>1. g[0] = begin
    BY <1>1, <1>5, <1>10
  <2>2. 0 \in 0..n /\ 21 <= at[n]
    BY <1>1
  <2> QED
    BY <1>3, <1>4, <2>1, <2>2
<1>12. ASSUME NEW k \in Nat, k \in p
       PROVE  k + 1 \in p
  <2> SUFFICES ASSUME k + 1 <= n
               PROVE  g[k + 1] \in S /\ (l = at[n] => g[k + 1] = Reached(at, adr, t, k + 1))
    OBVIOUS
  <2>1. k + 1 \in 0..n /\ k + 1 \in 1..n /\ (k + 1) - 1 = k /\ k + 1 # 0 /\ k \in 0..n /\ k <= n
    BY <1>1
  <2>2. g[k] \in S /\ (l = at[n] => g[k] = Reached(at, adr, t, k))
    BY <1>12, <2>1
  <2>3. g[k + 1] = NextAnswer(buf, g[k])
    BY <1>5, <1>10, <2>1
  <2>4. ASSUME l = at[n]
        PROVE  g[k + 1] = Reached(at, adr, t, k + 1)
    <3>1. at[k] \in Nat /\ at[k + 1] \in Nat /\ at[k + 1] <= l
      BY <1>1, <2>1, <2>4
    <3>2. at[k + 1] = at[(k + 1) - 1] + 12 + Len(ans[k + 1].data) /\ ans[k + 1].data \in Seq(Bytes)
      BY <2>1 DEF Progress, n
    <3>3. at[k] < l
      <4>1. Len(ans[k + 1].data) \in Nat
        BY <3>2
      <4>2. at[k + 1] = at[k] + 12 + Len(ans[k + 1].data)
        BY <2>1, <3>2
      <4> DEFINE x == at[k]
                 y == at[k + 1]
                 z == Len(ans[k + 1].data)
      <4>3. x \in Nat /\ z \in Nat /\ y = x + 12 + z /\ y <= l
        BY <3>1, <4>1, <4>2
      <4> HIDE DEF x, y, z
      <4>4. x < l
        BY <1>1, <4>3
      <4> QED
        BY <4>4 DEF x
    <3>4. Record(buf, Reached(at, adr, t, k)) = Reached(at, adr, t, k + 1)
      <4>1. k + 1 \in 1..Len(ans) /\ at[(k + 1) - 1] < l
        BY <2>1, <3>3 DEF n
      <4>2. Record(buf, Reached(at, adr, t, (k + 1) - 1)) =
              IF at[k + 1] <= l THEN Reached(at, adr, t, k + 1) ELSE Stopped(adr, t, (k + 1) - 1)
        BY <4>1, OneMore
      <4>3. (k + 1) - 1 = k /\ at[k + 1] <= l
        BY <2>1, <3>1
      <4> QED
        BY <4>2, <4>3
    <3>5. Reached(at, adr, t, k).off = at[k] /\ at[k] # Malformed /\ ~(at[k] >= Len(buf))
      BY <1>1, <3>1, <3>3 DEF Reached, Malformed
    <3> QED
      BY <2>2, <2>3, <2>4, <3>4, <3>5, Zenon DEF NextAnswer
  <2> QED
    BY <1>2, <2>2, <2>3, <2>4
<1> HIDE DEF p
<1>13. n \in p
  BY <1>1, <1>11, <1>12, Induction
<1>14. n \in 0..n /\ g[n] \in S /\ (l = at[n] => g[n] = Reached(at, adr, t, n))
  BY <1>1, <1>13 DEF p
<1>15. \A m \in 0..n : Reached(at, adr, t, m).off # Malformed
  BY <1>1 DEF Reached, Malformed
<1>16. ASSUME NEW m \in 0..n, g[n] = Reached(at, adr, t, m)
       PROVE  Answers(buf) = Found(adr, t, m)
  <2>1. g[n].off # Malformed
    BY <1>15, <1>16, Zenon
  <2>2. g[n].ips = adr[m] /\ g[n].ttl = t[m]
    BY <1>16 DEF Reached
  <2> QED
    BY <1>10, <2>1, <2>2, Zenon DEF Found
<1>17. ASSUME NEW m \in 0..n, g[n] = Stopped(adr, t, m)
       PROVE  Answers(buf) = Failed
  <2>1. g[n].off = Malformed
    BY <1>17 DEF Stopped
  <2> QED
    BY <1>10, <2>1, Zenon
<1>18. (\E m \in 0..n : g[n] = Reached(at, adr, t, m)) \/ \E m \in 0..n : g[n] = Stopped(adr, t, m)
  BY <1>14, Zenon DEF S, States, n
<1>19. Answers(buf) = Failed \/ \E m \in 0..n : Answers(buf) = Found(adr, t, m)
  BY <1>16, <1>17, <1>18, Zenon
<1>20. l = at[n] => Answers(buf) = Found(adr, t, n)
  BY <1>14, <1>16, Zenon
<1> QED
  BY <1>19, <1>20 DEF n

-----------------------------------------------------------------------------
(* A response on the wire                                                  *)

Sendable(a) ==
  a.type \in Words /\ a.ttl \in Nat /\ High(a.ttl) \in Words /\ a.data \in Seq(Bytes) /\ Len(a.data) \in Words

LEMMA AnswersSendable ==
  ASSUME NEW r, WellFormed(r)
  PROVE  /\ Len(r.answers) \in Words /\ Len(r.answers) \in Nat /\ DOMAIN r.answers = 1..Len(r.answers)
         /\ r.id \in Words /\ r.rcode \in 0..15
         /\ \A i \in 1..Len(r.answers) : Sendable(r.answers[i])
<1> DEFINE A == [type : Words, ttl : Nat, data : Seq(Bytes)]
<1>1. r.answers \in Seq(A) /\ Len(r.answers) \in Words /\ r.id \in Words /\ r.rcode \in 0..15
      /\ \A i \in DOMAIN r.answers : Len(r.answers[i].data) \in Words /\ r.answers[i].ttl \div 65536 \in Words
  BY DEF WellFormed
<1>2. DOMAIN r.answers = 1..Len(r.answers) /\ Len(r.answers) \in Nat
      /\ \A i \in 1..Len(r.answers) : r.answers[i] \in A
  <2> HIDE DEF A
  <2> QED
    BY <1>1, LenProperties, ElementOfSeq
<1>3. ASSUME NEW i \in 1..Len(r.answers)
      PROVE  Sendable(r.answers[i])
  <2>1. r.answers[i] \in A
    BY <1>2
  <2>2. r.answers[i].type \in Words /\ r.answers[i].ttl \in Nat /\ r.answers[i].data \in Seq(Bytes)
    BY <2>1
  <2> QED
    BY <1>1, <1>2, <2>2 DEF Sendable, High
<1> QED
  BY <1>1, <1>2, <1>3

LEMMA LowIsWord ==
  ASSUME NEW n \in Nat
  PROVE  Low(n) \in Words
<1>1. n % 65536 \in 0..65535
  OBVIOUS
<1> QED
  BY <1>1 DEF Words, Low

LEMMA EncodedAnswer ==
  ASSUME NEW a, Sendable(a)
  PROVE  AnswerBytes(EncodeAnswer(a), a.type, High(a.ttl), Low(a.ttl), a.data)
<1>1. Low(a.ttl) \in Words
  <2>1. a.ttl \in Nat
    BY DEF Sendable
  <2> QED
    BY <2>1, LowIsWord, Zenon
<1>2. EncodeAnswer(a) =
        <<192, 12>> \o Word(a.type) \o Word(1) \o Word(High(a.ttl)) \o Word(Low(a.ttl)) \o Word(Len(a.data)) \o a.data
  BY DEF EncodeAnswer, High, Low
<1>3. Assembled(EncodeAnswer(a), a.type, High(a.ttl), Low(a.ttl), a.data)
  BY <1>1, <1>2, Zenon DEF Sendable, Assembled
<1> QED
  BY <1>3, AssembledAnswer, Zenon

Encoded(r) == [i \in DOMAIN r.answers |-> EncodeAnswer(r.answers[i])]

(* A message g[n] grows from its header g[0], answer by answer. *)
LaidOut(r, g, n) ==
  /\ Header(g[0], r.id, 256 * 129 + r.rcode, n)
  /\ Grows(Bytes, g, n, Encoded(r))
  /\ g[n] = Encode(r)

LEMMA CodeIsWord ==
  ASSUME NEW c \in 0..15
  PROVE  256 * 129 + c \in Words
  BY DEF Words

Joins(T, a, b, c) == a \in Seq(T) /\ b \in Seq(T) /\ c = a \o b

LEMMA Regrouped ==
  ASSUME NEW T, NEW a \in Seq(T), NEW b, NEW c, NEW d, Joins(T, b, c, d)
  PROVE  Joins(T, a \o b, c, a \o d)
<1>1. b \in Seq(T) /\ c \in Seq(T) /\ d = b \o c
  BY DEF Joins
<1>2. a \o (b \o c) = (a \o b) \o c
  BY <1>1, ConcatAssociative
<1>3. a \o b \in Seq(T)
  BY <1>1, Concatenated, Zenon
<1> QED
  BY <1>1, <1>2, <1>3, Zenon DEF Joins

LEMMA MessageLaidOut ==
  ASSUME NEW r, WellFormed(r)
  PROVE  \E g : LaidOut(r, g, Len(r.answers))
<1> DEFINE n == Len(r.answers)
           seqs == Encoded(r)
           code == 256 * 129 + r.rcode
           head == Word(r.id) \o Word(256 * 129 + r.rcode) \o Word(1) \o Word(Len(r.answers)) \o <<0, 0, 0, 0>>
                     \o <<3, 97, 112, 105, 0>> \o Word(1) \o Word(1)
<1>1. n \in Nat /\ n \in Words /\ DOMAIN r.answers = 1..n /\ r.id \in Words /\ r.rcode \in 0..15
      /\ \A i \in 1..n : Sendable(r.answers[i])
  BY AnswersSendable
<1>2. \A i \in 1..n : seqs[i] \in Seq(Bytes)
  <2> SUFFICES ASSUME NEW i \in 1..n
               PROVE  seqs[i] \in Seq(Bytes)
    OBVIOUS
  <2>1. EncodeAnswer(r.answers[i]) \in Seq(Bytes)
    <3>1. Sendable(r.answers[i])
      BY <1>1
    <3> QED
      BY <3>1, EncodedAnswer, Zenon DEF AnswerBytes
  <2> QED
    BY <1>1, <2>1 DEF Encoded
<1>3. seqs = [i \in 1..n |-> seqs[i]]
  BY <1>1, Zenon DEF Encoded
<1>4. Encode(r) = head \o FlattenSeq(seqs)
  BY Zenon DEF Encode, Encoded
<1>5. Header(head, r.id, code, n)
  <2>1. HeaderAssembled(head, r.id, code, n)
    BY <1>1, CodeIsWord, Zenon DEF HeaderAssembled
  <2> QED
    BY <2>1, AssembledHeader, Zenon
<1>6. head \in Seq(Bytes)
  BY <1>5, Zenon DEF Header
<1> HIDE DEF n, seqs, head, code
<1>7. seqs \in Seq(Seq(Bytes)) /\ Len(seqs) = n
  <2> DEFINE B == Seq(Bytes)
  <2>1. n \in Nat /\ seqs = [i \in 1..n |-> seqs[i]] /\ \A i \in 1..n : seqs[i] \in B
    BY <1>1, <1>2, <1>3
  <2> HIDE DEF B
  <2>2. seqs \in Seq(B) /\ Len(seqs) = n
    BY <2>1
  <2> QED
    BY <2>2 DEF B
<1>8. PICK f : f \in [0..n -> Seq(Bytes)] /\ Flattens(f, n, seqs)
  BY <1>1, <1>2, PartsExist, Zenon
<1>9. FlattenSeq(seqs) = f[n]
  <2>1. Flattens(f, Len(seqs), seqs)
    BY <1>7, <1>8
  <2>2. FlattenSeq(seqs) = f[Len(seqs)]
    BY <1>7, <2>1, FlattenedStepwise, Zenon
  <2> QED
    BY <1>7, <2>2
<1> DEFINE g == [i \in 0..n |-> head \o f[i]]
<1>10. \A i \in 1..n : g[i] = g[i - 1] \o seqs[i]
  <2> SUFFICES ASSUME NEW i \in 1..n
               PROVE  g[i] = g[i - 1] \o seqs[i]
    OBVIOUS
  <2>1. i \in 0..n /\ i - 1 \in 0..n
    BY <1>1
  <2>2. f[i - 1] \in Seq(Bytes) /\ seqs[i] \in Seq(Bytes) /\ f[i] = f[i - 1] \o seqs[i]
    BY <1>2, <1>8, <2>1, Zenon DEF Flattens
  <2>3. head \o f[i] = (head \o f[i - 1]) \o seqs[i]
    <3>1. Joins(Bytes, f[i - 1], seqs[i], f[i])
      BY <2>2, Zenon DEF Joins
    <3>2. Joins(Bytes, head \o f[i - 1], seqs[i], head \o f[i])
      BY <1>6, <3>1, Regrouped, Zenon
    <3> QED
      BY <3>2, Zenon DEF Joins
  <2>4. g[i] = head \o f[i] /\ g[i - 1] = head \o f[i - 1]
    BY <2>1, Zenon
  <2> QED
    BY <2>3, <2>4, Zenon
<1>11. g[0] = head /\ g[n] = Encode(r)
  <2>1. 0 \in 0..n /\ n \in 0..n
    BY <1>1
  <2>2. f[0] = <<>> /\ head \o <<>> = head
    BY <1>6, <1>8, ConcatEmptySeq, Zenon DEF Flattens
  <2> QED
    BY <1>4, <1>9, <2>1, <2>2, Zenon
<1> HIDE DEF g
<1>12. LaidOut(r, g, n)
  BY <1>2, <1>5, <1>10, <1>11, Zenon DEF LaidOut, Grows, seqs, code
<1> QED
  BY <1>12 DEF n

LEMMA EncodedAt ==
  ASSUME NEW r, WellFormed(r), NEW i \in 1..Len(r.answers)
  PROVE  /\ Encoded(r)[i] = EncodeAnswer(r.answers[i]) /\ Sendable(r.answers[i])
         /\ Len(r.answers[i].data) \in Nat
         /\ AnswerBytes(Encoded(r)[i], r.answers[i].type, High(r.answers[i].ttl), Low(r.answers[i].ttl), r.answers[i].data)
<1>1. i \in DOMAIN r.answers /\ Sendable(r.answers[i])
  BY AnswersSendable
<1>2. Encoded(r)[i] = EncodeAnswer(r.answers[i])
  BY <1>1, Zenon DEF Encoded
<1>3. AnswerBytes(EncodeAnswer(r.answers[i]), r.answers[i].type, High(r.answers[i].ttl), Low(r.answers[i].ttl), r.answers[i].data)
  BY <1>1, EncodedAnswer, Zenon
<1>4. r.answers[i].data \in Seq(Bytes)
  BY <1>1, Zenon DEF Sendable
<1>5. \A s \in Seq(Bytes) : Len(s) \in Nat
  OBVIOUS
<1> QED
  BY <1>1, <1>2, <1>3, <1>4, <1>5, Zenon

Ends(g, n) == [i \in 0..n |-> Len(g[i])]

LEMMA EndsOfAnswers ==
  ASSUME NEW r, WellFormed(r), NEW g, NEW n, n = Len(r.answers), LaidOut(r, g, n), NEW at, at = Ends(g, n)
  PROVE  /\ n \in Nat /\ at[0] = 21 /\ at[n] = Len(Encode(r))
         /\ \A i \in 0..n : at[i] \in Nat /\ at[i] <= at[n]
         /\ \A i \in 1..n : at[i] = at[i - 1] + 12 + Len(r.answers[i].data)
<1>1. n \in Nat /\ Header(g[0], r.id, 256 * 129 + r.rcode, n) /\ Grows(Bytes, g, n, Encoded(r)) /\ g[n] = Encode(r)
  BY AnswersSendable, Zenon DEF LaidOut
<1>2. g[0] \in Seq(Bytes) /\ Len(g[0]) = 21
  BY <1>1, Zenon DEF Header
<1>3. \A i \in 0..n : at[i] = Len(g[i])
  BY Zenon DEF Ends
<1>4. 0 \in 0..n /\ n \in 0..n /\ \A i \in 1..n : i \in 0..n /\ i - 1 \in 0..n
  BY <1>1
<1>5. at[0] = 21 /\ at[n] = Len(Encode(r))
  BY <1>1, <1>2, <1>3, <1>4
<1>6. \A i \in 0..n : g[i] \in Seq(Bytes) /\ Extends(Bytes, g[i], g[n])
  BY <1>1, <1>2, PartsAreBytes, Beginnings, Zenon
<1>7. \A s, t \in Seq(Bytes) : Extends(Bytes, s, t) => Len(s) \in Nat /\ Len(s) <= Len(t)
  <2> SUFFICES ASSUME NEW s \in Seq(Bytes), NEW t \in Seq(Bytes), Extends(Bytes, s, t)
               PROVE  Len(s) \in Nat /\ Len(s) <= Len(t)
    OBVIOUS
  <2>1. PICK u \in Seq(Bytes) : t = s \o u
    BY DEF Extends
  <2>2. Len(s \o u) = Len(s) + Len(u) /\ Len(s) \in Nat /\ Len(u) \in Nat
    OBVIOUS
  <2> QED
    BY <2>1, <2>2
<1>8. \A i \in 0..n : at[i] \in Nat /\ at[i] <= at[n]
  <2> SUFFICES ASSUME NEW i \in 0..n
               PROVE  at[i] \in Nat /\ at[i] <= at[n]
    OBVIOUS
  <2>1. Len(g[i]) \in Nat /\ Len(g[i]) <= Len(g[n])
    BY <1>4, <1>6, <1>7, Zenon
  <2> QED
    BY <1>3, <1>4, <2>1
<1>9. ASSUME NEW i \in 1..n
      PROVE  at[i] = at[i - 1] + 12 + Len(r.answers[i].data)
  <2>1. Joins(Bytes, g[i - 1], Encoded(r)[i], g[i])
    BY <1>1, <1>4, <1>6, Zenon DEF Grows, Joins
  <2>2. \A a, b, c : Joins(Bytes, a, b, c) => Len(c) = Len(a) + Len(b)
    BY DEF Joins
  <2>3. Len(g[i]) = Len(g[i - 1]) + Len(Encoded(r)[i])
    BY <2>1, <2>2, Zenon
  <2>4. Len(Encoded(r)[i]) = 12 + Len(r.answers[i].data) /\ Len(r.answers[i].data) \in Nat
    BY EncodedAt, Zenon DEF AnswerBytes
  <2>5. at[i] = Len(g[i]) /\ at[i - 1] = Len(g[i - 1]) /\ at[i - 1] \in Nat
    BY <1>3, <1>4, <1>8
  <2>6. Len(g[i - 1]) \in Nat /\ Len(g[i]) = Len(g[i - 1]) + (12 + Len(r.answers[i].data))
    BY <2>3, <2>4, <2>5, Zenon
  <2>7. \A a, b \in Nat : a + (12 + b) = a + 12 + b
    OBVIOUS
  <2>8. Len(g[i]) = Len(g[i - 1]) + 12 + Len(r.answers[i].data)
    BY <2>4, <2>6, <2>7, Zenon
  <2> QED
    BY <2>5, <2>8, Zenon
<1> QED
  BY <1>1, <1>5, <1>8, <1>9

HeaderIn(e, id, code, n, buf, l) ==
  /\ Header(e, id, code, n) /\ l \in Nat
  /\ \A o \in Nat : o < Len(e) /\ o < l => ByteAt(buf, o) = ByteAt(e, o)

LEMMA HeaderReceived ==
  ASSUME NEW e, NEW id, NEW code, NEW n, NEW buf, NEW l, HeaderIn(e, id, code, n, buf, l)
  PROVE  HeaderHeld(buf, l, id, code, n)
<1>0. Header(e, id, code, n) /\ l \in Nat /\ \A o \in Nat : o < Len(e) /\ o < l => ByteAt(buf, o) = ByteAt(e, o)
  BY DEF HeaderIn
<1>1. Len(e) = 21 /\ U16(e, 0) = id /\ U16(e, 2) = code /\ U16(e, 4) = 1 /\ U16(e, 6) = n
      /\ ByteAt(e, 12) = 3 /\ ByteAt(e, 16) = 0
  BY <1>0 DEF Header
<1>2. ASSUME l >= 12
      PROVE  U16(buf, 0) = id /\ U16(buf, 2) = code /\ U16(buf, 4) = 1 /\ U16(buf, 6) = n
  <2>1. /\ ByteAt(buf, 0) = ByteAt(e, 0) /\ ByteAt(buf, 0 + 1) = ByteAt(e, 0 + 1)
        /\ ByteAt(buf, 2) = ByteAt(e, 2) /\ ByteAt(buf, 2 + 1) = ByteAt(e, 2 + 1)
        /\ ByteAt(buf, 4) = ByteAt(e, 4) /\ ByteAt(buf, 4 + 1) = ByteAt(e, 4 + 1)
        /\ ByteAt(buf, 6) = ByteAt(e, 6) /\ ByteAt(buf, 6 + 1) = ByteAt(e, 6 + 1)
    BY <1>0, <1>1, <1>2
  <2>2. U16(buf, 0) = U16(e, 0) /\ U16(buf, 2) = U16(e, 2) /\ U16(buf, 4) = U16(e, 4) /\ U16(buf, 6) = U16(e, 6)
    BY <2>1, Zenon DEF U16
  <2> QED
    BY <1>1, <2>2
<1>3. (l > 12 => ByteAt(buf, 12) = 3) /\ (l > 16 => ByteAt(buf, 16) = 0)
  BY <1>0, <1>1
<1> QED
  BY <1>2, <1>3 DEF HeaderHeld

LEMMA MessageReceived ==
  ASSUME NEW r, WellFormed(r), NEW g, NEW n, n = Len(r.answers), LaidOut(r, g, n), NEW at, at = Ends(g, n),
         NEW buf, NEW l, Starts(buf, l, Encode(r))
  PROVE  Message(buf, l, r.id, 256 * 129 + r.rcode, r.answers, at)
<1>1. n \in Nat /\ Header(g[0], r.id, 256 * 129 + r.rcode, n) /\ Grows(Bytes, g, n, Encoded(r)) /\ g[n] = Encode(r)
  BY AnswersSendable, Zenon DEF LaidOut
<1>2. g[0] \in Seq(Bytes)
  BY <1>1, Zenon DEF Header
<1>3. Encode(r) \in Seq(Bytes)
  <2>1. n \in 0..n
    BY <1>1
  <2> QED
    BY <1>1, <1>2, <2>1, PartsAreBytes, Zenon
<1>4. buf \in Seq(Bytes) /\ l \in Nat /\ Len(buf) = l /\ l <= Len(Encode(r))
  <2> DEFINE w == Encode(r)
  <2>1. w \in Seq(Bytes) /\ l \in 0..Len(w) /\ buf = SubSeq(w, 1, l) /\ Len(w) \in Nat
    BY <1>3 DEF Starts
  <2> HIDE DEF w
  <2>2. Len(buf) = l /\ l \in Nat
    BY <2>1
  <2>3. buf \in Seq(Bytes)
    BY <2>1
  <2> QED
    BY <2>1, <2>2, <2>3 DEF w
<1>5. Readable(buf)
  BY <1>4, BytesReadable, Zenon
<1>6. Starts(buf, l, g[n])
  BY <1>1
<1>7. Held(g, n, Encoded(r), buf, l)
  <2>1. Growing(g, n, Encoded(r), buf, l)
    BY <1>1, <1>2, <1>6, Zenon DEF Growing
  <2> QED
    BY <2>1, BytesOfMessage, Zenon
<1>8. HeaderHeld(buf, l, r.id, 256 * 129 + r.rcode, n)
  <2>1. HeaderIn(g[0], r.id, 256 * 129 + r.rcode, n, buf, l)
    BY <1>1, <1>4, <1>7, Zenon DEF HeaderIn, Held
  <2> QED
    BY <2>1, HeaderReceived, Zenon
<1>9. /\ at[n] = Len(Encode(r)) /\ \A i \in 0..n : at[i] \in Nat /\ at[i] <= at[n]
  BY EndsOfAnswers
<1>10. ASSUME NEW i \in 1..n
       PROVE  AnswerHeld(buf, l, at[i - 1], r.answers[i])
  <2>1. i - 1 \in 0..n
    BY <1>1
  <2>2. at[i - 1] \in Nat /\ at[i - 1] = Len(g[i - 1])
    BY <1>9, <2>1 DEF Ends
  <2>3. Len(r.answers[i].data) \in Nat
        /\ AnswerBytes(Encoded(r)[i], r.answers[i].type, High(r.answers[i].ttl), Low(r.answers[i].ttl), r.answers[i].data)
    BY EncodedAt
  <2>4. \A o \in Nat : o < Len(Encoded(r)[i]) /\ at[i - 1] + o < l =>
           ByteAt(buf, at[i - 1] + o) = ByteAt(Encoded(r)[i], o)
    BY <1>7, <2>2, Zenon DEF Held
  <2>5. AnswerRead(buf, l, at[i - 1], r.answers[i].type, High(r.answers[i].ttl), Low(r.answers[i].ttl), r.answers[i].data)
    <3>1. PartHeld(Encoded(r)[i], r.answers[i].type, High(r.answers[i].ttl), Low(r.answers[i].ttl), r.answers[i].data,
                   buf, l, at[i - 1])
      BY <1>4, <2>2, <2>3, <2>4, Zenon DEF PartHeld
    <3> QED
      BY <3>1, PartHeldRead, Zenon
  <2> QED
    BY <2>5 DEF AnswerHeld
<1>11. Message(buf, l, r.id, 256 * 129 + r.rcode, r.answers, at)
  BY <1>1, <1>4, <1>5, <1>8, <1>9, <1>10 DEF Message
<1> QED
  BY <1>11

-----------------------------------------------------------------------------
(* What a response is read as                                              *)

LEMMA TtlHeldIs ==
  ASSUME NEW a, Sendable(a)
  PROVE  /\ TtlHeld(a) \in Nat /\ TtlHeld(a) <= MaxRead
         /\ TtlHeld(a) <= a.ttl /\ (TtlHeld(a) = a.ttl \/ TtlHeld(a) = MaxRead)
<1> DEFINE n == a.ttl
           hi == High(n)
           lo == Low(n)
<1>1. n \in Nat
  BY DEF Sendable
<1>2. hi \in Nat /\ lo \in 0..65535 /\ n = 65536 * hi + lo
  <2> HIDE DEF n
  <2> QED
    BY <1>1 DEF High, Low
<1>3. TtlHeld(a) = IF hi = 0 THEN lo ELSE 65536
  BY DEF TtlHeld, TtlRead, MaxRead
<1> HIDE DEF n, hi, lo
<1>4. TtlHeld(a) \in Nat /\ TtlHeld(a) <= 65536 /\ TtlHeld(a) <= n /\ (TtlHeld(a) = n \/ TtlHeld(a) = 65536)
  BY <1>1, <1>2, <1>3
<1> QED
  BY <1>4 DEF n, MaxRead

LEMMA LeastIsMin ==
  ASSUME NEW S, NEW m \in S, m \in Nat, \A x \in S : x \in Nat /\ m <= x
  PROVE  Min(S) = m
<1>1. \A y \in S : m <= y
  OBVIOUS
<1>2. Min(S) \in S /\ \A y \in S : Min(S) <= y
  BY <1>1, Zenon DEF Min
<1>3. Min(S) \in Nat /\ Min(S) <= m /\ m <= Min(S)
  BY <1>2
<1> QED
  BY <1>3

LEMMA MinOfTwo ==
  ASSUME NEW a \in Nat, NEW b \in Nat
  PROVE  Min({a, b}) = IF a <= b THEN a ELSE b
<1>1. CASE a <= b
  <2>1. a \in {a, b} /\ \A x \in {a, b} : x \in Nat /\ a <= x
    BY <1>1
  <2> QED
    BY <1>1, <2>1, LeastIsMin
<1>2. CASE ~(a <= b)
  <2>1. b \in {a, b} /\ \A x \in {a, b} : x \in Nat /\ b <= x
    BY <1>2
  <2> QED
    BY <1>2, <2>1, LeastIsMin
<1> QED
  BY <1>1, <1>2

(* t counts down to the least TTL of the first k addresses. *)
Shortens(ans, t, k) ==
  t[k] = IF HoldsAddress(ans[k]) THEN Min({t[k - 1], TtlHeld(ans[k])}) ELSE t[k - 1]

LEMMA TtlsExist ==
  ASSUME NEW ans, NEW n \in Nat, \A i \in 1..n : Sendable(ans[i])
  PROVE  \E t : t \in [0..n -> Nat] /\ t[0] = MaxRead /\ \A i \in 1..n : Shortens(ans, t, i)
<1> DEFINE short(i, x) == IF HoldsAddress(ans[i]) THEN Min({x, TtlHeld(ans[i])}) ELSE x
           step == [i \in 1..n |-> [x \in Nat |-> short(i, x)]]
<1>1. \A i \in 1..n, x \in Nat : short(i, x) \in Nat
  <2> SUFFICES ASSUME NEW i \in 1..n, NEW x \in Nat
               PROVE  short(i, x) \in Nat
    OBVIOUS
  <2>1. TtlHeld(ans[i]) \in Nat
    BY TtlHeldIs
  <2>2. Min({x, TtlHeld(ans[i])}) \in Nat
    BY <2>1, MinOfTwo
  <2> QED
    BY <2>2
<1> HIDE DEF short
<1>2. step \in [1..n -> [Nat -> Nat]] /\ \A i \in 1..n, x \in Nat : step[i][x] = short(i, x)
  BY <1>1
<1> HIDE DEF step
<1>3. MaxRead \in Nat
  BY DEF MaxRead
<1>4. PICK t \in [0..n -> Nat] : t[0] = MaxRead /\ \A i \in 1..n : t[i] = step[i][t[i - 1]]
  <2>1. Stepwise(Nat, MaxRead, n, step)
    BY <1>2, <1>3, StepByStep, Zenon
  <2> QED
    BY <2>1 DEF Stepwise
<1>5. ASSUME NEW i \in 1..n
      PROVE  Shortens(ans, t, i)
  <2>1. i - 1 \in 0..n
    OBVIOUS
  <2>2. t[i - 1] \in Nat
    BY <2>1
  <2>3. t[i] = short(i, t[i - 1])
    BY <1>2, <1>4, <2>2
  <2> QED
    BY <2>3, Zenon DEF Shortens, short
<1> QED
  BY <1>4, <1>5

Least(ans, t, k) ==
  /\ t[k] \in Nat /\ t[k] <= MaxRead
  /\ \A i \in 1..k : HoldsAddress(ans[i]) => t[k] <= TtlHeld(ans[i])
  /\ t[k] = MaxRead \/ \E i \in 1..k : HoldsAddress(ans[i]) /\ t[k] = TtlHeld(ans[i])

LEMMA TtlsLeast ==
  ASSUME NEW ans, NEW n \in Nat, \A i \in 1..n : Sendable(ans[i]), NEW t, t[0] = MaxRead,
         \A i \in 1..n : Shortens(ans, t, i)
  PROVE  Least(ans, t, n)
<1> DEFINE p == {k \in Nat : k <= n => Least(ans, t, k)}
<1>1. 0 \in p
  BY DEF Least, MaxRead
<1>2. ASSUME NEW k \in Nat, k \in p
      PROVE  k + 1 \in p
  <2> SUFFICES ASSUME k + 1 <= n
               PROVE  Least(ans, t, k + 1)
    OBVIOUS
  <2> DEFINE j == k + 1
             u == TtlHeld(ans[j])
             x == t[k]
             y == t[j]
  <2>1. j \in 1..n /\ j - 1 = k /\ j \in 1..j /\ (\A i \in 1..j : i \in 1..k \/ i = j) /\ \A i \in 1..k : i \in 1..j
    OBVIOUS
  <2>2. /\ x \in Nat /\ x <= MaxRead
        /\ \A i \in 1..k : HoldsAddress(ans[i]) => x <= TtlHeld(ans[i])
        /\ x = MaxRead \/ \E i \in 1..k : HoldsAddress(ans[i]) /\ x = TtlHeld(ans[i])
    BY <1>2 DEF Least
  <2>3. u \in Nat /\ u <= MaxRead
    BY <2>1, TtlHeldIs
  <2>4. y = IF HoldsAddress(ans[j]) THEN Min({x, u}) ELSE x
    BY <2>1 DEF Shortens
  <2>5. Min({x, u}) = IF x <= u THEN x ELSE u
    BY <2>2, <2>3, MinOfTwo
  <2>6. \A i \in 1..n : TtlHeld(ans[i]) \in Nat
    BY TtlHeldIs
  <2>7. \A i \in 1..k : i \in 1..n
    OBVIOUS
  <2>8. u = TtlHeld(ans[j])
    OBVIOUS
  <2> HIDE DEF j, x, y, u
  <2>9. y \in Nat /\ y <= MaxRead
    BY <2>2, <2>3, <2>4, <2>5
  <2>10. ASSUME NEW i \in 1..j, HoldsAddress(ans[i])
         PROVE  y <= TtlHeld(ans[i])
    <3>1. CASE i = j
      BY <2>2, <2>3, <2>4, <2>5, <2>8, <2>10, <3>1
    <3>2. CASE i \in 1..k
      <4>1. x <= TtlHeld(ans[i]) /\ TtlHeld(ans[i]) \in Nat /\ y <= x
        BY <2>2, <2>3, <2>4, <2>5, <2>6, <2>7, <2>10, <3>2
      <4> QED
        BY <2>2, <2>9, <4>1
    <3> QED
      BY <2>1, <3>1, <3>2
  <2>11. y = MaxRead \/ \E i \in 1..j : HoldsAddress(ans[i]) /\ y = TtlHeld(ans[i])
    <3>1. CASE HoldsAddress(ans[j]) /\ y = u
      BY <2>1, <2>8, <3>1
    <3>2. CASE y = x
      BY <2>1, <2>2, <3>2
    <3> QED
      BY <2>4, <2>5, <3>1, <3>2
  <2>12. Least(ans, t, j)
    BY <2>9, <2>10, <2>11 DEF Least, y
  <2> QED
    BY <2>12 DEF j
<1> HIDE DEF p
<1>3. n \in p
  BY <1>1, <1>2, Induction
<1> QED
  BY <1>3 DEF p

LEMMA ShortestTtlRead ==
  ASSUME NEW r, WellFormed(r), NEW t, Least(r.answers, t, Len(r.answers))
  PROVE  t[Len(r.answers)] = ShortestTtl(r)
<1> DEFINE n == Len(r.answers)
           S == Ttls(r) \cup {MaxRead}
           m == t[n]
<1>1. DOMAIN r.answers = 1..n /\ \A i \in 1..n : Sendable(r.answers[i])
  BY AnswersSendable
<1>2. Ttls(r) = {r.answers[i].ttl : i \in {j \in 1..n : HoldsAddress(r.answers[j])}}
  BY <1>1, Zenon DEF Ttls
<1>3. /\ m \in Nat /\ m <= MaxRead
      /\ \A i \in 1..n : HoldsAddress(r.answers[i]) => m <= TtlHeld(r.answers[i])
      /\ m = MaxRead \/ \E i \in 1..n : HoldsAddress(r.answers[i]) /\ m = TtlHeld(r.answers[i])
  BY DEF Least
<1>4. \A i \in 1..n : /\ TtlHeld(r.answers[i]) \in Nat /\ TtlHeld(r.answers[i]) <= r.answers[i].ttl
                      /\ r.answers[i].ttl \in Nat
                      /\ TtlHeld(r.answers[i]) = r.answers[i].ttl \/ TtlHeld(r.answers[i]) = MaxRead
  BY <1>1, TtlHeldIs DEF Sendable
<1>5. MaxRead \in Nat
  BY DEF MaxRead
<1> HIDE DEF n, m
<1>6. m \in S
  BY <1>2, <1>3, <1>4
<1>7. ASSUME NEW x \in S
      PROVE  x \in Nat /\ m <= x
  <2>1. CASE x = MaxRead
    BY <1>3, <1>5, <2>1
  <2>2. CASE x \in Ttls(r)
    <3>1. PICK i \in 1..n : HoldsAddress(r.answers[i]) /\ x = r.answers[i].ttl
      BY <1>2, <2>2
    <3>2. x \in Nat /\ TtlHeld(r.answers[i]) <= x /\ TtlHeld(r.answers[i]) \in Nat /\ m <= TtlHeld(r.answers[i])
      BY <1>3, <1>4, <3>1
    <3> QED
      BY <1>3, <3>2
  <2> QED
    BY <2>1, <2>2
<1> HIDE DEF S
<1>8. Min(S) = m
  BY <1>3, <1>6, <1>7, LeastIsMin
<1> QED
  BY <1>8 DEF m, n, S, ShortestTtl

OwnAddress(a) == IF HoldsAddress(a) THEN <<a.data>> ELSE <<>>

Parts(r) == [i \in DOMAIN r.answers |-> OwnAddress(r.answers[i])]

(* adr[k] are the addresses of the first k answers. *)
Collects(r, adr, n) ==
  /\ adr[0] = <<>> /\ adr[n] = Addresses(r)
  /\ \A i \in 0..n : adr[i] \in Seq(Seq(Bytes)) /\ Extends(Seq(Bytes), adr[i], adr[n])
  /\ \A i \in 1..n : adr[i] = IF HoldsAddress(r.answers[i]) THEN Append(adr[i - 1], r.answers[i].data) ELSE adr[i - 1]

LEMMA AddressesCollected ==
  ASSUME NEW r, WellFormed(r)
  PROVE  \E adr : Collects(r, adr, Len(r.answers))
<1> DEFINE n == Len(r.answers)
           seqs == Parts(r)
           B == Seq(Bytes)
<1>1. n \in Nat /\ DOMAIN r.answers = 1..n /\ \A i \in 1..n : Sendable(r.answers[i])
  BY AnswersSendable
<1>2. \A i \in 1..n : r.answers[i].data \in B
  BY <1>1 DEF Sendable
<1>3. seqs = [i \in 1..n |-> seqs[i]] /\ \A i \in 1..n : seqs[i] = OwnAddress(r.answers[i])
  BY <1>1, Zenon DEF Parts
<1>4. Addresses(r) = FlattenSeq(seqs)
  BY Zenon DEF Addresses, Parts, OwnAddress
<1> HIDE DEF n, seqs, B
<1>5. \A i \in 1..n : seqs[i] \in Seq(B)
  <2>1. \A d \in B : <<d>> \in Seq(B)
    OBVIOUS
  <2>2. <<>> \in Seq(B)
    OBVIOUS
  <2> QED
    BY <1>2, <1>3, <2>1, <2>2, Zenon DEF OwnAddress
<1>6. seqs \in Seq(Seq(B)) /\ Len(seqs) = n
  <2> DEFINE C == Seq(B)
  <2>1. \A i \in 1..n : seqs[i] \in C
    BY <1>5
  <2> HIDE DEF C
  <2>2. seqs \in Seq(C) /\ Len(seqs) = n
    BY <1>1, <1>3, <2>1
  <2> QED
    BY <2>2 DEF C
<1>7. PICK adr : adr \in [0..n -> Seq(B)] /\ Flattens(adr, n, seqs)
  BY <1>1, <1>5, PartsExist, Zenon
<1>8. FlattenSeq(seqs) = adr[n]
  <2>1. Flattens(adr, Len(seqs), seqs)
    BY <1>6, <1>7
  <2>2. FlattenSeq(seqs) = adr[Len(seqs)]
    BY <1>6, <2>1, FlattenedStepwise, Zenon
  <2> QED
    BY <1>6, <2>2
<1>9. adr[0] = <<>> /\ \A i \in 1..n : adr[i] = adr[i - 1] \o seqs[i]
  BY <1>7, Zenon DEF Flattens
<1>10. \A i \in 0..n : adr[i] \in Seq(B)
  BY <1>7
<1>11. \A i \in 0..n : Extends(B, adr[i], adr[n])
  <2>1. Grows(B, adr, n, seqs)
    BY <1>5, <1>9, Zenon DEF Grows
  <2>2. adr[0] \in Seq(B)
    BY <1>9
  <2> QED
    BY <1>1, <2>1, <2>2, Beginnings, Zenon
<1>12. ASSUME NEW i \in 1..n
       PROVE  adr[i] = IF HoldsAddress(r.answers[i]) THEN Append(adr[i - 1], r.answers[i].data) ELSE adr[i - 1]
  <2>1. i - 1 \in 0..n
    BY <1>1
  <2>2. adr[i - 1] \in Seq(B) /\ r.answers[i].data \in B
    BY <1>2, <1>10, <2>1
  <2>3. \A s \in Seq(B), d \in B : s \o <<d>> = Append(s, d) /\ s \o <<>> = s
    OBVIOUS
  <2>4. adr[i] = adr[i - 1] \o OwnAddress(r.answers[i])
    BY <1>3, <1>9, Zenon
  <2>5. adr[i - 1] \o <<r.answers[i].data>> = Append(adr[i - 1], r.answers[i].data) /\ adr[i - 1] \o <<>> = adr[i - 1]
    BY <2>2, <2>3, Zenon
  <2> QED
    BY <2>4, <2>5, Zenon DEF OwnAddress
<1>13. Collects(r, adr, n)
  BY <1>4, <1>8, <1>9, <1>10, <1>11, <1>12, Zenon DEF Collects, B
<1> QED
  BY <1>13 DEF n

(* What a response is read as: p, from the first bytes of it or all of it. *)
Meant(r, p, whole) ==
  /\ p.ips \in Seq(ToSet(Addresses(r))) /\ p.ttl \in Nat
  /\ IsPrefix(p.ips, Addresses(r))
  /\ whole => p.ok /\ p.ips = Addresses(r) /\ (p.ips # <<>> => p.ttl = ShortestTtl(r))

LEMMA BeginningIsPrefix ==
  ASSUME NEW T, NEW s \in Seq(T), NEW t \in Seq(T), Extends(T, s, t)
  PROVE  s \in Seq(ToSet(t)) /\ IsPrefix(s, t)
<1>1. PICK u \in Seq(T) : t = s \o u
  BY DEF Extends
<1>2. Len(s) \in Nat /\ Len(u) \in Nat /\ Len(t) = Len(s) + Len(u)
      /\ \A i \in 1..Len(s) : t[i] = s[i]
  BY <1>1
<1>3. ToSet(t) = {t[i] : i \in 1..Len(t)}
  BY DEF ToSet
<1>4. \A i \in 1..Len(s) : s[i] \in ToSet(t)
  BY <1>2, <1>3
<1>5. s \in Seq(ToSet(t))
  <2> DEFINE A == ToSet(t)
  <2>1. s = [i \in 1..Len(s) |-> s[i]] /\ \A i \in 1..Len(s) : s[i] \in A
    BY <1>4
  <2> HIDE DEF A
  <2>2. s \in Seq(A)
    BY <1>2, <2>1
  <2> QED
    BY <2>2 DEF A
<1>6. SubSeq(s, 1, Len(s)) = s /\ SubSeq(t, 1, Len(s)) = s
  <2>1. SubSeq(t, 1, Len(s)) = [i \in 1..Len(s) |-> t[i]]
    BY <1>2
  <2>2. SubSeq(s, 1, Len(s)) = [i \in 1..Len(s) |-> s[i]] /\ s = [i \in 1..Len(s) |-> s[i]]
    BY <1>2
  <2> QED
    BY <1>2, <2>1, <2>2
<1> QED
  BY <1>2, <1>5, <1>6 DEF IsPrefix

Reads(r, l) ==
  /\ WellFormed(r) /\ l \in 0..Len(Encode(r))

LEMMA EncodeBytes ==
  ASSUME NEW r, WellFormed(r)
  PROVE  Encode(r) \in Seq(Bytes) /\ Len(Encode(r)) \in Nat /\ Len(Encode(r)) >= 21
<1> DEFINE n == Len(r.answers)
<1>1. PICK g : LaidOut(r, g, n)
  BY MessageLaidOut
<1> DEFINE at == Ends(g, n)
<1>2. n \in Nat /\ at[0] = 21 /\ at[n] = Len(Encode(r)) /\ \A i \in 0..n : at[i] \in Nat /\ at[i] <= at[n]
  BY <1>1, EndsOfAnswers
<1>3. Header(g[0], r.id, 256 * 129 + r.rcode, n) /\ Grows(Bytes, g, n, Encoded(r)) /\ g[n] = Encode(r)
  BY <1>1, Zenon DEF LaidOut
<1>4. g[0] \in Seq(Bytes)
  BY <1>3, Zenon DEF Header
<1> HIDE DEF at
<1>5. 0 \in 0..n /\ n \in 0..n
  BY <1>2
<1>6. Encode(r) \in Seq(Bytes)
  BY <1>2, <1>3, <1>4, <1>5, PartsAreBytes, Zenon
<1> QED
  BY <1>2, <1>5, <1>6

LEMMA FailedMeant ==
  ASSUME NEW r, WellFormed(r)
  PROVE  Meant(r, Failed, FALSE) /\ ~Failed.ok
<1> DEFINE n == Len(r.answers)
           B == Seq(Bytes)
<1>1. n \in Nat
  BY AnswersSendable
<1>2. PICK adr : Collects(r, adr, n)
  BY AddressesCollected
<1>3. 0 \in 0..n
  BY <1>1
<1>4. adr[0] = <<>> /\ adr[n] = Addresses(r) /\ adr[0] \in Seq(B) /\ Extends(B, adr[0], adr[n])
  BY <1>2, <1>3, Zenon DEF Collects
<1>5. n \in 0..n
  BY <1>1
<1>6. adr[n] \in Seq(B)
  BY <1>2, <1>5, Zenon DEF Collects
<1> HIDE DEF n, B
<1>7. <<>> \in Seq(ToSet(Addresses(r))) /\ IsPrefix(<<>>, Addresses(r))
  BY <1>4, <1>6, BeginningIsPrefix, Zenon
<1>8. Failed.ips = <<>> /\ Failed.ttl \in Nat /\ Failed.ok = FALSE
  BY DEF Failed
<1> QED
  BY <1>7, <1>8, Zenon DEF Meant

LEMMA AnswersMeant ==
  ASSUME NEW r, NEW l, Reads(r, l), NEW buf, buf = SubSeq(Encode(r), 1, l), l >= 12
  PROVE  /\ U16(buf, 0) = r.id /\ U16(buf, 2) = 256 * 129 + r.rcode
         /\ Meant(r, Answers(buf), l = Len(Encode(r)))
<1> DEFINE n == Len(r.answers)
<1>1. WellFormed(r) /\ Starts(buf, l, Encode(r))
  BY DEF Reads, Starts
<1>2. n \in Nat /\ \A i \in 1..n : Sendable(r.answers[i])
  BY <1>1, AnswersSendable
<1>3. PICK g : LaidOut(r, g, n)
  BY <1>1, MessageLaidOut
<1> DEFINE at == Ends(g, n)
<1>4. /\ at[0] = 21 /\ at[n] = Len(Encode(r)) /\ \A i \in 0..n : at[i] \in Nat /\ at[i] <= at[n]
      /\ \A i \in 1..n : at[i] = at[i - 1] + 12 + Len(r.answers[i].data)
  BY <1>1, <1>3, EndsOfAnswers
<1>5. Message(buf, l, r.id, 256 * 129 + r.rcode, r.answers, at)
  BY <1>1, <1>3, MessageReceived
<1>6. PICK adr : Collects(r, adr, n)
  BY <1>1, AddressesCollected
<1>7. PICK t : t \in [0..n -> Nat] /\ t[0] = MaxRead /\ \A i \in 1..n : Shortens(r.answers, t, i)
  BY <1>2, TtlsExist
<1> HIDE DEF at
<1>8. Progress(r.answers, at, adr, t)
  <2>1. \A i \in 1..n : r.answers[i].data \in Seq(Bytes)
    BY <1>2, Zenon DEF Sendable
  <2> QED
    BY <1>4, <1>6, <1>7, <2>1, Zenon DEF Progress, Collects, Shortens
<1>9. U16(buf, 0) = r.id /\ U16(buf, 2) = 256 * 129 + r.rcode
  BY <1>5 DEF Message, HeaderHeld
<1>10. /\ Answers(buf) = Failed \/ \E m \in 0..n : Answers(buf) = Found(adr, t, m)
       /\ l = at[n] => Answers(buf) = Found(adr, t, n)
  BY <1>5, <1>8, AnswersRead
<1>11. t[n] = ShortestTtl(r)
  BY <1>1, <1>2, <1>7, TtlsLeast, ShortestTtlRead
<1>12. /\ adr[n] = Addresses(r)
       /\ \A m \in 0..n : adr[m] \in Seq(ToSet(Addresses(r))) /\ IsPrefix(adr[m], Addresses(r))
  <2>1. adr[n] = Addresses(r) /\ \A m \in 0..n : adr[m] \in Seq(Seq(Bytes)) /\ Extends(Seq(Bytes), adr[m], adr[n])
    BY <1>6, Zenon DEF Collects
  <2>2. n \in 0..n
    BY <1>2
  <2> QED
    BY <2>1, <2>2, BeginningIsPrefix, Zenon
<1>13. ASSUME NEW m \in 0..n
       PROVE  Meant(r, Found(adr, t, m), FALSE)
  <2>1. t[m] \in Nat
    BY <1>7
  <2>2. Found(adr, t, m).ips = adr[m] /\ Found(adr, t, m).ttl \in Nat
    BY <2>1 DEF Found
  <2> QED
    BY <1>12, <2>2 DEF Meant
<1>14. Meant(r, Found(adr, t, n), TRUE)
  <2>1. n \in 0..n /\ Found(adr, t, n).ok /\ Found(adr, t, n).ips = adr[n]
        /\ (adr[n] # <<>> => Found(adr, t, n).ttl = t[n])
    BY <1>2 DEF Found
  <2>2. Meant(r, Found(adr, t, n), FALSE)
    BY <1>13, <2>1
  <2> QED
    BY <1>11, <1>12, <2>1, <2>2 DEF Meant
<1>15. Meant(r, Failed, FALSE)
  BY <1>1, FailedMeant
<1>16. Meant(r, Answers(buf), l = Len(Encode(r)))
  <2>1. CASE l = Len(Encode(r))
    BY <1>4, <1>10, <1>14, <2>1
  <2>2. CASE l # Len(Encode(r))
    <3>1. Meant(r, Answers(buf), FALSE)
      BY <1>10, <1>13, <1>15, Zenon
    <3> QED
      BY <2>2, <3>1 DEF Meant
  <2> QED
    BY <2>1, <2>2
<1> QED
  BY <1>9, <1>16

LEMMA CodeOf ==
  ASSUME NEW c \in 0..15
  PROVE  (256 * 129 + c) % 16 = c
  OBVIOUS

(* However much of it arrives, a response is read as what it means; one of *)
(* another query, or with an error, is refused.                            *)
LEMMA ParseMeant ==
  ASSUME NEW r, NEW l, Reads(r, l), NEW buf, buf = SubSeq(Encode(r), 1, l), NEW id
  PROVE  /\ Meant(r, Parse(buf, id), FALSE)
         /\ r.id # id \/ r.rcode # 0 => ~Parse(buf, id).ok
         /\ r.id = id /\ r.rcode = 0 /\ l = Len(Encode(r)) => Meant(r, Parse(buf, id), TRUE)
<1>1. r.rcode \in 0..15 /\ Encode(r) \in Seq(Bytes) /\ l \in Nat /\ Len(buf) = l /\ Len(Encode(r)) >= 21
  <2> DEFINE w == Encode(r)
  <2>1. WellFormed(r) /\ w \in Seq(Bytes) /\ Len(w) \in Nat /\ Len(w) >= 21 /\ l \in 0..Len(w) /\ buf = SubSeq(w, 1, l)
    BY EncodeBytes DEF Reads
  <2> HIDE DEF w
  <2>2. Len(buf) = l /\ l \in Nat
    BY <2>1
  <2>3. r.rcode \in 0..15
    BY <2>1, AnswersSendable
  <2> QED
    BY <2>1, <2>2, <2>3 DEF w
<1>2. Meant(r, Failed, FALSE) /\ ~Failed.ok
  BY FailedMeant DEF Reads
<1>3. CASE l < 12
  <2>1. Parse(buf, id) = Failed /\ l # Len(Encode(r))
    BY <1>1, <1>3 DEF Parse
  <2> QED
    BY <1>2, <2>1
<1>4. CASE l >= 12
  <2>1. /\ U16(buf, 0) = r.id /\ U16(buf, 2) = 256 * 129 + r.rcode
        /\ Meant(r, Answers(buf), l = Len(Encode(r)))
    BY <1>4, AnswersMeant
  <2>2. U16(buf, 2) % 16 = r.rcode
    BY <1>1, <2>1, CodeOf
  <2>3. Parse(buf, id) = IF r.id # id \/ r.rcode # 0 THEN Failed ELSE Answers(buf)
    BY <1>1, <1>4, <2>1, <2>2 DEF Parse
  <2>4. Meant(r, Answers(buf), FALSE)
    BY <2>1 DEF Meant
  <2> QED
    BY <1>2, <2>1, <2>3, <2>4
<1>5. l < 12 \/ l >= 12
  BY <1>1
<1> QED
  BY <1>3, <1>4, <1>5, Zenon

-----------------------------------------------------------------------------
(* The dials                                                               *)

(* What a dial received is the beginning of what it was sent. *)
LEMMA ReceivedBeginning ==
  ASSUME NEW r, WellFormed(r), NEW cut \in Nat
  PROVE  \E l : Reads(r, l) /\ Received(r, cut) = SubSeq(Encode(r), 1, l)
               /\ (Received(r, cut) = Encode(r) => l = Len(Encode(r)))
<1> DEFINE e == Encode(r)
           n == Len(e)
<1>1. e \in Seq(Bytes) /\ n \in Nat
  BY EncodeBytes
<1>2. Received(r, cut) = SubSeq(e, 1, n - cut)
  BY DEF Received
<1>3. \A l \in 0..n : Reads(r, l)
  BY <1>1, Zenon DEF Reads
<1> HIDE DEF e
<1>4. CASE cut <= n
  <2>1. n - cut \in 0..n
    BY <1>1, <1>4
  <2>2. Len(SubSeq(e, 1, n - cut)) = n - cut
    BY <1>1, <2>1
  <2>3. Received(r, cut) = e => n - cut = n
    BY <1>2, <2>2, Zenon
  <2> QED
    BY <1>2, <1>3, <2>1, <2>3 DEF e
<1>5. CASE ~(cut <= n)
  <2>1. 0 \in 0..n /\ n - cut < 1
    BY <1>1, <1>5
  <2>2. SubSeq(e, 1, n - cut) = <<>> /\ SubSeq(e, 1, 0) = <<>>
    BY <1>1, <2>1
  <2>3. Received(r, cut) = e => 0 = n
    BY <1>2, <2>2
  <2> QED
    BY <1>2, <1>3, <2>1, <2>2, <2>3 DEF e
<1> QED
  BY <1>4, <1>5

(* What a dial has read is a response the server could send, cut or not. *)
GotInv ==
  \A d \in Dials :
    pc[d] = "answered" =>
      \E r \in Responses, cut \in Cuts : got[d] = [sent |-> r, buf |-> Received(r, cut)]

Domains == DOMAIN pc = Dials /\ DOMAIN got = Dials

LEMMA GotKept ==
  ASSUME Domains, GotInv, [Next]_vars
  PROVE  Domains' /\ GotInv'
<1>1. CASE pc' = pc /\ got' = got
  BY <1>1 DEF GotInv, Domains
<1>2. ASSUME NEW d \in Dials, NEW to, pc' = [pc EXCEPT ![d] = to], to # "answered",
             got' = got \/ got' = [got EXCEPT ![d] = NoAnswer]
      PROVE  Domains' /\ GotInv'
  BY <1>2 DEF GotInv, Domains
<1>3. ASSUME NEW d \in Dials, NEW r \in Responses, NEW cut \in Cuts, Answer(d, r, cut)
      PROVE  Domains' /\ GotInv'
  BY <1>3 DEF GotInv, Domains, Answer, Goto
<1>4. CASE UNCHANGED vars \/ Tick \/ Move
  BY <1>1, <1>4 DEF vars, dialVars, Tick, Move
<1>5. ASSUME NEW d \in Dials, DialStep(d)
      PROVE  Domains' /\ GotInv'
  <2>1. ASSUME NEW n \in Names, DialSystem(d, n) \/ DialCached(d, n) \/ DialUncached(d, n)
        PROVE  Domains' /\ GotInv'
    BY <2>1, <1>2 DEF DialSystem, DialCached, DialUncached, Goto
  <2>2. CASE Fail(d) \/ Store(d) \/ Discard(d)
    BY <2>2, <1>2 DEF Fail, Store, Discard, Goto
  <2>3. CASE Connect(d) \/ GiveUp(d) \/ Close(d)
    BY <2>3, <1>2 DEF Connect, GiveUp, Close, Goto
  <2>4. CASE TryNext(d)
    BY <2>4, <1>1 DEF TryNext
  <2> QED
    BY <1>3, <1>5, <2>1, <2>2, <2>3, <2>4 DEF DialStep
<1> QED
  BY <1>4, <1>5 DEF Next

LEMMA ReadAsMeant == Domains /\ GotInv => ReadsWhatWasMeant
<1> SUFFICES ASSUME GotInv, NEW d \in Dials, pc[d] = "answered"
             PROVE  LET r == got[d].sent
                        p == Parse(got[d].buf, QueryId)
                    IN /\ p.ips \in Seq(ToSet(Addresses(r))) /\ p.ttl \in Nat
                       /\ IsPrefix(p.ips, Addresses(r))
                       /\ r.id # QueryId \/ r.rcode # 0 => ~p.ok
                       /\ r.id = QueryId /\ r.rcode = 0 /\ got[d].buf = Encode(r) =>
                            p.ok /\ p.ips = Addresses(r) /\ (p.ips # <<>> => p.ttl = ShortestTtl(r))
  BY Zenon DEF ReadsWhatWasMeant
<1>1. PICK r \in Responses, cut \in Cuts : got[d] = [sent |-> r, buf |-> Received(r, cut)]
  BY Zenon DEF GotInv
<1>2. got[d].sent = r /\ got[d].buf = Received(r, cut)
  BY <1>1
<1>3. WellFormed(r) /\ cut \in Nat
  BY ResponsesAssumption
<1>4. PICK l : /\ Reads(r, l) /\ Received(r, cut) = SubSeq(Encode(r), 1, l)
               /\ Received(r, cut) = Encode(r) => l = Len(Encode(r))
  BY <1>3, ReceivedBeginning, Zenon
<1> DEFINE p == Parse(Received(r, cut), QueryId)
<1>5. /\ Meant(r, p, FALSE)
      /\ r.id # QueryId \/ r.rcode # 0 => ~p.ok
      /\ r.id = QueryId /\ r.rcode = 0 /\ l = Len(Encode(r)) => Meant(r, p, TRUE)
  BY <1>4, ParseMeant, Zenon
<1>6. p = Parse(got[d].buf, QueryId)
  BY <1>2, Zenon
<1> HIDE DEF p
<1>7. p.ips \in Seq(ToSet(Addresses(r))) /\ p.ttl \in Nat /\ IsPrefix(p.ips, Addresses(r))
  BY <1>5, Zenon DEF Meant
<1>8. r.id = QueryId /\ r.rcode = 0 /\ got[d].buf = Encode(r) =>
        p.ok /\ p.ips = Addresses(r) /\ (p.ips # <<>> => p.ttl = ShortestTtl(r))
  BY <1>2, <1>4, <1>5, Zenon DEF Meant
<1> QED
  BY <1>2, <1>5, <1>6, <1>7, <1>8, Zenon

(* A whole answer to the query is read as what the server meant, a cut one *)
(* is refused or read in part, for every set of well-formed responses, of  *)
(* any number of answers, and every cut (upstreamdial.go:211-293).         *)
THEOREM AnswersAreReadRight == Spec => []ReadsWhatWasMeant
<1>1. Init => Domains /\ GotInv
  BY DEF Init, Domains, GotInv
<1>2. Domains /\ GotInv /\ [Next]_vars => Domains' /\ GotInv'
  BY GotKept
<1>3. Domains /\ GotInv => ReadsWhatWasMeant
  BY ReadAsMeant
<1> QED
  BY <1>1, <1>2, <1>3, PTL DEF Spec

-----------------------------------------------------------------------------
(* Which addresses are dialed, and how old they may be                     *)

USE DialAssumption, AddressAssumption

Addrs == UNION {Moves[i] : i \in 1..Len(Moves)}

Busy(d) == pc[d] \in {"query", "answered", "connect"}

(* The upstream uses address a, or has used it until time t or longer. *)
UsedUntil(a, t) == a \in Moves[place] \/ (a \in DOMAIN left /\ t <= left[a])

AllUsedUntil(s, t) == \A i \in 1..Len(s) : UsedUntil(s[i], t)

TypeOK ==
  /\ now \in Nat
  /\ place \in 1..Len(Moves)
  /\ \A a \in DOMAIN left : left[a] \in Nat /\ a \in Addrs /\ a \notin Moves[place]
  /\ pc \in [Dials -> {"idle", "query", "answered", "connect", "done"}]
  /\ began \in [Dials -> Nat]
  /\ got = [d \in Dials |-> got[d]]
  /\ ips \in [Dials -> Seq(Addrs)]
  /\ conn \in [Dials -> Addrs \cup {Nobody}]

(* A dial is over in time. *)
ClockInv == \A d \in Dials : began[d] <= now /\ (Busy(d) => now <= began[d] + MaxDial)

(* What a dial was answered was true after it began. *)
AnsweredInv ==
  \A d \in Dials :
    pc[d] = "answered" => \A a \in ToSet(Addresses(got[d].sent)) : a \in Addrs /\ UsedUntil(a, began[d])

(* An entry is kept for MaxTTL after the answer that is in it was given,   *)
(* or after the dial that stored it late was over.                         *)
CacheInv ==
  \A n \in DOMAIN cache :
    /\ cache[n].ips \in Seq(Addrs)
    /\ cache[n].expiry \in Int /\ cache[n].expiry <= now + MaxTTL
    /\ AllUsedUntil(cache[n].ips, cache[n].expiry - MaxTTL - MaxDial)

(* The addresses a dial tries come from such an entry, or are newer. *)
TriedInv ==
  \A d \in Dials : pc[d] = "connect" => AllUsedUntil(ips[d], began[d] - MaxTTL - MaxDial)

DialInv == TypeOK /\ ClockInv /\ AnsweredInv /\ CacheInv /\ TriedInv

-----------------------------------------------------------------------------

LEMMA DialInvInitially == Init => DialInv
<1> SUFFICES ASSUME Init
             PROVE  DialInv
  OBVIOUS
<1>1. TypeOK
  BY DEF Init, TypeOK
<1>2. ClockInv /\ AnsweredInv /\ CacheInv /\ TriedInv
  BY DEF Init, ClockInv, AnsweredInv, CacheInv, TriedInv, Busy
<1> QED
  BY <1>1, <1>2 DEF DialInv

(* A longer use implies a shorter one. *)
LEMMA UsedBefore ==
  ASSUME TypeOK, NEW a, NEW t \in Int, NEW u \in Int, u <= t, UsedUntil(a, t)
  PROVE  UsedUntil(a, u)
  BY DEF UsedUntil, TypeOK

LEMMA AllUsedBefore ==
  ASSUME TypeOK, NEW s, NEW t \in Int, NEW u \in Int, u <= t, AllUsedUntil(s, t)
  PROVE  AllUsedUntil(s, u)
  BY UsedBefore DEF AllUsedUntil

(* The steps of a dial leave the clock and the upstream alone.             *)
LEMMA SameUse ==
  ASSUME UNCHANGED <<place, left>>
  PROVE  /\ \A a, t : UsedUntil(a, t) => UsedUntil(a, t)'
         /\ \A q, t : AllUsedUntil(q, t) => AllUsedUntil(q, t)'
  BY DEF UsedUntil, AllUsedUntil

LEMMA TickKeeps ==
  ASSUME DialInv, Tick
  PROVE  DialInv'
<1>1. /\ now' = now + Step /\ \A d \in Dials : pc[d] \in {"idle", "done"} \/ now' - began[d] <= MaxDial
      /\ UNCHANGED <<place, left, dialVars, cache>>
  BY DEF Tick
<1>2. TypeOK'
  BY <1>1 DEF DialInv, TypeOK, dialVars
<1>3. ClockInv'
  <2> SUFFICES ASSUME NEW d \in Dials
               PROVE  began[d] <= now' /\ (Busy(d) => now' <= began[d] + MaxDial)
    BY <1>1 DEF ClockInv, Busy, dialVars
  <2>1. began[d] \in Nat /\ now \in Nat /\ began[d] <= now
    BY DEF DialInv, TypeOK, ClockInv
  <2> QED
    BY <1>1, <2>1 DEF Busy
<1>4. AnsweredInv' /\ TriedInv'
  BY <1>1 DEF DialInv, AnsweredInv, TriedInv, AllUsedUntil, UsedUntil, dialVars
<1>5. CacheInv'
  <2> SUFFICES ASSUME NEW n \in DOMAIN cache
               PROVE  /\ cache[n].ips \in Seq(Addrs)
                      /\ cache[n].expiry \in Int /\ cache[n].expiry <= now' + MaxTTL
                      /\ AllUsedUntil(cache[n].ips, cache[n].expiry - MaxTTL - MaxDial)'
    BY <1>1 DEF CacheInv, AllUsedUntil, UsedUntil
  <2>1. /\ cache[n].ips \in Seq(Addrs) /\ cache[n].expiry \in Int /\ cache[n].expiry <= now + MaxTTL
        /\ AllUsedUntil(cache[n].ips, cache[n].expiry - MaxTTL - MaxDial)
    BY DEF DialInv, CacheInv
  <2>2. cache[n].expiry <= now' + MaxTTL
    BY <1>1, <2>1 DEF DialInv, TypeOK
  <2> QED
    BY <1>1, <2>1, <2>2 DEF AllUsedUntil, UsedUntil
<1> QED
  BY <1>2, <1>3, <1>4, <1>5 DEF DialInv

UsedUntilNext(a, t) == a \in Moves[place'] \/ (a \in DOMAIN left' /\ t <= left'[a])

(* An address the upstream leaves was used until now. *)
LEMMA MoveKeepsUse ==
  ASSUME DialInv, Move, NEW a, NEW t \in Int, t <= now, UsedUntil(a, t)
  PROVE  UsedUntilNext(a, t)
<1>1. /\ place' = place + 1
      /\ DOMAIN left' = (DOMAIN left \cup Moves[place]) \ Moves[place + 1]
      /\ \A b \in DOMAIN left' : left'[b] = IF b \in DOMAIN left THEN left[b] ELSE now
  BY DEF Move
<1>2. CASE a \in Moves[place + 1]
  BY <1>1, <1>2 DEF UsedUntil, UsedUntilNext
<1>3. CASE a \notin Moves[place + 1] /\ a \in DOMAIN left
  BY <1>1, <1>3 DEF UsedUntil, UsedUntilNext, DialInv, TypeOK
<1>4. CASE a \notin Moves[place + 1] /\ a \notin DOMAIN left
  BY <1>1, <1>4 DEF UsedUntil, UsedUntilNext
<1> QED
  BY <1>2, <1>3, <1>4

LEMMA MoveKeeps ==
  ASSUME DialInv, Move
  PROVE  DialInv'
<1>1. /\ place < Len(Moves) /\ place' = place + 1
      /\ DOMAIN left' = (DOMAIN left \cup Moves[place]) \ Moves[place + 1]
      /\ \A b \in DOMAIN left' : left'[b] = IF b \in DOMAIN left THEN left[b] ELSE now
      /\ UNCHANGED <<now, dialVars, cache>>
  BY DEF Move
<1>0. TypeOK /\ ClockInv /\ AnsweredInv /\ CacheInv /\ TriedInv
  BY DEF DialInv
<1>2. TypeOK'
  <2>1. place' \in 1..Len(Moves)
    BY <1>0, <1>1 DEF TypeOK
  <2>2. \A a \in DOMAIN left' : left'[a] \in Nat /\ a \in Addrs /\ a \notin Moves[place']
    BY <1>0, <1>1 DEF TypeOK, Addrs
  <2> QED
    BY <1>0, <1>1, <2>1, <2>2 DEF TypeOK, dialVars
<1>3. ClockInv'
  BY <1>0, <1>1 DEF ClockInv, Busy, dialVars
<1>4. AnsweredInv'
  <2> SUFFICES ASSUME NEW d \in Dials, pc[d] = "answered", NEW a \in ToSet(Addresses(got[d].sent))
               PROVE  a \in Addrs /\ UsedUntil(a, began[d])'
    BY <1>1 DEF AnsweredInv, UsedUntil, dialVars
  <2>1. a \in Addrs /\ UsedUntil(a, began[d]) /\ began[d] \in Int /\ began[d] <= now
    BY <1>0 DEF AnsweredInv, ClockInv, TypeOK
  <2>2. began' = began
    BY <1>1 DEF dialVars
  <2>3. UsedUntilNext(a, began[d])
    BY <2>1, MoveKeepsUse
  <2> QED
    BY <2>1, <2>2, <2>3 DEF UsedUntil, UsedUntilNext
<1>5. CacheInv'
  <2> SUFFICES ASSUME NEW n \in DOMAIN cache
               PROVE  AllUsedUntil(cache[n].ips, cache[n].expiry - MaxTTL - MaxDial)'
    BY <1>0, <1>1 DEF CacheInv, AllUsedUntil, UsedUntil
  <2> DEFINE t == cache[n].expiry - MaxTTL - MaxDial
  <2>1. t \in Int /\ t <= now /\ AllUsedUntil(cache[n].ips, t)
    BY <1>0 DEF CacheInv, TypeOK
  <2>2. cache' = cache
    BY <1>1
  <2> HIDE DEF t
  <2>3. \A i \in 1..Len(cache[n].ips) : UsedUntilNext(cache[n].ips[i], t)
    BY <2>1, MoveKeepsUse DEF AllUsedUntil
  <2> QED
    BY <2>2, <2>3 DEF AllUsedUntil, t, UsedUntil, UsedUntilNext
<1>6. TriedInv'
  <2> SUFFICES ASSUME NEW d \in Dials, pc[d] = "connect", NEW i \in 1..Len(ips[d])
               PROVE  UsedUntil(ips[d][i], began[d] - MaxTTL - MaxDial)'
    BY <1>1 DEF TriedInv, AllUsedUntil, UsedUntil, dialVars
  <2> DEFINE t == began[d] - MaxTTL - MaxDial
  <2>1. t \in Int /\ t <= now /\ UsedUntil(ips[d][i], t)
    BY <1>0 DEF TriedInv, TypeOK, ClockInv, AllUsedUntil
  <2>2. began' = began /\ ips' = ips
    BY <1>1 DEF dialVars
  <2> HIDE DEF t
  <2>3. UsedUntilNext(ips[d][i], t)
    BY <2>1, MoveKeepsUse
  <2> QED
    BY <2>2, <2>3 DEF t, UsedUntil, UsedUntilNext
<1> QED
  BY <1>2, <1>3, <1>4, <1>5, <1>6 DEF DialInv

(* A dial that changes nothing the invariant says of another one.          *)
OnlyDial(d) ==
  /\ UNCHANGED <<now, place, left>>
  /\ \A e \in Dials \ {d} :
       pc'[e] = pc[e] /\ began'[e] = began[e] /\ got'[e] = got[e] /\ ips'[e] = ips[e]

LEMMA OneDialKeeps ==
  ASSUME DialInv, NEW d \in Dials, OnlyDial(d), TypeOK', CacheInv',
         began'[d] \in Nat /\ began'[d] <= now /\ (Busy(d)' => now <= began'[d] + MaxDial),
         pc'[d] = "answered" =>
           \A a \in ToSet(Addresses(got'[d].sent)) : a \in Addrs /\ UsedUntil(a, began'[d]),
         pc'[d] = "connect" => AllUsedUntil(ips'[d], began'[d] - MaxTTL - MaxDial)
  PROVE  DialInv'
<1>0. TypeOK /\ ClockInv /\ AnsweredInv /\ CacheInv /\ TriedInv
  BY DEF DialInv
<1>1. ClockInv'
  BY <1>0 DEF ClockInv, OnlyDial, Busy
<1>2. AnsweredInv'
  BY <1>0 DEF AnsweredInv, OnlyDial, UsedUntil
<1>3. TriedInv'
  BY <1>0 DEF TriedInv, OnlyDial, UsedUntil, AllUsedUntil
<1> QED
  BY <1>1, <1>2, <1>3 DEF DialInv

LEMMA CacheStays ==
  ASSUME DialInv, UNCHANGED <<now, place, left, cache>>
  PROVE  CacheInv'
  BY DEF DialInv, CacheInv, AllUsedUntil, UsedUntil

LEMMA DialsBegin ==
  ASSUME DialInv, NEW d \in Dials, NEW n \in Names,
         DialSystem(d, n) \/ DialCached(d, n) \/ DialUncached(d, n)
  PROVE  DialInv'
<1>0. TypeOK /\ ClockInv /\ AnsweredInv /\ CacheInv /\ TriedInv
  BY DEF DialInv
<1>1. CASE DialSystem(d, n)
  <2>1. PICK a \in Moves[place] : conn' = [conn EXCEPT ![d] = a]
    BY <1>1 DEF DialSystem, IsIntercepted, Redirected
  <2>2. a \in Addrs
    BY <1>0, <2>1 DEF Addrs, TypeOK
  <2>3. TypeOK'
    BY <1>0, <1>1, <2>1, <2>2 DEF TypeOK, DialSystem, Goto
  <2>4. OnlyDial(d) /\ pc'[d] = "done" /\ began'[d] = now /\ now \in Nat /\ ~Busy(d)'
    BY <1>0, <1>1 DEF TypeOK, DialSystem, Goto, OnlyDial, Busy
  <2>5. CacheInv'
    BY <1>1, CacheStays DEF DialSystem
  <2> QED
    BY <2>3, <2>4, <2>5, OneDialKeeps
<1>2. CASE DialCached(d, n)
  <2> DEFINE k == Lower[n]
  <2>1. k \in DOMAIN cache /\ now < cache[k].expiry /\ ips' = [ips EXCEPT ![d] = cache[k].ips]
    BY <1>2 DEF DialCached, Fresh
  <2>2. /\ cache[k].ips \in Seq(Addrs) /\ cache[k].expiry \in Int
        /\ AllUsedUntil(cache[k].ips, cache[k].expiry - MaxTTL - MaxDial)
    BY <1>0, <2>1 DEF CacheInv
  <2> HIDE DEF k
  <2>3. TypeOK'
    BY <1>0, <1>2, <2>1, <2>2 DEF TypeOK, DialCached, Goto
  <2>4. /\ OnlyDial(d) /\ pc'[d] = "connect" /\ began'[d] = now /\ now \in Nat
        /\ ips'[d] = cache[k].ips
    BY <1>0, <1>2, <2>1 DEF TypeOK, DialCached, Goto, OnlyDial
  <2>5. AllUsedUntil(cache[k].ips, now - MaxTTL - MaxDial)
    <3>1. /\ cache[k].expiry - MaxTTL - MaxDial \in Int /\ now - MaxTTL - MaxDial \in Int
          /\ now - MaxTTL - MaxDial <= cache[k].expiry - MaxTTL - MaxDial
      BY <1>0, <2>1, <2>2 DEF TypeOK
    <3> QED
      BY <1>0, <2>2, <3>1, AllUsedBefore
  <2>6. CacheInv'
    BY <1>2, CacheStays DEF DialCached
  <2>7. began'[d] \in Nat /\ began'[d] <= now /\ now <= began'[d] + MaxDial
    BY <2>4
  <2>8. AllUsedUntil(ips'[d], began'[d] - MaxTTL - MaxDial)
    BY <2>4, <2>5
  <2>9. pc'[d] # "answered"
    BY <2>4
  <2> QED
    BY <2>3, <2>4, <2>6, <2>7, <2>8, <2>9, OneDialKeeps
<1>3. CASE DialUncached(d, n)
  <2>1. TypeOK'
    BY <1>0, <1>3 DEF TypeOK, DialUncached, Goto
  <2>2. OnlyDial(d) /\ pc'[d] = "query" /\ began'[d] = now /\ now \in Nat
    BY <1>0, <1>3 DEF TypeOK, DialUncached, Goto, OnlyDial
  <2>3. CacheInv'
    BY <1>3, CacheStays DEF DialUncached
  <2>4. began'[d] \in Nat /\ began'[d] <= now /\ now <= began'[d] + MaxDial
    BY <2>2
  <2> QED
    BY <2>1, <2>2, <2>3, <2>4, OneDialKeeps
<1> QED
  BY <1>1, <1>2, <1>3

LEMMA AnswersKeep ==
  ASSUME DialInv, NEW d \in Dials,
         \/ \E r \in Responses, cut \in Cuts : Answer(d, r, cut)
         \/ Fail(d) \/ Discard(d) \/ Connect(d) \/ TryNext(d) \/ GiveUp(d) \/ Close(d)
  PROVE  DialInv'
<1>0. TypeOK /\ ClockInv /\ AnsweredInv /\ CacheInv /\ TriedInv
  BY DEF DialInv
<1>1. ASSUME NEW r \in Responses, NEW cut \in Cuts, Answer(d, r, cut)
      PROVE  DialInv'
  <2>1. TypeOK'
    BY <1>0, <1>1 DEF TypeOK, Answer, Goto
  <2>2. /\ OnlyDial(d) /\ pc'[d] = "answered" /\ UNCHANGED <<began, cache>> /\ Busy(d)
        /\ got'[d].sent = r /\ ToSet(Addresses(r)) \subseteq Moves[place]
    BY <1>0, <1>1 DEF TypeOK, Answer, Goto, OnlyDial, Busy
  <2>3. \A a \in ToSet(Addresses(r)) : a \in Addrs /\ UsedUntil(a, began[d])
    BY <1>0, <2>2 DEF Addrs, TypeOK, UsedUntil
  <2> QED
    BY <1>0, <2>1, <2>2, <2>3, CacheStays, OneDialKeeps DEF OnlyDial, TypeOK, ClockInv
<1>2. CASE Fail(d) \/ Discard(d) \/ Connect(d) \/ GiveUp(d)
  <2>1. TypeOK'
    <3>1. CASE Fail(d)
      BY <1>0, <3>1 DEF TypeOK, Fail, Goto
    <3>2. CASE Discard(d)
      BY <1>0, <3>2 DEF TypeOK, Discard, Goto
    <3>3. CASE Connect(d)
      <4>1. Head(ips[d]) \in Addrs
        BY <1>0, <3>3 DEF TypeOK, Connect
      <4> QED
        BY <1>0, <3>3, <4>1 DEF TypeOK, Connect, Goto
    <3>4. CASE GiveUp(d)
      BY <1>0, <3>4 DEF TypeOK, GiveUp, Goto
    <3> QED
      BY <1>2, <3>1, <3>2, <3>3, <3>4
  <2>2. OnlyDial(d) /\ pc'[d] = "done" /\ UNCHANGED <<began, cache>>
    BY <1>0, <1>2 DEF TypeOK, Fail, Discard, Connect, GiveUp, Goto, OnlyDial
  <2> QED
    BY <1>0, <2>1, <2>2, CacheStays, OneDialKeeps DEF OnlyDial, TypeOK, ClockInv, Busy
<1>3. CASE TryNext(d)
  <2>1. /\ pc[d] = "connect" /\ ips[d] # <<>> /\ ips[d] \in Seq(Addrs) /\ ips' = [ips EXCEPT ![d] = Tail(ips[d])]
        /\ UNCHANGED <<now, place, left, pc, name, began, got, conn, cache>>
    BY <1>0, <1>3 DEF TypeOK, TryNext
  <2>2. Tail(ips[d]) \in Seq(Addrs)
    BY <2>1
  <2>3. TypeOK' /\ ips'[d] = Tail(ips[d])
    BY <1>0, <2>1, <2>2 DEF TypeOK
  <2>4. OnlyDial(d) /\ Busy(d)
    BY <1>0, <2>1 DEF TypeOK, OnlyDial, Busy
  <2>5. AllUsedUntil(Tail(ips[d]), began[d] - MaxTTL - MaxDial)
    <3>1. AllUsedUntil(ips[d], began[d] - MaxTTL - MaxDial)
      BY <1>0, <2>1 DEF TriedInv
    <3>2. Len(Tail(ips[d])) = Len(ips[d]) - 1 /\ Len(ips[d]) \in Nat
          /\ \A i \in 1..Len(Tail(ips[d])) : Tail(ips[d])[i] = ips[d][i + 1]
      BY <2>1
    <3> QED
      BY <3>1, <3>2 DEF AllUsedUntil
  <2>6. CacheInv'
    BY <2>1, CacheStays
  <2>7. /\ began'[d] \in Nat /\ began'[d] <= now /\ now <= began'[d] + MaxDial
        /\ began'[d] = began[d] /\ pc'[d] = "connect"
    BY <1>0, <2>1, <2>4 DEF TypeOK, ClockInv
  <2> QED
    BY <2>3, <2>4, <2>5, <2>6, <2>7, OneDialKeeps
<1>4. CASE Close(d)
  <2>1. TypeOK'
    BY <1>0, <1>4 DEF TypeOK, Close, Goto
  <2>2. OnlyDial(d) /\ pc'[d] = "idle" /\ began'[d] = 0 /\ now \in Nat /\ ~Busy(d)'
    BY <1>0, <1>4 DEF TypeOK, Close, Goto, OnlyDial, Busy
  <2>3. CacheInv'
    BY <1>4, CacheStays DEF Close
  <2> QED
    BY <2>1, <2>2, <2>3, OneDialKeeps
<1> QED
  BY <1>1, <1>2, <1>3, <1>4

LEMMA StoreKeeps ==
  ASSUME DialInv, ReadsWhatWasMeant, NEW d \in Dials, Store(d)
  PROVE  DialInv'
<1>0. TypeOK /\ ClockInv /\ AnsweredInv /\ CacheInv /\ TriedInv
  BY DEF DialInv
<1> DEFINE p == Parse(got[d].buf, QueryId)
           k == Lower[name[d]]
           entry == [ips |-> p.ips, expiry |-> now + ClampTTL(p.ttl)]
<1>1. /\ pc[d] = "answered" /\ pc' = [pc EXCEPT ![d] = "connect"]
      /\ cache' = [n \in DOMAIN cache \cup {k} |-> IF n = k THEN entry ELSE cache[n]]
      /\ ips' = [ips EXCEPT ![d] = p.ips]
      /\ got' = [got EXCEPT ![d] = NoAnswer]
      /\ UNCHANGED <<now, place, left, name, began, conn>>
  BY DEF Store, Goto
<1>2. p.ips \in Seq(ToSet(Addresses(got[d].sent))) /\ p.ttl \in Nat
  BY <1>1 DEF ReadsWhatWasMeant
<1> HIDE DEF p, k
<1>3. \A a \in ToSet(Addresses(got[d].sent)) : a \in Addrs /\ UsedUntil(a, began[d])
  BY <1>0, <1>1 DEF AnsweredInv
<1>4. p.ips \in Seq(Addrs)
  BY <1>2, <1>3
<1>5. AllUsedUntil(p.ips, began[d])
  BY <1>2, <1>3 DEF AllUsedUntil
<1>6. now \in Nat /\ began[d] \in Nat /\ began[d] <= now /\ now <= began[d] + MaxDial
  BY <1>0, <1>1 DEF TypeOK, ClockInv, Busy
<1>7. ClampTTL(p.ttl) \in Nat /\ ClampTTL(p.ttl) <= MaxTTL
  BY <1>2 DEF ClampTTL
<1>8. /\ entry.ips = p.ips /\ entry.expiry \in Int /\ entry.expiry <= now + MaxTTL
      /\ entry.expiry - MaxTTL - MaxDial <= began[d]
  BY <1>6, <1>7
<1> HIDE DEF entry
<1>9. AllUsedUntil(p.ips, entry.expiry - MaxTTL - MaxDial)
  <2>1. entry.expiry - MaxTTL - MaxDial \in Int /\ began[d] \in Int
    BY <1>6, <1>8
  <2> QED
    BY <1>0, <1>5, <1>8, <2>1, AllUsedBefore
<1>10. AllUsedUntil(p.ips, began[d] - MaxTTL - MaxDial)
  <2>1. began[d] - MaxTTL - MaxDial \in Int /\ began[d] \in Int /\ began[d] - MaxTTL - MaxDial <= began[d]
    BY <1>6
  <2> QED
    BY <1>0, <1>5, <2>1, AllUsedBefore
<1>11. TypeOK'
  BY <1>0, <1>1, <1>4 DEF TypeOK
<1>12. CacheInv'
  <2> SUFFICES ASSUME NEW n \in DOMAIN cache'
               PROVE  /\ cache'[n].ips \in Seq(Addrs)
                      /\ cache'[n].expiry \in Int /\ cache'[n].expiry <= now + MaxTTL
                      /\ AllUsedUntil(cache'[n].ips, cache'[n].expiry - MaxTTL - MaxDial)
    <3>1. now' = now /\ place' = place /\ left' = left
      BY <1>1
    <3> QED
      BY <3>1 DEF CacheInv, AllUsedUntil, UsedUntil
  <2>1. CASE n = k
    <3>1. cache'[n] = entry
      BY <1>1, <2>1
    <3> QED
      BY <1>4, <1>8, <1>9, <3>1
  <2>2. CASE n # k
    <3>1. n \in DOMAIN cache /\ cache'[n] = cache[n]
      BY <1>1, <2>2
    <3> QED
      BY <1>0, <3>1 DEF CacheInv
  <2> QED
    BY <2>1, <2>2
<1>13. /\ OnlyDial(d) /\ pc'[d] = "connect" /\ began'[d] = began[d] /\ ips'[d] = p.ips
  BY <1>0, <1>1 DEF OnlyDial, TypeOK
<1> QED
  BY <1>6, <1>10, <1>11, <1>12, <1>13, OneDialKeeps

LEMMA DialInvKept ==
  ASSUME DialInv, ReadsWhatWasMeant, [Next]_vars
  PROVE  DialInv'
<1>1. CASE UNCHANGED vars
  BY <1>1 DEF vars, dialVars, DialInv, TypeOK, ClockInv, AnsweredInv, CacheInv, TriedInv, Busy,
     AllUsedUntil, UsedUntil
<1>2. ASSUME NEW d \in Dials, DialStep(d)
      PROVE  DialInv'
  BY <1>2, DialsBegin, AnswersKeep, StoreKeeps DEF DialStep
<1> QED
  BY <1>1, <1>2, TickKeeps, MoveKeeps DEF Next

-----------------------------------------------------------------------------

(* An address that is dialed late was in use until shortly before.         *)
LEMMA ConnectsInTime ==
  ASSUME DialInv, [Next]_vars, NEW d \in Dials, conn'[d] # conn[d], conn'[d] \in DOMAIN left
  PROVE  now <= left[conn'[d]] + MaxTTL + 2 * MaxDial
<1>0. TypeOK /\ ClockInv /\ TriedInv
  BY DEF DialInv
<1>1. DOMAIN conn = Dials /\ conn[d] # conn'[d]
  BY <1>0 DEF TypeOK
<1>2. (\E n \in Names : DialSystem(d, n)) \/ Connect(d) \/ Close(d)
  <2>1. conn' # conn /\ Next
    BY <1>1 DEF vars, dialVars
  <2>2. PICK e \in Dials : DialStep(e)
    BY <2>1 DEF Next, Tick, Move, dialVars
  <2>3. (\E n \in Names : DialSystem(e, n)) \/ Connect(e) \/ Close(e)
    BY <2>1, <2>2 DEF DialStep, DialCached, DialUncached, Answer, Fail, Store, Discard, TryNext, GiveUp
  <2>4. \E a : conn' = [conn EXCEPT ![e] = a]
    BY <2>3 DEF DialSystem, Connect, Close
  <2>5. e = d
    BY <1>1, <2>4
  <2> QED
    BY <2>3, <2>5
<1>3. ASSUME NEW n \in Names, DialSystem(d, n)
      PROVE  FALSE
  <2>1. conn'[d] \in Moves[place]
    BY <1>1, <1>3 DEF DialSystem, IsIntercepted, Redirected
  <2> QED
    BY <1>0, <2>1 DEF TypeOK
<1>4. CASE Close(d)
  <2>1. conn'[d] = Nobody
    BY <1>1, <1>4 DEF Close
  <2>2. Nobody \notin Addrs
    BY DEF Addrs
  <2>3. conn'[d] \in Addrs
    BY <1>0 DEF TypeOK
  <2> QED
    BY <2>1, <2>2, <2>3
<1>5. CASE Connect(d)
  <2>1. pc[d] = "connect" /\ ips[d] # <<>> /\ conn'[d] = Head(ips[d])
    BY <1>1, <1>5 DEF Connect, Goto
  <2>2. conn'[d] = ips[d][1] /\ 1 \in 1..Len(ips[d])
    BY <1>0, <2>1 DEF TypeOK
  <2>3. UsedUntil(conn'[d], began[d] - MaxTTL - MaxDial)
    BY <1>0, <2>1, <2>2 DEF TriedInv, AllUsedUntil
  <2>4. began[d] - MaxTTL - MaxDial <= left[conn'[d]] /\ left[conn'[d]] \in Nat
    BY <1>0, <2>3 DEF UsedUntil, TypeOK
  <2>5. now <= began[d] + MaxDial /\ began[d] \in Nat /\ now \in Nat
    BY <1>0, <2>1 DEF ClockInv, Busy, TypeOK
  <2> QED
    BY <2>4, <2>5
<1> QED
  BY <1>2, <1>3, <1>4, <1>5

LEMMA DialInvAlways == Spec => []DialInv
<1>1. Init => DialInv
  BY DialInvInitially
<1>2. DialInv /\ ReadsWhatWasMeant /\ [Next]_vars => DialInv'
  BY DialInvKept
<1> QED
  BY <1>1, <1>2, AnswersAreReadRight, PTL DEF Spec

(* The proxy never dials itself, whatever the spelling of the name and     *)
(* however the dials of it share the cache (upstreamdial.go:67-80).        *)
THEOREM NeverDialsItself == Spec => []NeverLoopsBack
<1>1. DialInv => NeverLoopsBack
  BY DEF DialInv, TypeOK, NeverLoopsBack, Addrs
<1> QED
  BY <1>1, DialInvAlways, PTL

(* No answer keeps the proxy on an address the upstream left for longer    *)
(* than maxTTL and the two dials that fetched and used it, in whatever     *)
(* order the answers are stored (upstreamdial.go:104-125, 165-174).        *)
THEOREM LeavesOldAddresses == Spec => FollowsTheUpstream
<1>1. DialInv /\ [Next]_vars =>
        [\A d \in Dials :
           conn'[d] # conn[d] /\ conn'[d] \in DOMAIN left =>
             now <= left[conn'[d]] + MaxTTL + 2 * MaxDial]_vars
  BY ConnectsInTime
<1> QED
  BY <1>1, DialInvAlways, PTL DEF Spec, FollowsTheUpstream
=============================================================================

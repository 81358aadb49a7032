------------------------- MODULE Classifier_proofs --------------------------
(***************************************************************************)
(* The verdict cache under concurrent classifications, for every set of    *)
(* texts and verdicts and every capacity; and what the profiles make of    *)
(* every reply of the model, from the first brace to the verdict.          *)
(***************************************************************************)
EXTENDS Classifier, FiniteSetTheorems, WellFoundedInduction, TLAPS

-----------------------------------------------------------------------------
(* Text, and the object that is taken out of it *)

Tokens == {"open", "close"} \cup Fields \cup Values
Text == Seq(Tokens)

(* The tokens that hold a { and a }, and where they are.                   *)
Opens == {"open", "brace"}
Closes == {"close", "brace"}
Openings(text) == {i \in 1..Len(text) : text[i] \in Opens}
Closings(text) == {i \in 1..Len(text) : text[i] \in Closes}

(* Parts of a sequence.                                                    *)

LEMMA Part ==
  ASSUME NEW T, NEW s \in Seq(T), NEW a \in 1..Len(s), NEW b \in 1..Len(s), a <= b
  PROVE  /\ SubSeq(s, a, b) \in Seq(T)
         /\ Len(SubSeq(s, a, b)) = b - a + 1
         /\ \A i \in 1..(b - a + 1) : SubSeq(s, a, b)[i] = s[a + i - 1] /\ a + i - 1 \in 1..Len(s)
  OBVIOUS

LEMMA Beginning ==
  ASSUME NEW T, NEW s \in Seq(T), NEW n \in 0..Len(s)
  PROVE  /\ SubSeq(s, 1, n) \in Seq(T) /\ Len(SubSeq(s, 1, n)) = n
         /\ \A i \in 1..n : SubSeq(s, 1, n)[i] = s[i]
<1>1. Len(SubSeq(s, 1, n)) = n
  OBVIOUS
<1>2. \A i \in 1..n : SubSeq(s, 1, n)[i] = s[i]
  OBVIOUS
<1>3. SubSeq(s, 1, n) \in Seq(T)
  OBVIOUS
<1> QED
  BY <1>1, <1>2, <1>3

LEMMA Prefixed ==
  ASSUME NEW T, NEW s \in Seq(T), NEW b \in T
  PROVE  /\ <<b>> \o s \in Seq(T) /\ Len(<<b>> \o s) = Len(s) + 1
         /\ (<<b>> \o s)[1] = b
         /\ \A i \in 1..Len(s) : (<<b>> \o s)[i + 1] = s[i]
<1>1. <<b>> \in Seq(T) /\ Len(<<b>>) = 1 /\ <<b>>[1] = b
  OBVIOUS
<1>2. <<b>> \o s \in Seq(T) /\ Len(<<b>> \o s) = Len(s) + 1
  BY <1>1
<1>3. (<<b>> \o s)[1] = b
  BY <1>1
<1>4. \A i \in 1..Len(s) : (<<b>> \o s)[i + 1] = s[i]
  BY <1>1
<1> QED
  BY <1>2, <1>3, <1>4

LEMMA LenIs ==
  ASSUME NEW text \in Text
  PROVE  Len(text) \in Nat
  BY DEF Text

(* The first and the last of the numbers that are there. *)
LEMMA MinIs ==
  ASSUME NEW S \in SUBSET Nat, NEW a \in S, \A y \in S : a <= y
  PROVE  Min(S) = a
<1>1. Min(S) \in S /\ \A y \in S : Min(S) <= y
  BY DEF Min
<1>2. Min(S) \in Nat /\ a \in Nat /\ Min(S) <= a /\ a <= Min(S)
  BY <1>1
<1> QED
  BY <1>2

LEMMA MaxIs ==
  ASSUME NEW S \in SUBSET Nat, NEW a \in S, \A y \in S : y <= a
  PROVE  Max(S) = a
<1>1. Max(S) \in S /\ \A y \in S : Max(S) >= y
  BY DEF Max
<1>2. Max(S) \in Nat /\ a \in Nat /\ Max(S) <= a /\ a <= Max(S)
  BY <1>1
<1> QED
  BY <1>2

LEMMA FirstOf ==
  ASSUME NEW S \in SUBSET Nat, S # {}
  PROVE  \E x \in S : \A y \in S : x <= y
<1> DEFINE R == OpToRel(<, Nat)
<1>1. IsWellFoundedOn(R, Nat)
  BY NatLessThanWellFounded
<1>2. \A x, y \in Nat : x < y => <<x, y>> \in R
  BY DEF OpToRel
<1> HIDE DEF R
<1>3. PICK x \in S : \A y \in S : ~(<<y, x>> \in R)
  BY <1>1, WFMin
<1>4. ASSUME NEW y \in S
      PROVE  x <= y
  <2>1. x \in Nat /\ y \in Nat
    BY <1>3, <1>4
  <2>2. ~(y < x)
    BY <1>2, <1>3, <2>1
  <2> QED
    BY <2>1, <2>2
<1> QED
  BY <1>3, <1>4

LEMMA MinOf ==
  ASSUME NEW n \in Nat, NEW S \in SUBSET (1..n), S # {}
  PROVE  Min(S) \in 1..n
<1>1. S \in SUBSET Nat
  OBVIOUS
<1>2. PICK x \in S : \A y \in S : x <= y
  BY <1>1, FirstOf
<1> QED
  BY <1>1, <1>2, MinIs

LEMMA MaxOf ==
  ASSUME NEW n \in Nat, NEW S \in SUBSET (1..n), S # {}
  PROVE  Max(S) \in 1..n
<1> DEFINE T == {n - i : i \in S}
<1>1. T \in SUBSET Nat /\ T # {} /\ S \in SUBSET Nat
  <2>1. \A i \in S : i \in Nat /\ n - i \in Nat
    OBVIOUS
  <2> QED
    BY <2>1
<1>2. PICK x \in T : \A y \in T : x <= y
  BY <1>1, FirstOf
<1>3. PICK a \in S : x = n - a
  OBVIOUS
<1>4. \A y \in S : n - a <= n - y
  BY <1>2, <1>3
<1>5. \A y \in S : y <= a
  BY <1>3, <1>4
<1> QED
  BY <1>1, <1>3, <1>5, MaxIs

LEMMA ExtractedIs ==
  ASSUME NEW text
  PROVE  ExtractJSON(text) =
           IF Openings(text) # {} /\ Closings(text) # {} /\ Min(Openings(text)) <= Max(Closings(text))
           THEN SubSeq(text, Min(Openings(text)), Max(Closings(text))) ELSE text
  BY Zenon DEF ExtractJSON, Openings, Closings, Opens, Closes

(* From the first opening to the last closing brace. *)
LEMMA Extracted ==
  ASSUME NEW text \in Text, NEW a \in 1..Len(text), NEW b \in 1..Len(text), a <= b,
         text[a] \in Opens, text[b] \in Closes,
         \A i \in 1..Len(text) : i < a => text[i] \notin Opens,
         \A i \in 1..Len(text) : b < i => text[i] \notin Closes
  PROVE  ExtractJSON(text) = SubSeq(text, a, b)
<1>1. Openings(text) \in SUBSET Nat /\ a \in Openings(text) /\ \A y \in Openings(text) : a <= y
  BY DEF Openings, Text
<1>2. Closings(text) \in SUBSET Nat /\ b \in Closings(text) /\ \A y \in Closings(text) : y <= b
  BY DEF Closings, Text
<1>3. Min(Openings(text)) = a /\ Max(Closings(text)) = b
  BY <1>1, <1>2, MinIs, MaxIs
<1> QED
  BY <1>1, <1>2, <1>3, ExtractedIs

(* Text without a } is no object, with or without the braces of strings.   *)
LEMMA NoObjectUnclosed ==
  ASSUME NEW text \in Text, \A i \in 1..Len(text) : text[i] # "close"
  PROVE  ~IsObject(ExtractJSON(text))
<1>1. ASSUME NEW s \in Text, \A i \in 1..Len(s) : s[i] # "close", IsObject(s)
      PROVE  FALSE
  <2>1. s[Len(s)] = "close" /\ Len(s) >= 2
    BY <1>1, Zenon DEF IsObject
  <2>2. Len(s) \in 1..Len(s)
    BY <2>1, LenIs
  <2> QED
    BY <1>1, <2>1, <2>2
<1>2. ASSUME NEW a \in 1..Len(text), NEW b \in 1..Len(text), a <= b
      PROVE  ~IsObject(SubSeq(text, a, b))
  <2> DEFINE s == SubSeq(text, a, b)
  <2>1. s \in Text /\ Len(s) = b - a + 1 /\ \A i \in 1..Len(s) : s[i] = text[a + i - 1] /\ a + i - 1 \in 1..Len(text)
    <3>1. text \in Seq(Tokens)
      BY DEF Text
    <3>2. /\ s \in Seq(Tokens) /\ Len(s) = b - a + 1
          /\ \A i \in 1..(b - a + 1) : s[i] = text[a + i - 1] /\ a + i - 1 \in 1..Len(text)
      BY <1>2, <3>1, Part
    <3> QED
      BY <3>2 DEF Text
  <2> HIDE DEF s
  <2> QED
    BY <1>1, <2>1 DEF s
<1>3. Openings(text) # {} => Min(Openings(text)) \in 1..Len(text)
  <2>1. Len(text) \in Nat /\ Openings(text) \in SUBSET (1..Len(text))
    BY LenIs DEF Openings
  <2> QED
    BY <2>1, MinOf
<1>4. Closings(text) # {} => Max(Closings(text)) \in 1..Len(text)
  <2>1. Len(text) \in Nat /\ Closings(text) \in SUBSET (1..Len(text))
    BY LenIs DEF Closings
  <2> QED
    BY <2>1, MaxOf
<1>5. CASE ExtractJSON(text) = text
  BY <1>1, <1>5
<1>6. CASE ExtractJSON(text) # text
  <2>1. /\ Openings(text) # {} /\ Closings(text) # {}
        /\ Min(Openings(text)) <= Max(Closings(text))
        /\ ExtractJSON(text) = SubSeq(text, Min(Openings(text)), Max(Closings(text)))
    BY <1>6, ExtractedIs
  <2> QED
    BY <1>2, <1>3, <1>4, <2>1
<1> QED
  BY <1>5, <1>6

(* Nor is text whose first brace belongs to no object.                     *)
LEMMA NoObjectBraced ==
  ASSUME NEW text \in Text, Len(text) >= 1, text[1] = "brace"
  PROVE  ~IsObject(ExtractJSON(text))
<1>0. Len(text) \in Nat /\ 1 \in 1..Len(text)
  BY LenIs
<1>1. CASE ExtractJSON(text) = text
  BY <1>1, Zenon DEF IsObject
<1>2. CASE ExtractJSON(text) # text
  <2>1. /\ Openings(text) # {} /\ Closings(text) # {}
        /\ Min(Openings(text)) <= Max(Closings(text))
        /\ ExtractJSON(text) = SubSeq(text, Min(Openings(text)), Max(Closings(text)))
    BY <1>2, ExtractedIs
  <2>2. Openings(text) \in SUBSET Nat /\ 1 \in Openings(text) /\ \A y \in Openings(text) : 1 <= y
    BY <1>0 DEF Openings, Opens
  <2>3. Min(Openings(text)) = 1
    BY <2>2, MinIs
  <2>4. Closings(text) \in SUBSET (1..Len(text))
    BY <1>0 DEF Closings
  <2>5. Max(Closings(text)) \in 1..Len(text)
    BY <1>0, <2>1, <2>4, MaxOf
  <2> DEFINE b == Max(Closings(text))
  <2>6. text \in Seq(Tokens) /\ b \in 1..Len(text) /\ 1 <= b
    BY <1>0, <2>5 DEF Text
  <2> HIDE DEF b
  <2>7. SubSeq(text, 1, b)[1] = text[1]
    BY <1>0, <2>6
  <2>8. ExtractJSON(text) = SubSeq(text, 1, b)
    BY <2>1, <2>3 DEF b
  <2>9. ExtractJSON(text)[1] = "brace"
    BY <2>7, <2>8
  <2> QED
    BY <2>9, Zenon DEF IsObject
<1> QED
  BY <1>1, <1>2

-----------------------------------------------------------------------------
(* Text that holds no object *)

LEMMA LabelsAre ==
  ASSUME NEW text
  PROVE  /\ Labels(text) \subseteq {"ALLOW", "BLOCK"}
         /\ \A i \in 1..Len(text) : Names(text[i]) \subseteq Labels(text)
<1>1. ASSUME NEW t
      PROVE  Names(t) \subseteq {"ALLOW", "BLOCK"}
  BY DEF Names
<1> QED
  BY <1>1 DEF Labels

(* What is taken out of text is no bare null, unless the text is.          *)
LEMMA NotNull ==
  ASSUME NEW text \in Text, text # <<"null">>
  PROVE  ExtractJSON(text) # <<"null">>
<1>1. CASE ExtractJSON(text) = text
  BY <1>1
<1>2. CASE ExtractJSON(text) # text
  <2> DEFINE a == Min(Openings(text))
             b == Max(Closings(text))
  <2>1. /\ Openings(text) # {} /\ Closings(text) # {} /\ a <= b
        /\ ExtractJSON(text) = SubSeq(text, a, b)
    BY <1>2, ExtractedIs
  <2>2. Len(text) \in Nat /\ text \in Seq(Tokens)
    BY LenIs DEF Text
  <2>3. Openings(text) \in SUBSET Nat /\ Closings(text) \in SUBSET (1..Len(text))
    BY <2>2 DEF Openings, Closings
  <2>4. PICK x \in Openings(text) : \A y \in Openings(text) : x <= y
    BY <2>1, <2>3, FirstOf
  <2>5. a = x
    BY <2>3, <2>4, MinIs
  <2>6. a \in 1..Len(text) /\ text[a] \in Opens
    BY <2>4, <2>5 DEF Openings
  <2>7. b \in 1..Len(text)
    BY <2>1, <2>2, <2>3, MaxOf
  <2> HIDE DEF a, b
  <2>8. SubSeq(text, a, b)[1] = text[a]
    BY <2>1, <2>2, <2>6, <2>7
  <2>9. ExtractJSON(text)[1] # "null"
    BY <2>1, <2>6, <2>8 DEF Opens
  <2> QED
    BY <2>9
<1> QED
  BY <1>1, <1>2

LEMMA UndecodedIs ==
  ASSUME NEW p \in Profiles, NEW text, ~Unmarshals(ExtractJSON(text))
  PROVE  Parse(p, text) =
           IF p = "reason_decision" /\ Labels(text) \in {{"ALLOW"}, {"BLOCK"}}
           THEN IF Labels(text) = {"BLOCK"} THEN "BLOCK" ELSE "ALLOW"
           ELSE "error"
<1>1. CASE p = "reason_decision"
  BY <1>1 DEF Parse, ParseReasonDecision
<1>2. CASE p = "ng_boolean"
  BY <1>2 DEF Parse, ParseNGBoolean
<1>3. CASE p = "jp_confidential_extraction"
  BY <1>3 DEF Parse, ParseJPConfidentialExtraction
<1> QED
  BY <1>1, <1>2, <1>3 DEF Profiles

(* Without an object, text that is no bare null.                           *)
LEMMA UndecodedRead ==
  ASSUME NEW p \in Profiles, NEW text \in Text, text # <<"null">>, ~IsObject(ExtractJSON(text))
  PROVE  Parse(p, text) =
           IF p = "reason_decision" /\ Labels(text) \in {{"ALLOW"}, {"BLOCK"}}
           THEN IF Labels(text) = {"BLOCK"} THEN "BLOCK" ELSE "ALLOW"
           ELSE "error"
  BY NotNull, UndecodedIs DEF Unmarshals

-----------------------------------------------------------------------------
(* Objects *)

LEMMA WrappedIs ==
  ASSUME NEW o \in Text, Len(o) >= 2, o[1] = "open", o[Len(o)] = "close"
  PROVE  ExtractJSON(o) = o /\ ExtractJSON(<<"word">> \o o \o <<"word">>) = o
<1>0. Len(o) \in Nat /\ 1 \in 1..Len(o) /\ Len(o) \in 1..Len(o) /\ o \in Seq(Tokens)
  BY LenIs DEF Text
<1>1. ExtractJSON(o) = o
  <2>1. o[1] \in Opens /\ o[Len(o)] \in Closes
    BY DEF Opens, Closes
  <2>2. ExtractJSON(o) = SubSeq(o, 1, Len(o))
    BY <1>0, <2>1, Extracted
  <2> QED
    BY <1>0, <2>2
<1> DEFINE t == <<"word">> \o o \o <<"word">>
<1>2. ExtractJSON(t) = o
  <2>0. "word" \in Tokens
    BY DEF Tokens, Values, Strings
  <2>1. <<"word">> \in Seq(Tokens) /\ Len(<<"word">>) = 1 /\ <<"word">>[1] = "word"
    BY <2>0
  <2>2. /\ t \in Seq(Tokens) /\ Len(t) = Len(o) + 2
        /\ t[1] = "word" /\ t[Len(o) + 2] = "word"
        /\ \A i \in 1..Len(o) : t[i + 1] = o[i]
    BY <1>0, <2>1
  <2> HIDE DEF t
  <2>3. t[2] \in Opens /\ t[Len(o) + 1] \in Closes /\ "word" \notin Opens \cup Closes
    BY <1>0, <2>2 DEF Opens, Closes
  <2>4. /\ 2 \in 1..Len(t) /\ Len(o) + 1 \in 1..Len(t) /\ 2 <= Len(o) + 1
        /\ \A i \in 1..Len(t) : i < 2 => t[i] \notin Opens
        /\ \A i \in 1..Len(t) : Len(o) + 1 < i => t[i] \notin Closes
    <3>1. \A i \in 1..Len(t) : (i < 2 => i = 1) /\ (Len(o) + 1 < i => i = Len(o) + 2)
      BY <1>0, <2>2
    <3> QED
      BY <1>0, <2>2, <2>3, <3>1
  <2>5. t \in Text
    BY <2>2 DEF Text
  <2>6. ExtractJSON(t) = SubSeq(t, 2, Len(o) + 1)
    BY <2>3, <2>4, <2>5, Extracted
  <2> DEFINE u == SubSeq(t, 2, Len(o) + 1)
  <2>7. /\ u \in Seq(Tokens) /\ Len(u) = Len(o)
        /\ \A i \in 1..Len(o) : u[i] = t[2 + i - 1]
    BY <1>0, <2>2, <2>4, Part
  <2> HIDE DEF u
  <2>8. \A i \in 1..Len(o) : u[i] = o[i]
    BY <1>0, <2>2, <2>7
  <2>9. u = o
    BY <1>0, <2>7, <2>8
  <2> QED
    BY <2>6, <2>9 DEF u
<1> QED
  BY <1>1, <1>2

(* The text of a reply holds the object whole.                             *)
Holds(text, o) == text = o \/ text = <<"word">> \o o \o <<"word">>

(* An object of no field, of one and of two.                               *)
None == <<"open", "close">>
One(f, v) == <<"open", f, v, "close">>
Two(f, v, g, w) == <<"open", f, v, g, w, "close">>

LEMMA NoneRead ==
  /\ None \in Text /\ IsObject(None) /\ ExtractJSON(None) = None
  /\ FieldsAt(None) = {}
<1>1. None \in Seq(Tokens) /\ Len(None) = 2 /\ None[1] = "open" /\ None[2] = "close"
  BY DEF None, Tokens
<1>2. None \in Text
  BY <1>1 DEF Text
<1>3. FieldsAt(None) = {}
  BY <1>1 DEF FieldsAt
<1>4. IsObject(None)
  <2>1. 2 % 2 = 0
    OBVIOUS
  <2> QED
    BY <1>1, <1>3, <2>1 DEF IsObject
<1>5. ExtractJSON(None) = None
  BY <1>1, <1>2, WrappedIs
<1> QED
  BY <1>2, <1>3, <1>4, <1>5

LEMMA OneRead ==
  ASSUME NEW f \in Fields, NEW v \in Values, NEW text, text = One(f, v)
  PROVE  /\ text \in Text /\ Len(text) = 4
         /\ text[1] = "open" /\ text[2] = f /\ text[3] = v /\ text[4] = "close"
         /\ FieldsAt(text) = {2}
         /\ IsObject(text) /\ ExtractJSON(text) = text
<1>1. f \in Tokens /\ v \in Tokens /\ "open" \in Tokens /\ "close" \in Tokens
  BY DEF Tokens
<1>2. /\ text \in Seq(Tokens) /\ Len(text) = 4
      /\ text[1] = "open" /\ text[2] = f /\ text[3] = v /\ text[4] = "close"
  BY <1>1 DEF One
<1>3. text \in Text
  BY <1>2 DEF Text
<1>4. FieldsAt(text) = {2}
  <2>1. \A i \in 2..2 : i = 2
    OBVIOUS
  <2>2. 2 % 2 = 0 /\ 4 % 2 = 0 /\ 2 \in 2..2 /\ 4 - 2 = 2
    OBVIOUS
  <2> QED
    BY <1>2, <2>1, <2>2 DEF FieldsAt
<1>5. IsObject(text)
  <2>1. 4 % 2 = 0 /\ 2 + 1 = 3
    OBVIOUS
  <2> QED
    BY <1>2, <1>4, <2>1 DEF IsObject
<1> QED
  BY <1>2, <1>3, <1>4, <1>5, WrappedIs

LEMMA TwoRead ==
  ASSUME NEW f \in Fields, NEW v \in Values, NEW g \in Fields, NEW w \in Values,
         NEW text, text = Two(f, v, g, w)
  PROVE  /\ text \in Text /\ Len(text) = 6
         /\ text[1] = "open" /\ text[2] = f /\ text[3] = v
         /\ text[4] = g /\ text[5] = w /\ text[6] = "close"
         /\ FieldsAt(text) = {2, 4}
         /\ IsObject(text)
<1>1. /\ f \in Tokens /\ v \in Tokens /\ g \in Tokens /\ w \in Tokens
      /\ "open" \in Tokens /\ "close" \in Tokens
  BY DEF Tokens
<1>2. /\ text \in Seq(Tokens) /\ Len(text) = 6
      /\ text[1] = "open" /\ text[2] = f /\ text[3] = v
      /\ text[4] = g /\ text[5] = w /\ text[6] = "close"
  BY <1>1 DEF Two
<1>3. text \in Text
  BY <1>2 DEF Text
<1>4. FieldsAt(text) = {2, 4}
  <2>1. \A i \in 2..4 : i = 2 \/ i = 3 \/ i = 4
    OBVIOUS
  <2>2. 2 % 2 = 0 /\ 3 % 2 = 1 /\ 4 % 2 = 0 /\ 2 \in 2..4 /\ 4 \in 2..4 /\ 6 - 2 = 4
    OBVIOUS
  <2> QED
    BY <1>2, <2>1, <2>2 DEF FieldsAt
<1>5. IsObject(text)
  <2>1. 6 % 2 = 0 /\ 2 + 1 = 3 /\ 4 + 1 = 5
    OBVIOUS
  <2> QED
    BY <1>2, <1>4, <2>1 DEF IsObject
<1> QED
  BY <1>2, <1>3, <1>4, <1>5

LEMMA TwoExtracted ==
  ASSUME NEW f \in Fields, NEW v \in Values, NEW g \in Fields, NEW w \in Values
  PROVE  ExtractJSON(Two(f, v, g, w)) = Two(f, v, g, w)
<1> DEFINE text == Two(f, v, g, w)
<1>1. text \in Text /\ Len(text) = 6 /\ text[1] = "open" /\ text[6] = "close"
  BY TwoRead
<1> HIDE DEF text
<1>2. Len(text) >= 2 /\ text[Len(text)] = "close"
  BY <1>1
<1>3. ExtractJSON(text) = text
  BY <1>1, <1>2, WrappedIs
<1> QED
  BY <1>3 DEF text

(* What its fields are and hold.                                           *)
LEMMA OneTyped ==
  ASSUME NEW f \in Fields, NEW v \in Values, NEW names, NEW type, NEW name
  PROVE  /\ Typed(One(f, v), names, type) <=> (f \in names => v \in type \cup {"null"})
         /\ ValuesOf(One(f, v), name) = IF f = name THEN {v} ELSE {}
<1> DEFINE text == One(f, v)
<1>1. FieldsAt(text) = {2} /\ text[2] = f /\ text[3] = v
  BY OneRead
<1>2. 2 + 1 = 3
  OBVIOUS
<1> HIDE DEF text
<1>3. Typed(text, names, type) <=> (f \in names => v \in type \cup {"null"})
  BY <1>1, <1>2 DEF Typed
<1>4. {j \in FieldsAt(text) : text[j] = name} = IF f = name THEN {2} ELSE {}
  BY <1>1
<1>5. ValuesOf(text, name) = IF f = name THEN {v} ELSE {}
  BY <1>1, <1>2, <1>4 DEF ValuesOf
<1> QED
  BY <1>3, <1>5 DEF text

LEMMA TwoTyped ==
  ASSUME NEW f \in Fields, NEW v \in Values, NEW g \in Fields, NEW w \in Values,
         NEW names, NEW type
  PROVE  Typed(Two(f, v, g, w), names, type)
           <=> (f \in names => v \in type \cup {"null"}) /\ (g \in names => w \in type \cup {"null"})
<1> DEFINE text == Two(f, v, g, w)
<1>1. FieldsAt(text) = {2, 4} /\ text[2] = f /\ text[3] = v /\ text[4] = g /\ text[5] = w
  BY TwoRead
<1>2. 2 + 1 = 3 /\ 4 + 1 = 5
  OBVIOUS
<1> HIDE DEF text
<1>3. Typed(text, names, type)
        <=> (f \in names => v \in type \cup {"null"}) /\ (g \in names => w \in type \cup {"null"})
  BY <1>1, <1>2 DEF Typed
<1> QED
  BY <1>3 DEF text

LEMMA TwoValues ==
  ASSUME NEW f \in Fields, NEW v \in Values, NEW g \in Fields, NEW w \in Values, NEW name
  PROVE  ValuesOf(Two(f, v, g, w), name)
           = (IF f = name THEN {v} ELSE {}) \cup (IF g = name THEN {w} ELSE {})
<1> DEFINE text == Two(f, v, g, w)
<1>1. FieldsAt(text) = {2, 4} /\ text[2] = f /\ text[3] = v /\ text[4] = g /\ text[5] = w
  BY TwoRead
<1>2. 2 + 1 = 3 /\ 4 + 1 = 5
  OBVIOUS
<1> HIDE DEF text
<1>3. {j \in FieldsAt(text) : text[j] = name}
        = (IF f = name THEN {2} ELSE {}) \cup (IF g = name THEN {4} ELSE {})
  BY <1>1
<1>4. ValuesOf(text, name) = (IF f = name THEN {v} ELSE {}) \cup (IF g = name THEN {w} ELSE {})
  BY <1>1, <1>2, <1>3 DEF ValuesOf
<1> QED
  BY <1>4 DEF text

-----------------------------------------------------------------------------
(* The profiles *)

LEMMA ReasonDecisionReads ==
  ASSUME NEW r \in Strings, NEW d \in Strings, NEW text,
         ExtractJSON(text) = Two("reason", r, "decision", d)
  PROVE  Parse("reason_decision", text) = IF d = "block" THEN "BLOCK" ELSE "ALLOW"
<1> DEFINE o == Two("reason", r, "decision", d)
<1>1. "reason" \in Fields /\ "decision" \in Fields /\ r \in Values /\ d \in Values
  BY DEF Fields, Values
<1>2. /\ IsObject(o) /\ Typed(o, {"reason", "decision"}, Strings)
      /\ ValuesOf(o, "decision") = {d}
  BY <1>1, TwoRead, TwoTyped, TwoValues
<1> HIDE DEF o
<1>3. d # "null"
  BY DEF Strings
<1>4. ValuesOf(o, "decision") \ {"null"} = {d}
  BY <1>2, <1>3
<1>5. ExtractJSON(text) = o
  BY DEF o
<1> QED
  BY <1>2, <1>4, <1>5 DEF Parse, ParseReasonDecision, Unmarshals

LEMMA NGBooleanReads ==
  ASSUME NEW b \in {"true", "false"}, NEW r \in Strings, NEW text,
         ExtractJSON(text) = Two("ng", b, "short_reason", r)
  PROVE  Parse("ng_boolean", text) = IF b = "true" THEN "BLOCK" ELSE "ALLOW"
<1> DEFINE o == Two("ng", b, "short_reason", r)
<1>1. "ng" \in Fields /\ "short_reason" \in Fields /\ r \in Values /\ b \in Values
  BY DEF Fields, Values
<1>2. /\ IsObject(o) /\ Typed(o, {"ng"}, {"true", "false"}) /\ Typed(o, {"short_reason"}, Strings)
      /\ ValuesOf(o, "ng") = {b}
  BY <1>1, TwoRead, TwoTyped, TwoValues
<1> HIDE DEF o
<1>3. ExtractJSON(text) = o
  BY DEF o
<1> QED
  BY <1>2, <1>3 DEF Parse, ParseNGBoolean, Unmarshals

LEMMA ExtractionReads ==
  ASSUME NEW n \in Arrays \cup {"null"}, NEW a \in Arrays, NEW text,
         ExtractJSON(text) = Two("name", n, "address", a)
  PROVE  Parse("jp_confidential_extraction", text) = IF "[v]" \in {n, a} THEN "BLOCK" ELSE "ALLOW"
<1> DEFINE o == Two("name", n, "address", a)
<1>1. "name" \in Fields /\ "address" \in Fields /\ n \in Values /\ a \in Values
  BY DEF Fields, Values, Categories
<1>2. /\ IsObject(o) /\ Typed(o, Fields, Arrays)
      /\ ValuesOf(o, "name") = {n} /\ ValuesOf(o, "address") = {a}
  <2>1. IsObject(o)
    BY <1>1, TwoRead
  <2>2. Typed(o, Fields, Arrays)
    BY <1>1, TwoTyped
  <2>3. ValuesOf(o, "name") = {n} \cup {} /\ ValuesOf(o, "address") = {} \cup {a}
    BY <1>1, TwoValues
  <2> QED
    BY <2>1, <2>2, <2>3
<1> HIDE DEF o
<1>3. ExtractJSON(text) = o
  BY DEF o
<1>4. (\E c \in Categories : "[v]" \in ValuesOf(o, c)) <=> "[v]" \in {n, a}
  BY <1>2 DEF Categories
<1> QED
  BY <1>2, <1>3, <1>4 DEF Parse, ParseJPConfidentialExtraction, Unmarshals

(* Every object of a contract has two fields, and says what is meant.      *)
LEMMA ContractIs ==
  ASSUME NEW p \in Profiles, NEW o \in Contract(p)
  PROVE  /\ \E f, g \in Fields, v, w \in Values :
              o.text = Two(f, v, g, w)
              /\ (p = "reason_decision" => Names(w) = {o.meant})
         /\ \A text : ExtractJSON(text) = o.text => Parse(p, text) = o.meant
<1>1. CASE p = "reason_decision"
  <2>1. PICK r \in {"word", "allow", "block", "brace"}, d \in {"allow", "block"} :
          /\ o.text = Two("reason", r, "decision", d)
          /\ o.meant = IF d = "block" THEN "BLOCK" ELSE "ALLOW"
    BY <1>1 DEF Contract, ReasonDecisionSchema, Two
  <2>2. "reason" \in Fields /\ "decision" \in Fields /\ r \in Strings /\ d \in Strings
    BY DEF Fields, Strings
  <2>3. Names(d) = {o.meant}
    BY <2>1 DEF Names
  <2>4. r \in Values /\ d \in Values
    BY <2>2 DEF Values
  <2> QED
    BY <1>1, <2>1, <2>2, <2>3, <2>4, ReasonDecisionReads
<1>2. CASE p = "ng_boolean"
  <2>1. PICK r \in {"word", "brace"}, b \in {"true", "false"} :
          /\ o.text = Two("ng", b, "short_reason", r)
          /\ o.meant = IF b = "true" THEN "BLOCK" ELSE "ALLOW"
    BY <1>2 DEF Contract, NGBooleanSchema, Two
  <2>2. "ng" \in Fields /\ "short_reason" \in Fields /\ r \in Strings
    BY DEF Fields, Strings
  <2>3. r \in Values /\ b \in Values
    BY <2>2 DEF Values
  <2> QED
    BY <1>2, <2>1, <2>2, <2>3, NGBooleanReads
<1>3. CASE p = "jp_confidential_extraction"
  <2>1. PICK n \in Arrays, a \in Arrays :
          /\ o.text = Two("name", n, "address", a)
          /\ o.meant = IF "[v]" \in {n, a} THEN "BLOCK" ELSE "ALLOW"
    BY <1>3 DEF Contract, JPConfidentialExtractionSchema, Two
  <2>2. "name" \in Fields /\ "address" \in Fields /\ n \in Values /\ a \in Values
    BY DEF Fields, Values, Categories
  <2> QED
    BY <1>3, <2>1, <2>2, ExtractionReads
<1> QED
  BY <1>1, <1>2, <1>3 DEF Profiles

(* A reply is read as what it says, but for the claims that are not kept. *)
AsMeant(p, r) == Parse(p, r.text) \in r.read \/ r.claim \in Claims

LEMMA WholeRead ==
  ASSUME NEW p \in Profiles, NEW r \in Whole(p)
  PROVE  AsMeant(p, r)
<1>1. PICK o \in Contract(p) :
        /\ r.text = o.text \/ r.text = <<"word">> \o o.text \o <<"word">>
        /\ r.read = {o.meant}
  BY DEF Whole, Reply
<1>2. PICK f, g \in Fields, v, w \in Values : o.text = Two(f, v, g, w)
  BY <1>1, ContractIs
<1>3. /\ o.text \in Text /\ Len(o.text) = 6
      /\ o.text[1] = "open" /\ o.text[6] = "close"
  BY <1>2, TwoRead
<1>4. Len(o.text) >= 2 /\ o.text[Len(o.text)] = "close"
  BY <1>3
<1>5. /\ ExtractJSON(o.text) = o.text
      /\ ExtractJSON(<<"word">> \o o.text \o <<"word">>) = o.text
  BY <1>3, <1>4, WrappedIs, Zenon
<1>6. ExtractJSON(r.text) = o.text
  BY <1>1, <1>5
<1> QED
  BY <1>1, <1>6, ContractIs DEF AsMeant

LEMMA BracedRead ==
  ASSUME NEW p \in Profiles, NEW r \in Braced(p)
  PROVE  AsMeant(p, r)
<1>1. PICK o \in Contract(p) : r.text = <<"brace">> \o o.text /\ r.read = {o.meant, "error"}
  BY DEF Braced, Reply
<1>2. PICK f, g \in Fields, v, w \in Values :
        o.text = Two(f, v, g, w) /\ (p = "reason_decision" => Names(w) = {o.meant})
  BY <1>1, ContractIs
<1>3. o.text \in Text /\ Len(o.text) = 6 /\ o.text[5] = w
  BY <1>2, TwoRead
<1>4. r.text \in Text /\ Len(r.text) = 7 /\ r.text[1] = "brace" /\ r.text[6] = w
  <2>1. "brace" \in Tokens /\ o.text \in Seq(Tokens)
    BY <1>3 DEF Tokens, Values, Strings, Text
  <2>2. 5 \in 1..Len(o.text) /\ 5 + 1 = 6 /\ 6 + 1 = 7
    BY <1>3
  <2>3. /\ r.text \in Seq(Tokens) /\ Len(r.text) = Len(o.text) + 1 /\ r.text[1] = "brace"
        /\ \A i \in 1..Len(o.text) : r.text[i + 1] = o.text[i]
    BY <1>1, <2>1, Prefixed
  <2>4. r.text[6] = o.text[5] /\ Len(r.text) = 7
    BY <1>3, <2>2, <2>3
  <2> QED
    BY <1>3, <2>3, <2>4 DEF Text
<1>5. ~IsObject(ExtractJSON(r.text)) /\ r.text # <<"null">>
  <2>1. Len(<<"null">>) = 1
    OBVIOUS
  <2> QED
    BY <1>4, <2>1, NoObjectBraced
<1>6. p = "reason_decision" => o.meant \in Labels(r.text)
  <2>1. 6 \in 1..Len(r.text)
    BY <1>4
  <2> QED
    BY <1>2, <1>4, <2>1, LabelsAre
<1> QED
  BY <1>1, <1>4, <1>5, <1>6, UndecodedRead DEF AsMeant

(* A cut object says nothing before its last value is there; then it says  *)
(* what is meant, or, with a label in the reason, nothing.                 *)
LEMMA CutRead ==
  ASSUME NEW p \in Profiles, NEW r \in Cut(p)
  PROVE  AsMeant(p, r)
<1>0. PICK o \in Contract(p) : r \in {CutAt(o, n) : n \in 0..(Len(o.text) - 1)}
  BY DEF Cut
<1>1. PICK n \in 0..(Len(o.text) - 1) : r = CutAt(o, n)
  BY <1>0
<1>2. PICK f, g \in Fields, v, w \in Values :
        o.text = Two(f, v, g, w) /\ (p = "reason_decision" => Names(w) = {o.meant})
  BY ContractIs
<1>3. /\ o.text \in Text /\ Len(o.text) = 6
      /\ o.text[1] = "open" /\ o.text[2] = f /\ o.text[3] = v
      /\ o.text[4] = g /\ o.text[5] = w
  BY <1>2, TwoRead
<1> DEFINE t == SubSeq(o.text, 1, n)
<1>4. "open" # "close" /\ f # "close" /\ g # "close" /\ v # "close" /\ w # "close"
  BY DEF Fields, Categories, Values, Strings, Arrays
<1>5. \A i \in 1..5 : o.text[i] # "close"
  <2>1. \A i \in 1..5 : i = 1 \/ i = 2 \/ i = 3 \/ i = 4 \/ i = 5
    OBVIOUS
  <2> QED
    BY <1>3, <1>4, <2>1
<1>6. o.text \in Seq(Tokens) /\ n \in 0..5 /\ n \in 0..Len(o.text)
  BY <1>1, <1>3 DEF Text
<1>7. t \in Text /\ Len(t) = n /\ \A i \in 1..n : t[i] = o.text[i]
  BY <1>6, Beginning DEF Text
<1>8. /\ r.text = t
      /\ r.read = IF n = 5 THEN {o.meant, "error"} ELSE {"error"}
      /\ r.claim = IF n = 5 \/ Labels(t) = {} THEN "none" ELSE "reason"
  <2>1. 6 - 1 = 5
    OBVIOUS
  <2> QED
    BY <1>1, <1>3, <2>1 DEF CutAt, Reply
<1> HIDE DEF t
<1>9. ~IsObject(ExtractJSON(t))
  <2>1. \A i \in 1..Len(t) : t[i] # "close"
    BY <1>5, <1>6, <1>7
  <2> QED
    BY <1>7, <2>1, NoObjectUnclosed
<1>10. t # <<"null">>
  <2>1. SUFFICES ASSUME t = <<"null">>
                 PROVE  FALSE
    OBVIOUS
  <2>2. Len(t) = 1 /\ t[1] = "null"
    BY <2>1
  <2> QED
    BY <1>3, <1>7, <2>2
<1>11. CASE n = 5
  <2>1. p = "reason_decision" => o.meant \in Labels(t)
    <3>1. t[5] = w /\ 5 \in 1..Len(t)
      BY <1>3, <1>7, <1>11
    <3> QED
      BY <1>2, <3>1, LabelsAre
  <2> QED
    BY <1>7, <1>8, <1>9, <1>10, <1>11, <2>1, UndecodedRead DEF AsMeant
<1>12. CASE n # 5
  <2>1. CASE Labels(t) = {}
    BY <1>7, <1>8, <1>9, <1>10, <1>12, <2>1, UndecodedRead DEF AsMeant
  <2>2. CASE Labels(t) # {}
    BY <1>8, <1>12, <2>2 DEF AsMeant, Claims
  <2> QED
    BY <2>1, <2>2
<1> QED
  BY <1>11, <1>12

(* One token is no object.                                                 *)
LEMMA TokenRead ==
  ASSUME NEW t \in Tokens, t # "close"
  PROVE  /\ <<t>> \in Text /\ ~IsObject(ExtractJSON(<<t>>))
         /\ Labels(<<t>>) = Names(t)
<1>1. <<t>> \in Text /\ \A i \in 1..Len(<<t>>) : <<t>>[i] # "close"
  BY DEF Text
<1>2. Labels(<<t>>) = Names(t)
  BY DEF Labels
<1> QED
  BY <1>1, <1>2, NoObjectUnclosed

LEMMA BareRead ==
  ASSUME NEW p \in Profiles, NEW r \in Bare(p)
  PROVE  AsMeant(p, r)
<1>1. \/ r.text = <<"allow">> /\ r.read = Label(p, "ALLOW")
      \/ r.text = <<"word", "block">> /\ r.read = Label(p, "BLOCK")
      \/ /\ r.text = <<"null">> /\ r.read = {"error"}
         /\ r.claim = IF p = "reason_decision" THEN "none" ELSE "unsaid"
      \/ \E t \in {"either", "word", "true"} : r.text = <<t>> /\ r.read = {"error"}
  BY DEF Bare, Reply
<1>2. /\ "allow" \in Tokens /\ "word" \in Tokens /\ "block" \in Tokens /\ "either" \in Tokens
      /\ "true" \in Tokens /\ "null" \in Tokens
  BY DEF Tokens, Values, Strings
<1>3. /\ Names("allow") = {"ALLOW"} /\ Names("block") = {"BLOCK"} /\ Names("either") = {"ALLOW", "BLOCK"}
      /\ Names("word") = {} /\ Names("true") = {} /\ Names("null") = {}
  BY DEF Names
<1>4. CASE r.text = <<"allow">> /\ r.read = Label(p, "ALLOW")
  <2>1. r.text \in Text /\ ~IsObject(ExtractJSON(r.text)) /\ Labels(r.text) = {"ALLOW"}
    BY <1>2, <1>3, <1>4, TokenRead
  <2>2. r.text # <<"null">>
    BY <1>3, <1>4
  <2> QED
    BY <1>4, <2>1, <2>2, UndecodedRead DEF AsMeant, Label
<1>5. CASE r.text = <<"word", "block">> /\ r.read = Label(p, "BLOCK")
  <2>1. r.text \in Seq(Tokens) /\ Len(r.text) = 2 /\ r.text[1] = "word" /\ r.text[2] = "block"
    BY <1>2, <1>5
  <2>2. Labels(r.text) = {"BLOCK"}
    <3>1. \A i \in 1..2 : i = 1 \/ i = 2
      OBVIOUS
    <3> QED
      BY <1>3, <2>1, <3>1 DEF Labels
  <2>3. r.text \in Text /\ \A i \in 1..Len(r.text) : r.text[i] # "close"
    BY <2>1 DEF Text
  <2>4. Len(<<"null">>) = 1
    OBVIOUS
  <2>5. r.text # <<"null">> /\ ~IsObject(ExtractJSON(r.text))
    BY <2>1, <2>3, <2>4, NoObjectUnclosed
  <2> QED
    BY <1>5, <2>2, <2>3, <2>5, UndecodedRead DEF AsMeant, Label
<1>6. CASE /\ r.text = <<"null">> /\ r.read = {"error"}
           /\ r.claim = IF p = "reason_decision" THEN "none" ELSE "unsaid"
  <2>1. CASE p = "reason_decision"
    <3>1. Len(r.text) = 1 /\ r.text[1] = "null" /\ Labels(r.text) = {}
      BY <1>2, <1>3, <1>6, TokenRead
    <3>2. ExtractJSON(r.text) = r.text
      <4>1. \A i \in 1..Len(r.text) : r.text[i] \notin Opens
        BY <3>1 DEF Opens
      <4>2. Openings(r.text) = {}
        BY <4>1 DEF Openings
      <4> QED
        BY <4>2, ExtractedIs
    <3>3. FieldsAt(r.text) = {}
      BY <3>1 DEF FieldsAt
    <3>4. ValuesOf(r.text, "decision") = {}
      BY <3>3 DEF ValuesOf
    <3> QED
      BY <1>6, <2>1, <3>1, <3>2, <3>4 DEF AsMeant, Parse, ParseReasonDecision, Unmarshals
  <2>2. CASE p # "reason_decision"
    BY <1>6, <2>2 DEF AsMeant, Claims
  <2> QED
    BY <2>1, <2>2
<1>7. ASSUME NEW t \in {"either", "word", "true"}, r.text = <<t>>, r.read = {"error"}
      PROVE  AsMeant(p, r)
  <2>1. /\ r.text \in Text /\ ~IsObject(ExtractJSON(r.text))
        /\ Labels(r.text) = {} \/ Labels(r.text) = {"ALLOW", "BLOCK"}
    <3>1. t \in Tokens /\ t # "close"
      BY <1>2
    <3>2. Names(t) = {} \/ Names(t) = {"ALLOW", "BLOCK"}
      BY <1>3
    <3> QED
      BY <1>7, <3>1, <3>2, TokenRead
  <2>2. r.text # <<"null">>
    BY <1>7
  <2> QED
    BY <1>7, <2>1, <2>2, UndecodedRead DEF AsMeant
<1> QED
  BY <1>1, <1>4, <1>5, <1>6, <1>7

LEMMA ReasonDecisionDeviates ==
  ASSUME NEW r \in Deviating("reason_decision")
  PROVE  AsMeant("reason_decision", r)
<1>1. \/ r.claim \in {"ambiguous", "reason"}
      \/ \E f \in {"reason", "decision"}, v \in {"null", "true"} : r.text = One(f, v) /\ r.read = {"error"}
  BY DEF Deviating, One, Reply
<1>2. ASSUME NEW f \in {"reason", "decision"}, NEW v \in {"null", "true"},
             r.text = One(f, v), r.read = {"error"}
      PROVE  AsMeant("reason_decision", r)
  <2>1. f \in Fields /\ v \in Values /\ v \notin Strings
    BY DEF Fields, Values, Strings
  <2>2. /\ Len(r.text) = 4
        /\ r.text[1] = "open" /\ r.text[2] = f /\ r.text[3] = v /\ r.text[4] = "close"
        /\ ExtractJSON(r.text) = r.text
    BY <1>2, <2>1, OneRead
  <2>3. Names("open") = {} /\ Names("close") = {} /\ Names(f) = {} /\ Names(v) = {}
    BY DEF Names
  <2>4. Labels(r.text) = {}
    <3>1. \A i \in 1..4 : i = 1 \/ i = 2 \/ i = 3 \/ i = 4
      OBVIOUS
    <3> QED
      BY <2>2, <2>3, <3>1 DEF Labels
  <2>5. Typed(r.text, {"reason", "decision"}, Strings) => v = "null"
    BY <1>2, <2>1, OneTyped
  <2>6. ValuesOf(r.text, "decision") \subseteq {v}
    BY <1>2, <2>1, OneTyped
  <2>7. ~(/\ Typed(r.text, {"reason", "decision"}, Strings)
          /\ ValuesOf(r.text, "decision") \ {"null"} # {})
    BY <2>5, <2>6
  <2>8. Parse("reason_decision", r.text) = "error"
    BY <2>2, <2>4, <2>7 DEF Parse, ParseReasonDecision
  <2> QED
    BY <1>2, <2>8 DEF AsMeant
<1> QED
  BY <1>1, <1>2 DEF AsMeant, Claims

LEMMA NGBooleanDeviates ==
  ASSUME NEW r \in Deviating("ng_boolean")
  PROVE  AsMeant("ng_boolean", r)
<1>1. r.claim = "unsaid" \/ (r.text = One("ng", "word") /\ r.read = {"error"})
  BY DEF Deviating, One, Reply
<1>2. CASE r.text = One("ng", "word") /\ r.read = {"error"}
  <2>1. "ng" \in Fields /\ "word" \in Values
    BY DEF Fields, Values, Strings
  <2>2. ExtractJSON(r.text) = r.text
    BY <1>2, <2>1, OneRead
  <2>3. ~Typed(r.text, {"ng"}, {"true", "false"})
    BY <1>2, <2>1, OneTyped
  <2> QED
    BY <1>2, <2>2, <2>3 DEF AsMeant, Parse, ParseNGBoolean, Unmarshals
<1> QED
  BY <1>1, <1>2 DEF AsMeant, Claims

LEMMA ExtractionDeviates ==
  ASSUME NEW r \in Deviating("jp_confidential_extraction")
  PROVE  AsMeant("jp_confidential_extraction", r)
<1>0. /\ "name" \in Fields /\ "address" \in Fields /\ "other" \in Fields
      /\ "null" \in Values /\ "[v]" \in Values /\ "word" \in Values /\ "true" \in Values
  BY DEF Fields, Categories, Values, Strings, Arrays
<1>1. \/ r.text = None /\ r.read = {"ALLOW"}
      \/ r.text = One("other", "[v]") /\ r.read = {"ALLOW"}
      \/ r.text = Two("name", "null", "address", "[v]") /\ r.read = {"BLOCK"}
      \/ \E v \in {"word", "true"} : r.text = One("name", v) /\ r.read = {"error"}
  BY DEF Deviating, None, One, Two, Reply
<1>2. CASE r.text = None /\ r.read = {"ALLOW"}
  <2>1. /\ IsObject(r.text) /\ ExtractJSON(r.text) = r.text
        /\ Typed(r.text, Fields, Arrays)
        /\ \A c \in Categories : ValuesOf(r.text, c) = {}
    BY <1>2, NoneRead DEF Typed, ValuesOf
  <2> QED
    BY <1>2, <2>1 DEF AsMeant, Parse, ParseJPConfidentialExtraction, Unmarshals
<1>3. CASE r.text = One("other", "[v]") /\ r.read = {"ALLOW"}
  <2>1. IsObject(r.text) /\ ExtractJSON(r.text) = r.text
    BY <1>0, <1>3, OneRead
  <2>2. Typed(r.text, Fields, Arrays)
    BY <1>0, <1>3, OneTyped DEF Arrays
  <2>3. ASSUME NEW c \in Categories
        PROVE  ValuesOf(r.text, c) = {}
    <3>1. c # "other"
      BY DEF Categories
    <3> QED
      BY <1>0, <1>3, <3>1, OneTyped
  <2> QED
    BY <1>3, <2>1, <2>2, <2>3 DEF AsMeant, Parse, ParseJPConfidentialExtraction, Unmarshals
<1>4. CASE r.text = Two("name", "null", "address", "[v]") /\ r.read = {"BLOCK"}
  <2>1. ExtractJSON(r.text) = Two("name", "null", "address", "[v]")
    BY <1>0, <1>4, TwoExtracted
  <2>2. "[v]" \in Arrays
    BY DEF Arrays
  <2> QED
    BY <1>4, <2>1, <2>2, ExtractionReads DEF AsMeant
<1>5. ASSUME NEW v \in {"word", "true"}, r.text = One("name", v), r.read = {"error"}
      PROVE  Parse("jp_confidential_extraction", r.text) \in r.read
  <2>1. IsObject(r.text) /\ ExtractJSON(r.text) = r.text
    BY <1>0, <1>5, OneRead
  <2>2. v \in Values /\ v \notin Arrays \cup {"null"}
    BY <1>0 DEF Arrays
  <2>3. ~Typed(r.text, Fields, Arrays)
    BY <1>0, <1>5, <2>2, OneTyped
  <2> QED
    BY <1>5, <2>1, <2>3 DEF Parse, ParseJPConfidentialExtraction, Unmarshals
<1> QED
  BY <1>1, <1>2, <1>3, <1>4, <1>5 DEF AsMeant

LEMMA RepliesRead ==
  ASSUME NEW p \in Profiles, NEW r \in Replies(p)
  PROVE  AsMeant(p, r)
<1>1. CASE r \in Deviating(p)
  BY <1>1, ReasonDecisionDeviates, NGBooleanDeviates, ExtractionDeviates DEF Profiles
<1> QED
  BY <1>1, WholeRead, BracedRead, CutRead, BareRead DEF Replies

-----------------------------------------------------------------------------
(* The bounds of the cache *)

USE CapacityAssumption

Limit == IF Enabled THEN Capacity ELSE 0

-----------------------------------------------------------------------------
(* The list and the map *)

ListInv ==
  /\ ll \in Seq(Keys)
  /\ entries = [k \in DOMAIN entries |-> entries[k]]
  /\ \A k \in DOMAIN entries : \E i \in 1..Len(ll) : ll[i] = k
  /\ \A i \in 1..Len(ll) : ll[i] \in DOMAIN entries
  /\ \A i, j \in 1..Len(ll) : ll[i] = ll[j] => i = j
  /\ Len(ll) <= Limit

(* Where a key of the list that was moved or pushed to the front was. *)
Before(key, i) == IF Cached(key) /\ i > Position(key) THEN i ELSE i - 1

(* What using a key does to the list: it comes first, and the others       *)
(* follow as they were, less the one that is evicted.                      *)
Fronted(key) ==
  /\ ll' \in Seq(Keys)
  /\ Len(ll') \in {Len(ll), Len(ll) + 1} /\ Len(ll') >= 1 /\ Len(ll') <= Limit
  /\ ll'[1] = key
  /\ \A i \in 2..Len(ll') :
       Before(key, i) \in 1..Len(ll) /\ ll'[i] = ll[Before(key, i)] /\ ll'[i] # key
  /\ \A i, j \in 2..Len(ll') : i < j => Before(key, i) < Before(key, j)

LEMMA CachedPosition ==
  ASSUME ListInv, NEW key, Cached(key)
  PROVE  Position(key) \in 1..Len(ll) /\ ll[Position(key)] = key
  BY DEF ListInv, Cached, Position

(* A move to the front permutes the list. *)
LEMMA MovedFronts ==
  ASSUME ListInv, NEW key \in Keys, Cached(key), ll' = MovedToFront(key)
  PROVE  /\ Fronted(key) /\ Len(ll') = Len(ll)
         /\ \A j \in 1..Len(ll) : \E i \in 1..Len(ll') : ll'[i] = ll[j]
<1>1. ll \in Seq(Keys) /\ Len(ll) \in Nat /\ \A i \in 1..Len(ll) : ll[i] \in Keys
  BY DEF ListInv
<1> DEFINE p == Position(key)
<1>2. p \in 1..Len(ll) /\ ll[p] = key
  BY CachedPosition
<1> HIDE DEF p
<1>3. /\ ll' \in Seq(Keys) /\ Len(ll') = Len(ll)
      /\ \A i \in 1..Len(ll) :
           ll'[i] = IF i = 1 THEN key ELSE IF i <= p THEN ll[i - 1] ELSE ll[i]
  <2>1. ll' = [i \in 1..Len(ll) |-> IF i = 1 THEN key ELSE IF i <= p THEN ll[i - 1] ELSE ll[i]]
    BY DEF MovedToFront, p
  <2>2. \A i \in 1..Len(ll) : i # 1 => i - 1 \in 1..Len(ll)
    BY <1>1
  <2>3. \A i \in 1..Len(ll) : (IF i = 1 THEN key ELSE IF i <= p THEN ll[i - 1] ELSE ll[i]) \in Keys
    BY <1>1, <2>2
  <2> QED
    BY <1>1, <2>1, <2>3
<1>4. \A i : Before(key, i) = IF i > p THEN i ELSE i - 1
  BY DEF Before, p
<1>5. \A i \in 2..Len(ll') :
        Before(key, i) \in 1..Len(ll) /\ ll'[i] = ll[Before(key, i)] /\ Before(key, i) # p
  BY <1>1, <1>2, <1>3, <1>4
<1>6. \A i \in 2..Len(ll') : ll'[i] # key
  BY <1>2, <1>5 DEF ListInv
<1>7. \A i, j \in 2..Len(ll') : i < j => Before(key, i) < Before(key, j)
  BY <1>1, <1>2, <1>3, <1>4
<1>8. ASSUME NEW j \in 1..Len(ll)
      PROVE  \E i \in 1..Len(ll') : ll'[i] = ll[j]
  <2>1. CASE j < p
    BY <1>1, <1>2, <1>3, <2>1, j + 1 \in 1..Len(ll)
  <2>2. CASE j = p
    BY <1>1, <1>2, <1>3, <2>2, 1 \in 1..Len(ll)
  <2>3. CASE j > p
    BY <1>1, <1>2, <1>3, <2>3
  <2> QED
    BY <1>1, <1>2, <2>1, <2>2, <2>3
<1> QED
  BY <1>1, <1>2, <1>3, <1>5, <1>6, <1>7, <1>8 DEF Fronted, ListInv

(* A new key is pushed, and the last one evicted if there is no room. *)
LEMMA PushedFronts ==
  ASSUME ListInv, NEW key \in Keys, NEW r, PutNew(key, r)
  PROVE  /\ Fronted(key) /\ Len(ll) <= Capacity
         /\ Len(ll') = IF Len(ll) < Capacity THEN Len(ll) + 1 ELSE Capacity
         /\ entries' = [k \in DOMAIN entries' |-> IF k = key THEN r ELSE entries[k]]
         /\ DOMAIN entries' = {ll'[i] : i \in 1..Len(ll')}
         /\ \A k \in DOMAIN entries :
              k \in DOMAIN entries' \/ (Len(ll) = Capacity /\ k = ll[Len(ll)])
<1>0. /\ Enabled /\ key \notin DOMAIN entries /\ Capacity \in Int /\ Capacity > 0
      /\ ~Cached(key) /\ Len(ll) <= Capacity /\ Limit = Capacity
  BY DEF PutNew, Enabled, Cached, ListInv, Limit
<1>1. ll \in Seq(Keys) /\ Len(ll) \in Nat /\ \A i \in 1..Len(ll) : ll[i] \in Keys
  BY DEF ListInv
<1> DEFINE pushed == <<key>> \o ll
           full == Len(pushed) > Capacity
           n == IF full THEN Len(ll) ELSE Len(ll) + 1
<1>2. /\ pushed \in Seq(Keys) /\ Len(pushed) = Len(ll) + 1 /\ pushed[1] = key
      /\ \A i \in 2..Len(pushed) : pushed[i] = ll[i - 1]
  BY <1>1
<1>3. /\ ll' = SubSeq(pushed, 1, n)
      /\ entries' = [k \in (DOMAIN entries \cup {key}) \ (IF full THEN {pushed[Len(pushed)]} ELSE {}) |->
                       IF k = key THEN r ELSE entries[k]]
  BY <1>1, <1>2 DEF PutNew
<1>4. /\ full <=> Len(ll) = Capacity
      /\ n \in 1..Len(pushed) /\ n <= Capacity
      /\ n = IF Len(ll) < Capacity THEN Len(ll) + 1 ELSE Capacity
  BY <1>0, <1>1, <1>2
<1> HIDE DEF pushed, full, n
<1>5. /\ ll' \in Seq(Keys) /\ Len(ll') = n
      /\ \A i \in 1..n : ll'[i] = pushed[i]
  BY <1>2, <1>3, <1>4
<1>6. \A i : Before(key, i) = i - 1
  BY <1>0 DEF Before
<1>7. \A i \in 2..n : i - 1 \in 1..Len(ll) /\ ll'[i] = ll[i - 1] /\ ll'[i] # key
  BY <1>0, <1>1, <1>2, <1>4, <1>5 DEF ListInv
<1>8. Fronted(key)
  BY <1>0, <1>1, <1>2, <1>4, <1>5, <1>6, <1>7 DEF Fronted, n
<1>9. DOMAIN entries' = (DOMAIN entries \cup {key}) \ (IF full THEN {pushed[Len(pushed)]} ELSE {})
  BY <1>3
<1>10. full => pushed[Len(pushed)] = ll[Len(ll)] /\ Len(ll) \in 1..Len(ll) /\ n = Len(ll)
  BY <1>0, <1>1, <1>2, <1>4 DEF n
<1>11. ~full => n = Len(ll) + 1
  BY DEF n
<1>12. ASSUME NEW k \in DOMAIN entries'
       PROVE  \E i \in 1..n : ll'[i] = k
  <2>1. CASE k = key
    BY <1>2, <1>4, <1>5, <2>1
  <2>2. CASE k # key
    <3>1. PICK j \in 1..Len(ll) : ll[j] = k
      BY <1>9, <2>2 DEF ListInv
    <3>2. full => j # Len(ll)
      BY <1>9, <1>10, <3>1
    <3>3. j + 1 \in 2..n
      BY <1>1, <1>10, <1>11, <3>1, <3>2
    <3>4. ll'[j + 1] = ll[j]
      BY <1>1, <1>7, <3>3
    <3> QED
      BY <3>1, <3>3, <3>4, <1>4
  <2> QED
    BY <2>1, <2>2
<1>13. ASSUME NEW i \in 1..n
       PROVE  ll'[i] \in DOMAIN entries'
  <2>1. CASE i = 1
    <3>1. full => key # pushed[Len(pushed)]
      BY <1>0, <1>10 DEF ListInv
    <3> QED
      BY <1>2, <1>4, <1>5, <1>9, <2>1, <3>1
  <2>2. CASE i # 1
    <3>1. i \in 2..n /\ i - 1 \in 1..Len(ll) /\ ll'[i] = ll[i - 1] /\ i - 1 # n
      BY <1>4, <1>7, <2>2
    <3>2. ll[i - 1] \in DOMAIN entries
      BY <3>1 DEF ListInv
    <3>3. full => ll[i - 1] # ll[Len(ll)]
      BY <1>10, <3>1 DEF ListInv
    <3> QED
      BY <1>9, <1>10, <3>1, <3>2, <3>3
  <2> QED
    BY <2>1, <2>2
<1>14. DOMAIN entries' = {ll'[i] : i \in 1..Len(ll')}
  BY <1>5, <1>12, <1>13
<1>15. entries' = [k \in DOMAIN entries' |-> IF k = key THEN r ELSE entries[k]]
  BY <1>3
<1>16. \A k \in DOMAIN entries : k \in DOMAIN entries' \/ (Len(ll) = Capacity /\ k = ll[Len(ll)])
  BY <1>4, <1>9, <1>10
<1> QED
  BY <1>0, <1>4, <1>5, <1>8, <1>14, <1>15, <1>16

LEMMA FrontedUnique ==
  ASSUME ListInv, NEW key, Fronted(key)
  PROVE  \A i, j \in 1..Len(ll') : ll'[i] = ll'[j] => i = j
<1> SUFFICES ASSUME NEW i \in 1..Len(ll'), NEW j \in 1..Len(ll'), i < j
             PROVE  ll'[i] # ll'[j]
  <2>1. Len(ll') \in Nat
    BY DEF Fronted
  <2> QED
    BY <2>1
<1>1. Len(ll') \in Nat /\ j \in 2..Len(ll')
  BY DEF Fronted
<1>2. CASE i = 1
  BY <1>1, <1>2 DEF Fronted
<1>3. CASE i # 1
  <2>1. i \in 2..Len(ll')
    BY <1>1, <1>3
  <2>2. Before(key, i) \in 1..Len(ll) /\ Before(key, j) \in 1..Len(ll) /\ Before(key, i) < Before(key, j)
        /\ ll'[i] = ll[Before(key, i)] /\ ll'[j] = ll[Before(key, j)]
    BY <1>1, <2>1 DEF Fronted
  <2>3. Before(key, i) # Before(key, j)
    BY <2>2
  <2> QED
    BY <2>2, <2>3 DEF ListInv
<1> QED
  BY <1>2, <1>3

LEMMA FrontedCached ==
  ASSUME ListInv, NEW key, Cached(key), Fronted(key)
  PROVE  \A i \in 1..Len(ll') : ll'[i] \in DOMAIN entries
<1> SUFFICES ASSUME NEW i \in 1..Len(ll')
             PROVE  ll'[i] \in DOMAIN entries
  OBVIOUS
<1>1. CASE i = 1
  BY <1>1 DEF Fronted, Cached
<1>2. CASE i # 1
  <2>1. i \in 2..Len(ll')
    BY <1>2 DEF Fronted
  <2> QED
    BY <2>1 DEF Fronted, ListInv
<1> QED
  BY <1>1, <1>2

LEMMA HitKeepsList ==
  ASSUME ListInv, NEW key \in Keys, Hit(key)
  PROVE  ListInv'
<1>1. /\ Fronted(key) /\ Len(ll') = Len(ll)
      /\ \A j \in 1..Len(ll) : \E i \in 1..Len(ll') : ll'[i] = ll[j]
  BY MovedFronts DEF Hit
<1>2. \A i \in 1..Len(ll') : ll'[i] \in DOMAIN entries
  BY <1>1, FrontedCached DEF Hit
<1> QED
  BY <1>1, <1>2, FrontedUnique DEF ListInv, Hit, Fronted, Limit, Enabled

LEMMA PutKeepsList ==
  ASSUME ListInv, NEW key \in Keys, NEW r, Put(key, r)
  PROVE  ListInv'
<1>1. CASE PutDisabled(key, r)
  BY <1>1 DEF PutDisabled, cacheVars, ListInv, Limit, Enabled
<1>2. CASE PutOver(key, r)
  <2>1. /\ Fronted(key) /\ Len(ll') = Len(ll)
        /\ \A j \in 1..Len(ll) : \E i \in 1..Len(ll') : ll'[i] = ll[j]
    BY <1>2, MovedFronts DEF PutOver
  <2>2. DOMAIN entries' = DOMAIN entries /\ entries' = [k \in DOMAIN entries' |-> entries'[k]]
    BY <1>2 DEF PutOver
  <2>3. \A i \in 1..Len(ll') : ll'[i] \in DOMAIN entries
    BY <1>2, <2>1, FrontedCached DEF PutOver
  <2> QED
    BY <2>1, <2>2, <2>3, FrontedUnique DEF ListInv, Fronted, Limit, Enabled
<1>3. CASE PutNew(key, r)
  <2>1. /\ Fronted(key) /\ DOMAIN entries' = {ll'[i] : i \in 1..Len(ll')}
        /\ entries' = [k \in DOMAIN entries' |-> IF k = key THEN r ELSE entries[k]]
    BY <1>3, PushedFronts
  <2>2. entries' = [k \in DOMAIN entries' |-> entries'[k]]
    BY <2>1
  <2> QED
    BY <2>1, <2>2, FrontedUnique DEF ListInv, Fronted, Limit, Enabled
<1> QED
  BY <1>1, <1>2, <1>3 DEF Put

-----------------------------------------------------------------------------
(* The history *)

OrderInv ==
  /\ clock \in Nat
  /\ used \in [Keys -> Nat] /\ \A k \in Keys : used[k] <= clock
  /\ \A i, j \in 1..Len(ll) : i < j => used[ll[i]] > used[ll[j]]
  /\ \A k \in Keys : (used[k] > 0 /\ ~Cached(k)) =>
       Len(ll) = Limit /\ \A i \in 1..Len(ll) : used[ll[i]] > used[k]
  /\ stored \in [Keys -> SUBSET Results]
  /\ HitIsFreshest

LEMMA UsedLater ==
  ASSUME OrderInv, NEW key \in Keys, Use(key)
  PROVE  /\ clock' \in Nat /\ clock' = clock + 1
         /\ used' \in [Keys -> Nat] /\ used'[key] = clock'
         /\ \A k \in Keys : used'[k] <= clock' /\ used[k] < clock'
         /\ \A k \in Keys : k # key => used'[k] = used[k]
  BY DEF OrderInv, Use

(* The key just used is the most recent one. *)
LEMMA FrontedSorted ==
  ASSUME ListInv, OrderInv, NEW key \in Keys, Use(key), Fronted(key)
  PROVE  \A i, j \in 1..Len(ll') : i < j => used'[ll'[i]] > used'[ll'[j]]
<1> SUFFICES ASSUME NEW i \in 1..Len(ll'), NEW j \in 1..Len(ll'), i < j
             PROVE  used'[ll'[i]] > used'[ll'[j]]
  OBVIOUS
<1>1. Len(ll') \in Nat /\ j \in 2..Len(ll')
  BY DEF Fronted
<1>2. /\ Before(key, j) \in 1..Len(ll) /\ ll'[j] = ll[Before(key, j)] /\ ll'[j] # key
      /\ ll'[j] \in Keys
  BY <1>1 DEF Fronted
<1>3. used'[ll'[j]] = used[ll[Before(key, j)]] /\ used'[ll'[j]] < clock'
  BY <1>2, UsedLater
<1>4. CASE i = 1
  BY <1>3, <1>4, UsedLater DEF Fronted, OrderInv
<1>5. CASE i # 1
  <2>1. i \in 2..Len(ll')
    BY <1>1, <1>5
  <2>2. /\ Before(key, i) \in 1..Len(ll) /\ ll'[i] = ll[Before(key, i)] /\ ll'[i] # key
        /\ ll'[i] \in Keys /\ Before(key, i) < Before(key, j)
    BY <1>1, <2>1 DEF Fronted
  <2>3. used'[ll'[i]] = used[ll[Before(key, i)]]
    BY <2>2, UsedLater
  <2> QED
    BY <1>2, <1>3, <2>2, <2>3 DEF OrderInv
<1> QED
  BY <1>4, <1>5

(* A key that was less recent than the list is less recent than the new one. *)
LEMMA FrontedOutranks ==
  ASSUME ListInv, OrderInv, NEW key \in Keys, Use(key), Fronted(key),
         NEW k \in Keys, k # key,
         \A j \in 1..Len(ll) : ll[j] = k \/ used[ll[j]] > used[k],
         \A i \in 1..Len(ll') : ll'[i] # k
  PROVE  \A i \in 1..Len(ll') : used'[ll'[i]] > used'[k]
<1> SUFFICES ASSUME NEW i \in 1..Len(ll')
             PROVE  used'[ll'[i]] > used'[k]
  OBVIOUS
<1>1. used'[k] = used[k] /\ used[k] < clock' /\ used'[key] = clock'
  BY UsedLater
<1>2. CASE i = 1
  BY <1>1, <1>2, UsedLater DEF Fronted, OrderInv
<1>3. CASE i # 1
  <2>1. i \in 2..Len(ll')
    BY <1>3 DEF Fronted
  <2>2. /\ Before(key, i) \in 1..Len(ll) /\ ll'[i] = ll[Before(key, i)] /\ ll'[i] # key
        /\ ll'[i] \in Keys
    BY <2>1 DEF Fronted
  <2>3. used'[ll'[i]] = used[ll'[i]]
    BY <2>2, UsedLater
  <2>4. used[ll'[i]] > used[k]
    BY <2>2
  <2> QED
    BY <1>1, <2>3, <2>4
<1> QED
  BY <1>2, <1>3

LEMMA HitKeepsOrder ==
  ASSUME ListInv, OrderInv, NEW key \in Keys, GetHit(key)
  PROVE  OrderInv'
<1>1. Use(key) /\ Hit(key) /\ stored' = stored /\ entries' = entries /\ key \in DOMAIN entries
  BY DEF GetHit, Hit, Cached
<1>2. Fronted(key) /\ Len(ll') = Len(ll) /\ ListInv'
  BY <1>1, MovedFronts, HitKeepsList DEF Hit
<1>3. ASSUME NEW k \in Keys, used'[k] > 0, ~Cached(k)'
      PROVE  Len(ll') = Limit' /\ \A i \in 1..Len(ll') : used'[ll'[i]] > used'[k]
  <2>1. ~Cached(k) /\ k # key
    BY <1>1, <1>3 DEF Cached, Enabled, Hit
  <2>2. used[k] > 0
    BY <1>1, <1>3, <2>1, UsedLater
  <2>3. Len(ll) = Limit /\ \A j \in 1..Len(ll) : used[ll[j]] > used[k]
    BY <2>1, <2>2 DEF OrderInv
  <2>4. \A i \in 1..Len(ll') : ll'[i] # k
    BY <1>1, <1>2, <1>3 DEF ListInv, Cached, Hit, Enabled
  <2> QED
    BY <1>1, <1>2, <2>1, <2>3, <2>4, FrontedOutranks DEF Limit, Enabled
<1>4. HitIsFreshest'
  BY <1>1 DEF OrderInv, HitIsFreshest
<1>5. \A i, j \in 1..Len(ll') : i < j => used'[ll'[i]] > used'[ll'[j]]
  BY <1>1, <1>2, FrontedSorted
<1> QED
  BY <1>1, <1>3, <1>4, <1>5, UsedLater DEF OrderInv

LEMMA PutKeepsOrder ==
  ASSUME ListInv, OrderInv, NEW key \in Keys, NEW r \in Results, PutResult(key, r)
  PROVE  OrderInv'
<1>1. Use(key) /\ Put(key, r) /\ stored' = [stored EXCEPT ![key] = {r}]
  BY DEF PutResult
<1>2. stored' \in [Keys -> SUBSET Results]
  BY <1>1 DEF OrderInv
<1>3. CASE PutDisabled(key, r)
  <2>1. Len(ll) = 0 /\ Len(ll') = 0 /\ Limit = 0 /\ Limit' = 0 /\ entries' = entries
    BY <1>3 DEF PutDisabled, ListInv, Limit, Enabled, cacheVars
  <2>2. DOMAIN entries = {}
    <3> SUFFICES ASSUME NEW k \in DOMAIN entries
                 PROVE  FALSE
      OBVIOUS
    <3>1. PICK i \in 1..Len(ll) : ll[i] = k
      BY DEF ListInv
    <3> QED
      BY <2>1, <3>1
  <2> QED
    BY <1>1, <1>2, <2>1, <2>2, UsedLater DEF OrderInv, HitIsFreshest
<1>4. CASE PutOver(key, r)
  <2>1. Fronted(key) /\ Len(ll') = Len(ll) /\ ListInv'
    BY <1>1, <1>4, MovedFronts, PutKeepsList DEF PutOver
  <2>2. DOMAIN entries' = DOMAIN entries /\ key \in DOMAIN entries
    BY <1>4 DEF PutOver, Cached
  <2>3. ASSUME NEW k \in Keys, used'[k] > 0, ~Cached(k)'
        PROVE  Len(ll') = Limit' /\ \A i \in 1..Len(ll') : used'[ll'[i]] > used'[k]
    <3>1. ~Cached(k) /\ k # key
      BY <1>4, <2>2, <2>3 DEF Cached, Enabled, PutOver
    <3>2. used[k] > 0
      BY <1>1, <2>3, <3>1, UsedLater
    <3>3. Len(ll) = Limit /\ \A j \in 1..Len(ll) : used[ll[j]] > used[k]
      BY <3>1, <3>2 DEF OrderInv
    <3>4. k \notin DOMAIN entries'
      BY <2>2, <1>4, <3>1 DEF Cached, PutOver
    <3>5. \A i \in 1..Len(ll') : ll'[i] # k
      BY <2>1, <3>4 DEF ListInv
    <3> QED
      BY <1>1, <2>1, <3>1, <3>3, <3>5, FrontedOutranks DEF Limit, Enabled
  <2>4. HitIsFreshest'
    <3>1. \A k \in DOMAIN entries : entries'[k] = IF k = key THEN r ELSE entries[k]
      BY <1>4 DEF PutOver
    <3>2. DOMAIN entries \subseteq Keys
      BY DEF ListInv
    <3> QED
      BY <1>1, <2>2, <3>1, <3>2 DEF OrderInv, HitIsFreshest
  <2>5. \A i, j \in 1..Len(ll') : i < j => used'[ll'[i]] > used'[ll'[j]]
    BY <1>1, <2>1, FrontedSorted
  <2> QED
    BY <1>1, <1>2, <2>3, <2>4, <2>5, UsedLater DEF OrderInv
<1>5. CASE PutNew(key, r)
  <2>1. /\ Fronted(key) /\ Len(ll) <= Capacity /\ Limit = Capacity /\ Limit' = Capacity
        /\ Len(ll') = IF Len(ll) < Capacity THEN Len(ll) + 1 ELSE Capacity
        /\ DOMAIN entries' = {ll'[i] : i \in 1..Len(ll')}
        /\ \A k \in DOMAIN entries :
             k \in DOMAIN entries' \/ (Len(ll) = Capacity /\ k = ll[Len(ll)])
    BY <1>5, PushedFronts DEF PutNew, Limit, Enabled
  <2>2. ListInv' /\ Enabled /\ Enabled'
    BY <1>1, <1>5, PutKeepsList DEF PutNew, Enabled
  <2>3. ASSUME NEW k \in Keys, used'[k] > 0, ~Cached(k)'
        PROVE  Len(ll') = Limit' /\ \A i \in 1..Len(ll') : used'[ll'[i]] > used'[k]
    <3>1. k \notin DOMAIN entries' /\ \A i \in 1..Len(ll') : ll'[i] # k
      BY <2>1, <2>2, <2>3 DEF Cached
    <3>2. k # key
      BY <2>1, <3>1 DEF Fronted
    <3>3. used[k] > 0
      BY <1>1, <2>3, <3>2, UsedLater
    <3>4. CASE k \in DOMAIN entries
      <4>1. Len(ll) = Capacity /\ k = ll[Len(ll)] /\ Len(ll') = Capacity
        BY <2>1, <3>1, <3>4
      <4>2. Len(ll) \in 1..Len(ll) /\ Len(ll) \in Nat
        BY <4>1, <2>2 DEF ListInv, Enabled
      <4>3. \A j \in 1..Len(ll) : ll[j] = k \/ used[ll[j]] > used[k]
        BY <4>1, <4>2 DEF OrderInv
      <4> QED
        BY <1>1, <2>1, <3>1, <3>2, <4>1, <4>3, FrontedOutranks
    <3>5. CASE k \notin DOMAIN entries
      <4>1. Len(ll) = Capacity /\ \A j \in 1..Len(ll) : used[ll[j]] > used[k]
        BY <2>1, <3>3, <3>5 DEF OrderInv, Cached
      <4>2. Len(ll') = Capacity
        BY <2>1, <4>1
      <4> QED
        BY <1>1, <2>1, <3>1, <3>2, <4>1, <4>2, FrontedOutranks
    <3> QED
      BY <3>4, <3>5
  <2>4. HitIsFreshest'
    <3>1. /\ \A k \in DOMAIN entries' : entries'[k] = IF k = key THEN r ELSE entries[k]
          /\ \A k \in DOMAIN entries' : k = key \/ k \in DOMAIN entries
      BY <1>5 DEF PutNew
    <3>2. DOMAIN entries' \subseteq Keys
      BY <2>1, <2>2 DEF ListInv
    <3> QED
      BY <1>1, <3>1, <3>2 DEF OrderInv, HitIsFreshest
  <2>5. \A i, j \in 1..Len(ll') : i < j => used'[ll'[i]] > used'[ll'[j]]
    BY <1>1, <2>1, FrontedSorted
  <2> QED
    BY <1>1, <1>2, <2>3, <2>4, <2>5, UsedLater DEF OrderInv
<1> QED
  BY <1>1, <1>3, <1>4, <1>5 DEF Put

-----------------------------------------------------------------------------
(* The calls *)

(* A call waits for the verdict of a text; what was stored for one was     *)
(* said of it, and no reply was misread, but for the claims not kept.      *)
CallsInv ==
  /\ asked \in [Calls -> SUBSET Keys]
  /\ heard = [k \in Keys |-> heard[k]]
  /\ backend \in Profiles \cup {"keyword"}
  /\ misread \subseteq Claims
  /\ \A k \in Keys : stored[k] \subseteq heard[k]

(* Whatever the model wrote, it is read as one of two verdicts or none. *)
LEMMA ParsedVerdicts ==
  ASSUME NEW profile \in Profiles, NEW text
  PROVE  Parse(profile, text) \in {"ALLOW", "BLOCK", "error"}
<1>1. ParseReasonDecision(text) \in {"ALLOW", "BLOCK", "error"}
  BY DEF ParseReasonDecision
<1>2. ParseNGBoolean(text) \in {"ALLOW", "BLOCK", "error"}
  BY DEF ParseNGBoolean
<1>3. ParseJPConfidentialExtraction(text) \in {"ALLOW", "BLOCK", "error"}
  BY DEF ParseJPConfidentialExtraction
<1> QED
  BY <1>1, <1>2, <1>3 DEF Parse, Profiles

LEMMA ReadVerdicts ==
  ASSUME NEW profile \in Profiles, NEW reply \in Readings[profile]
  PROVE  reply.verdict \in Results \cup {"error"} /\ (reply.verdict \in reply.read \/ reply.claim \in Claims)
<1>1. PICK r \in Replies(profile) : reply = [verdict |-> Parse(profile, r.text), read |-> r.read, claim |-> r.claim]
  BY DEF Readings
<1> QED
  BY <1>1, ParsedVerdicts, RepliesRead, ResultsAssumption DEF AsMeant

-----------------------------------------------------------------------------
(* The specification *)

CacheInv == ListInv /\ OrderInv /\ CallsInv

LEMMA CacheInvInitially == Init => CacheInv
<1> SUFFICES ASSUME Init
             PROVE  CacheInv
  OBVIOUS
<1>1. /\ ll = <<>> /\ DOMAIN entries = {} /\ entries = [k \in {} |-> k]
      /\ clock = 0 /\ used = [k \in Keys |-> 0] /\ stored = [k \in Keys |-> {}]
      /\ asked = [c \in Calls |-> {}] /\ heard = [k \in Keys |-> {}] /\ misread = {}
  BY DEF Init, OrderInit, CacheInit
<1>2. Len(ll) = 0 /\ ll \in Seq(Keys) /\ Limit >= 0
  BY <1>1 DEF Limit, Enabled
<1>3. entries = [k \in DOMAIN entries |-> entries[k]]
  BY <1>1
<1>4. ListInv
  BY <1>1, <1>2, <1>3 DEF ListInv
<1>5. OrderInv
  BY <1>1, <1>2 DEF OrderInv, HitIsFreshest
<1>6. backend \in Profiles \cup {"keyword"}
  BY DEF Init, BuildClassifier, Profiles
<1> QED
  BY <1>1, <1>4, <1>5, <1>6 DEF CacheInv, CallsInv

LEMMA CacheInvStep == CacheInv /\ [Next]_vars => CacheInv'
<1> SUFFICES ASSUME CacheInv, [Next]_vars
             PROVE  CacheInv'
  OBVIOUS
<1>0. ListInv /\ OrderInv /\ CallsInv
  BY DEF CacheInv
<1>1. ASSUME UNCHANGED orderVars
      PROVE  ListInv' /\ OrderInv'
  BY <1>0, <1>1 DEF orderVars, ListInv, OrderInv, HitIsFreshest, Limit, Enabled, Cached
<1>2. ASSUME NEW key \in Keys, NEW r \in Results, PutResult(key, r)
      PROVE  ListInv' /\ OrderInv' /\ stored' = [stored EXCEPT ![key] = {r}]
  BY <1>0, <1>2, PutKeepsList, PutKeepsOrder DEF PutResult
<1>3. stored \in [Keys -> SUBSET Results]
  BY <1>0 DEF OrderInv
<1>4. ASSUME NEW c \in Calls, NEW k \in Keys, Reuse(c, k)
      PROVE  CacheInv'
  <2>1. ListInv' /\ OrderInv' /\ stored' = stored
    BY <1>0, <1>4, HitKeepsList, HitKeepsOrder DEF Reuse, GetHit
  <2> QED
    BY <1>0, <1>4, <2>1 DEF Reuse, CacheInv, CallsInv, clientVars
<1>5. ASSUME NEW c \in Calls, NEW k \in Keys, Ask(c, k)
      PROVE  CacheInv'
  <2>1. UNCHANGED <<orderVars, backend, heard, misread>> /\ asked' = [asked EXCEPT ![c] = {k}]
    BY <1>5 DEF Ask, Miss, cacheVars, orderVars
  <2> QED
    BY <1>0, <1>1, <2>1 DEF CacheInv, CallsInv, orderVars
<1>6. ASSUME NEW c \in Calls, Fail(c)
      PROVE  CacheInv'
  BY <1>0, <1>1, <1>6 DEF Fail, CacheInv, CallsInv, orderVars
<1>7. ASSUME NEW c \in Calls, backend \in Profiles, NEW reply \in Readings[backend], Judge(c, reply)
      PROVE  CacheInv'
  <2>1. PICK k \in asked[c] :
          /\ heard' = [heard EXCEPT ![k] = @ \cup ({reply.verdict} \ {"error"})]
          /\ misread' = misread \cup (IF reply.verdict \in reply.read THEN {} ELSE {reply.claim})
          /\ asked' = [asked EXCEPT ![c] = {}]
          /\ IF reply.verdict = "error" THEN UNCHANGED orderVars ELSE PutResult(k, reply.verdict)
          /\ UNCHANGED backend
    BY <1>7 DEF Judge
  <2>2. k \in Keys
    BY <1>0, <2>1 DEF CallsInv
  <2>3. reply.verdict \in Results \cup {"error"} /\ (reply.verdict \in reply.read \/ reply.claim \in Claims)
    BY <1>7, ReadVerdicts
  <2>4. asked' \in [Calls -> SUBSET Keys] /\ heard' = [x \in Keys |-> heard'[x]]
    BY <1>0, <2>1, <2>2, <2>3 DEF CallsInv
  <2>5. \A x \in Keys : heard[x] \subseteq heard'[x]
    BY <1>0, <2>1 DEF CallsInv
  <2>8. misread' \subseteq Claims
    BY <1>0, <2>1, <2>3 DEF CallsInv
  <2>6. CASE reply.verdict = "error"
    BY <1>0, <1>1, <2>1, <2>4, <2>5, <2>6, <2>8 DEF CacheInv, CallsInv, orderVars
  <2>7. CASE reply.verdict # "error"
    <3>1. ListInv' /\ OrderInv' /\ stored' = [stored EXCEPT ![k] = {reply.verdict}]
      BY <1>2, <2>1, <2>2, <2>3, <2>7
    <3>2. reply.verdict \in heard'[k]
      BY <1>0, <2>1, <2>2, <2>3, <2>7 DEF CallsInv
    <3>3. \A x \in Keys : stored'[x] \subseteq heard'[x]
      BY <1>0, <1>3, <2>1, <2>5, <3>1, <3>2 DEF CallsInv
    <3> QED
      BY <1>0, <2>1, <2>4, <2>8, <3>1, <3>3 DEF CacheInv, CallsInv
  <2> QED
    BY <2>6, <2>7
<1>8. ASSUME NEW c \in Calls, NEW verdict \in Results, Match(c, verdict)
      PROVE  CacheInv'
  <2>1. PICK k \in asked[c] :
          /\ heard[k] \subseteq {verdict}
          /\ heard' = [heard EXCEPT ![k] = {verdict}]
          /\ asked' = [asked EXCEPT ![c] = {}]
          /\ PutResult(k, verdict)
          /\ UNCHANGED <<backend, misread>>
    BY <1>8 DEF Match
  <2>2. k \in Keys
    BY <1>0, <2>1 DEF CallsInv
  <2>3. ListInv' /\ OrderInv' /\ stored' = [stored EXCEPT ![k] = {verdict}]
    BY <1>2, <2>1, <2>2
  <2>4. \A x \in Keys : stored'[x] \subseteq heard'[x]
    BY <1>0, <1>3, <2>1, <2>2, <2>3 DEF CallsInv
  <2> QED
    BY <1>0, <2>1, <2>2, <2>3, <2>4 DEF CacheInv, CallsInv
<1>9. CASE UNCHANGED vars
  BY <1>0, <1>1, <1>9 DEF vars, CacheInv, CallsInv, orderVars, clientVars
<1> QED
  BY <1>4, <1>5, <1>6, <1>7, <1>8, <1>9 DEF Next

LEMMA CacheInvAlways == Spec => []CacheInv
  BY CacheInvInitially, CacheInvStep, PTL DEF Spec

-----------------------------------------------------------------------------
(* What it implies *)

(* The list holds as many keys as the map. *)
LEMMA AsManyEntries ==
  ASSUME ListInv
  PROVE  Cardinality(DOMAIN entries) = Len(ll)
<1>1. Len(ll) \in Nat /\ ll \in [1..Len(ll) -> DOMAIN entries]
  BY DEF ListInv
<1>2. ll \in Bijection(1..Len(ll), DOMAIN entries)
  BY <1>1 DEF ListInv, Bijection, Injection, IsInjective, Surjection
<1> QED
  BY <1>1, <1>2, FS_CountingElements DEF ExistsBijection

(* The list and the map of the cache never drift apart (cache.go:22-75),   *)
(* for every capacity, whatever is asked and answered meanwhile.           *)
THEOREM CacheConsistent == Spec => []ListMatchesMap
<1>1. CacheInv => ListMatchesMap
  <2> SUFFICES ASSUME CacheInv
               PROVE  ListMatchesMap
    OBVIOUS
  <2>0. ListInv
    BY DEF CacheInv
  <2>1. \A k \in DOMAIN entries : k \in {ll[i] : i \in 1..Len(ll)}
    BY <2>0 DEF ListInv
  <2>2. \A i \in 1..Len(ll) : ll[i] \in DOMAIN entries
    BY <2>0 DEF ListInv
  <2>3. {ll[i] : i \in 1..Len(ll)} = DOMAIN entries
    BY <2>1, <2>2
  <2> QED
    BY <2>0, <2>3 DEF ListInv, ListMatchesMap, Limit
<1> QED
  BY <1>1, CacheInvAlways, PTL

(* A hit returns what was stored last under its key (cache.go:46-48,       *)
(* 60-62), for every capacity and every number of concurrent calls.        *)
THEOREM CacheFresh == Spec => []HitIsFreshest
<1>1. CacheInv => HitIsFreshest
  BY DEF CacheInv, OrderInv
<1> QED
  BY <1>1, CacheInvAlways, PTL

(* Eviction takes the least recently used key (cache.go:67-73), and only   *)
(* of a full cache.                                                        *)
THEOREM EvictsLeastRecent == Spec => []KeepsMostRecent
<1>1. CacheInv => KeepsMostRecent
  <2> SUFFICES ASSUME CacheInv
               PROVE  KeepsMostRecent
    OBVIOUS
  <2>0. ListInv /\ OrderInv
    BY DEF CacheInv
  <2> SUFFICES ASSUME NEW k \in Keys, used[k] > 0, ~Cached(k)
               PROVE  /\ Cardinality(DOMAIN entries) = Limit
                      /\ \A c \in DOMAIN entries : used[c] > used[k]
    BY DEF KeepsMostRecent, Limit
  <2>1. Len(ll) = Limit /\ \A i \in 1..Len(ll) : used[ll[i]] > used[k]
    BY <2>0 DEF OrderInv
  <2> QED
    BY <2>0, <2>1, AsManyEntries DEF ListInv
<1> QED
  BY <1>1, CacheInvAlways, PTL

(* A reply is read as what the documentation of its profile has it mean    *)
(* (profile.go:135-303), whatever the profile, but for a label in a reason *)
(* without a decision, a decision that is no label and an object without a *)
(* verdict; and what is cached for a text is what was said of that text,   *)
(* in whatever order the concurrent calls return and whatever is evicted   *)
(* (detector.go:46-66).                                                    *)
THEOREM CachedAsMeant == Spec => []VerdictsAsMeant
<1>1. CacheInv => VerdictsAsMeant
  <2> SUFFICES ASSUME CacheInv
               PROVE  VerdictsAsMeant
    OBVIOUS
  <2>1. \A k \in DOMAIN entries : k \in Keys
    BY DEF CacheInv, ListInv
  <2> QED
    BY <2>1 DEF CacheInv, CallsInv, OrderInv, HitIsFreshest, VerdictsAsMeant
<1> QED
  BY <1>1, CacheInvAlways, PTL
=============================================================================

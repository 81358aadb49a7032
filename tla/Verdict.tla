------------------------------ MODULE Verdict -------------------------------
(***************************************************************************)
(* internal/inference/profile.go: how each profile reads a verdict from    *)
(* the text the model wrote.  A text is a sequence of tokens: "open" and   *)
(* "close", the braces of an object, the names of its fields, and values.  *)
(* "word" names no label, "allow" and "block" each name one, "either"      *)
(* names both, "blocked" names BLOCK without being it, "brace" is a value  *)
(* that holds { and }; "[]" and "[v]" are an empty and a filled array.     *)
(***************************************************************************)
EXTENDS Integers, Sequences, FiniteSetsExt

Strings == {"word", "allow", "block", "either", "blocked", "brace"}
Arrays == {"[]", "[v]"}
Values == Strings \cup Arrays \cup {"true", "false", "null"}
Categories == {"name", "address"}
Fields == {"reason", "decision", "ng", "short_reason", "other"} \cup Categories

(* strings.Contains of a label, in any case. *)
Names(token) ==
  CASE token = "allow" -> {"ALLOW"}
    [] token \in {"block", "blocked"} -> {"BLOCK"}
    [] token = "either" -> {"ALLOW", "BLOCK"}
    [] OTHER -> {}

Labels(text) == UNION {Names(text[i]) : i \in 1..Len(text)}

ExtractJSON(text) ==
  LET opening == {i \in 1..Len(text) : text[i] \in {"open", "brace"}}
      closing == {i \in 1..Len(text) : text[i] \in {"close", "brace"}}
  IN IF opening # {} /\ closing # {} /\ Min(opening) <= Max(closing)
     THEN SubSeq(text, Min(opening), Max(closing)) ELSE text

-----------------------------------------------------------------------------
(* json.Unmarshal *)

FieldsAt(object) == {i \in 2..(Len(object) - 2) : i % 2 = 0}

IsObject(text) ==
  /\ Len(text) >= 2 /\ Len(text) % 2 = 0
  /\ text[1] = "open" /\ text[Len(text)] = "close"
  /\ \A i \in FieldsAt(text) : text[i] \in Fields /\ text[i + 1] \in Values

(* A bare null is decoded too, into a value that is left empty.            *)
Unmarshals(text) == IsObject(text) \/ text = <<"null">>

(* The fields of these names have values of this type; null leaves any as  *)
(* it was.                                                                 *)
Typed(object, names, type) ==
  \A i \in FieldsAt(object) : object[i] \in names => object[i + 1] \in type \cup {"null"}

ValuesOf(object, name) == {object[i + 1] : i \in {j \in FieldsAt(object) : object[j] = name}}

-----------------------------------------------------------------------------
(* The profiles.  A reply is read as "ALLOW", "BLOCK" or, when it holds no *)
(* verdict, "error".                                                       *)

(* Broken variant: whatever does not say BLOCK is harmless. *)
ParseReasonDecisionLenient(text) ==
  LET object == ExtractJSON(text)
      decision == ValuesOf(object, "decision")
  IN IF "block" \in (IF Unmarshals(object) THEN decision ELSE {}) \/ "BLOCK" \in Labels(text)
     THEN "BLOCK" ELSE "ALLOW"

ParseReasonDecision(text) ==
  LET object == ExtractJSON(text)
      decoded == Unmarshals(object) /\ Typed(object, {"reason", "decision"}, Strings)
      decision == ValuesOf(object, "decision") \ {"null"}
  IN IF decoded /\ decision # {} THEN IF "block" \in decision THEN "BLOCK" ELSE "ALLOW"
     ELSE IF Labels(text) = {"BLOCK"} THEN "BLOCK"
     ELSE IF Labels(text) = {"ALLOW"} THEN "ALLOW"
     ELSE "error"

ParseNGBoolean(text) ==
  LET object == ExtractJSON(text)
  IN IF ~(/\ Unmarshals(object)
          /\ Typed(object, {"ng"}, {"true", "false"})
          /\ Typed(object, {"short_reason"}, Strings)) THEN "error"
     ELSE IF "true" \in ValuesOf(object, "ng") THEN "BLOCK" ELSE "ALLOW"

(* Every field of the map must be an array, the unknown ones too. *)
ParseJPConfidentialExtraction(text) ==
  LET object == ExtractJSON(text)
  IN IF ~(Unmarshals(object) /\ Typed(object, Fields, Arrays)) THEN "error"
     ELSE IF \E c \in Categories : "[v]" \in ValuesOf(object, c) THEN "BLOCK" ELSE "ALLOW"

Profiles == {"reason_decision", "ng_boolean", "jp_confidential_extraction"}

Parse(profile, text) ==
  CASE profile = "reason_decision" -> ParseReasonDecision(text)
    [] profile = "ng_boolean" -> ParseNGBoolean(text)
    [] profile = "jp_confidential_extraction" -> ParseJPConfidentialExtraction(text)

-----------------------------------------------------------------------------
(* What a model may write, and what may be made of it by the contracts of  *)
(* the profiles and what the comments and tests say of other replies.      *)

(* The objects that follow the profiles' schemas, with the verdict meant. *)
ReasonDecisionSchema ==
  {[text |-> <<"open", "reason", r, "decision", d, "close">>, meant |-> IF d = "block" THEN "BLOCK" ELSE "ALLOW"] :
     r \in {"word", "allow", "block", "brace"}, d \in {"allow", "block"}}

NGBooleanSchema ==
  {[text |-> <<"open", "ng", b, "short_reason", r, "close">>, meant |-> IF b = "true" THEN "BLOCK" ELSE "ALLOW"] :
     r \in {"word", "brace"}, b \in {"true", "false"}}

JPConfidentialExtractionSchema ==
  {[text |-> <<"open", "name", n, "address", a, "close">>,
    meant |-> IF "[v]" \in {n, a} THEN "BLOCK" ELSE "ALLOW"] : n, a \in Arrays}

Contract(profile) ==
  CASE profile = "reason_decision" -> ReasonDecisionSchema
    [] profile = "ng_boolean" -> NGBooleanSchema
    [] profile = "jp_confidential_extraction" -> JPConfidentialExtractionSchema

(* A reply, with what it may be read as by the documentation.  "claim" is  *)
(* "none", or what the parsers are known to make more of than it says:     *)
(* "reason", a label in the words of the reason alone; "ambiguous", a      *)
(* decision that is neither label; "unsaid", no verdict at all.            *)
Claims == {"reason", "ambiguous", "unsaid"}

Reply(text, read, claim) == [text |-> text, read |-> read, claim |-> claim]

(* Whole: alone, or in prose or fences. *)
Whole(profile) ==
  UNION {{Reply(o.text, {o.meant}, "none"),
          Reply(<<"word">> \o o.text \o <<"word">>, {o.meant}, "none")} : o \in Contract(profile)}

(* In prose that holds braces of its own: understood, or no verdict. *)
Braced(profile) ==
  {Reply(<<"brace">> \o o.text, {o.meant, "error"}, "none") : o \in Contract(profile)}

(* Cut by max_tokens after its first n tokens: nothing is said before the  *)
(* last value is (profile.go:27-28).                                       *)
CutAt(o, n) ==
  IF n = Len(o.text) - 1 THEN Reply(SubSeq(o.text, 1, n), {o.meant, "error"}, "none")
  ELSE Reply(SubSeq(o.text, 1, n), {"error"}, IF Labels(SubSeq(o.text, 1, n)) = {} THEN "none" ELSE "reason")

Cut(profile) == UNION {{CutAt(o, n) : n \in 0..(Len(o.text) - 1)} : o \in Contract(profile)}

(* No object: reason_decision takes the one label of plain text, and       *)
(* nothing else says anything (profile.go:137-139).                        *)
Label(profile, label) == IF profile = "reason_decision" THEN {label} ELSE {"error"}

Bare(profile) ==
  {Reply(<<"allow">>, Label(profile, "ALLOW"), "none"),
   Reply(<<"word", "block">>, Label(profile, "BLOCK"), "none"),
   Reply(<<"null">>, {"error"}, IF profile = "reason_decision" THEN "none" ELSE "unsaid")}
  \cup {Reply(<<t>>, {"error"}, "none") : t \in {"either", "word", "true"}}

(* Objects that do not follow the schema.  Only of an extraction is that   *)
(* documented as harmless (profile.go:276-278).                            *)
Deviating(profile) ==
  CASE profile = "reason_decision" ->
         {Reply(<<"open", "reason", "word", "decision", d, "close">>, {"error"}, "ambiguous") :
            d \in {"either", "blocked", "word"}}
         \cup {Reply(<<"open", "reason", "block", "close">>, {"error"}, "reason")}
         \cup {Reply(<<"open", f, v, "close">>, {"error"}, "none") :
                 f \in {"reason", "decision"}, v \in {"null", "true"}}
    [] profile = "ng_boolean" ->
         {Reply(t, {"error"}, "unsaid") : t \in
            {<<"open", "close">>, <<"open", "ng", "null", "close">>, <<"open", "reason", "word", "decision", "block", "close">>}}
         \cup {Reply(<<"open", "ng", "word", "close">>, {"error"}, "none")}
    [] profile = "jp_confidential_extraction" ->
         {Reply(t, {"ALLOW"}, "none") : t \in {<<"open", "close">>, <<"open", "other", "[v]", "close">>}}
         \cup {Reply(<<"open", "name", "null", "address", "[v]", "close">>, {"BLOCK"}, "none")}
         \cup {Reply(<<"open", "name", v, "close">>, {"error"}, "none") : v \in {"word", "true"}}

Replies(profile) ==
  Whole(profile) \cup Braced(profile) \cup Cut(profile) \cup Bare(profile) \cup Deviating(profile)

(* What is made of them, beside what may be. *)
Readings ==
  [p \in Profiles |->
     {[verdict |-> Parse(p, r.text), read |-> r.read, claim |-> r.claim] : r \in Replies(p)}]
=============================================================================

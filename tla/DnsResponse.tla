---------------------------- MODULE DnsResponse -----------------------------
(***************************************************************************)
(* parseAResponse and skipName of internal/upstreamdial, byte by byte, and *)
(* what a DNS server puts on the wire for them.  A TTL is read as a number *)
(* of seconds; one that needs more than 16 bits is MaxRead, since clampTTL *)
(* cuts it much lower anyway.                                              *)
(***************************************************************************)
EXTENDS Integers, Sequences, SequencesExt, FiniteSetsExt

MaxRead == 65536

NoByte == -1

(* Offsets count from 0; an index past the end would panic. *)
ByteAt(buf, o) == IF o \in 0..Len(buf) - 1 THEN buf[o + 1] ELSE NoByte

U16(buf, o) == 256 * ByteAt(buf, o) + ByteAt(buf, o + 1)

U32(buf, o) == IF U16(buf, o) = 0 THEN U16(buf, o + 2) ELSE MaxRead

Malformed == -1

SkipName(buf, off) ==
  LET skip[o \in Nat] ==
        IF o >= Len(buf) THEN Malformed
        ELSE IF ByteAt(buf, o) = 0 THEN o + 1
        ELSE IF ByteAt(buf, o) >= 192 THEN IF o + 2 > Len(buf) THEN Malformed ELSE o + 2
        ELSE IF ByteAt(buf, o) < 64 THEN skip[o + ByteAt(buf, o) + 1]
        ELSE Malformed
  IN IF off = Malformed THEN Malformed ELSE skip[off]

Questions(buf) ==
  LET past[q \in 0..U16(buf, 4)] ==
        IF q = 0 THEN 12
        ELSE LET name == SkipName(buf, past[q - 1]) IN IF name = Malformed THEN name ELSE name + 4
      off == past[U16(buf, 4)]
  IN IF off > Len(buf) THEN Malformed ELSE off

Failed == [ok |-> FALSE, ips |-> <<>>, ttl |-> 0]

IsAddress(buf, o, rdlen) == U16(buf, o) = 1 /\ rdlen = 4

(* Broken variant: the length of the data is not checked. *)
RecordUnchecked(buf, at) ==
  LET o == SkipName(buf, at.off)
      rdlen == U16(buf, o + 8)
      ip == [k \in 1..4 |-> ByteAt(buf, o + 9 + k)]
  IN IF o = Malformed \/ o + 10 > Len(buf) THEN [at EXCEPT !.off = Malformed]
     ELSE IF IsAddress(buf, o, rdlen)
     THEN [off |-> o + 10 + rdlen, ips |-> Append(at.ips, ip), ttl |-> Min({at.ttl, U32(buf, o + 4)})]
     ELSE [at EXCEPT !.off = o + 10 + rdlen]

(* What one more resource record makes of the addresses and the TTL. *)
Record(buf, at) ==
  LET o == SkipName(buf, at.off)
      rdlen == U16(buf, o + 8)
      ip == [k \in 1..4 |-> ByteAt(buf, o + 9 + k)]
  IN IF o = Malformed \/ o + 10 > Len(buf) \/ o + 10 + rdlen > Len(buf)
     THEN [at EXCEPT !.off = Malformed]
     ELSE IF IsAddress(buf, o, rdlen)
     THEN [off |-> o + 10 + rdlen, ips |-> Append(at.ips, ip), ttl |-> Min({at.ttl, U32(buf, o + 4)})]
     ELSE [at EXCEPT !.off = o + 10 + rdlen]

Answers(buf) ==
  LET after[n \in 0..U16(buf, 6)] ==
        IF n = 0 THEN [off |-> Questions(buf), ips |-> <<>>, ttl |-> MaxRead]
        ELSE LET at == after[n - 1]
             IN IF at.off = Malformed \/ at.off >= Len(buf) THEN at ELSE Record(buf, at)
      end == after[U16(buf, 6)]
  IN IF end.off = Malformed THEN Failed
     ELSE [ok |-> TRUE, ips |-> end.ips, ttl |-> IF end.ips = <<>> THEN 0 ELSE end.ttl]

Parse(buf, wantID) ==
  IF Len(buf) < 12 \/ U16(buf, 0) # wantID \/ U16(buf, 2) % 16 # 0 THEN Failed ELSE Answers(buf)

-----------------------------------------------------------------------------
(* A response [id, rcode, answers], an answer [type, ttl, data]. *)

Bytes == 0..255
Words == 0..65535

WellFormed(r) ==
  /\ r.id \in Words /\ r.rcode \in 0..15
  /\ r.answers \in Seq([type : Words, ttl : Nat, data : Seq(Bytes)]) /\ Len(r.answers) \in Words
  /\ \A i \in DOMAIN r.answers : Len(r.answers[i].data) \in Words /\ r.answers[i].ttl \div 65536 \in Words

Word(n) == <<n \div 256, n % 256>>

EncodeAnswer(a) ==
  <<192, 12>> \o Word(a.type) \o Word(1) \o Word(a.ttl \div 65536) \o Word(a.ttl % 65536)
    \o Word(Len(a.data)) \o a.data

Encode(r) ==
  Word(r.id) \o Word(256 * 129 + r.rcode) \o Word(1) \o Word(Len(r.answers)) \o <<0, 0, 0, 0>>
    \o <<3, 97, 112, 105, 0>> \o Word(1) \o Word(1)
    \o FlattenSeq([i \in DOMAIN r.answers |-> EncodeAnswer(r.answers[i])])

HoldsAddress(a) == a.type = 1 /\ Len(a.data) = 4

Addresses(r) ==
  FlattenSeq([i \in DOMAIN r.answers |->
                IF HoldsAddress(r.answers[i]) THEN <<r.answers[i].data>> ELSE <<>>])

Ttls(r) == {r.answers[i].ttl : i \in {j \in DOMAIN r.answers : HoldsAddress(r.answers[j])}}

ShortestTtl(r) == Min(Ttls(r) \cup {MaxRead})
=============================================================================

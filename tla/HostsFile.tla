----------------------------- MODULE HostsFile ------------------------------
(***************************************************************************)
(* What internal/hostsfile makes of the lines of the OS hosts file.  A     *)
(* line is a marker of the redirect block, a redirect of an intercepted    *)
(* host, blank, or one of the user's own; a line of the user that is not   *)
(* ASCII is garbled by the encoding uninstall.ps1 writes with.             *)
(***************************************************************************)
EXTENDS Integers, Sequences, FiniteSets, SequencesExt

CONSTANTS
  UserLines,    \* lines that are not the proxy's
  NonAscii,     \* those of them with characters outside ASCII
  Hosts         \* the redirect lines of intercept.hosts, in order

Begin == "begin"
End == "end"
Blank == "blank"
Garbled == "garbled"    \* a line with ? for its characters outside ASCII

Redirects == ToSet(Hosts)

Lines == UserLines \cup Redirects \cup {Begin, End, Blank, Garbled}

(* Kinds of lines are told apart, and a host is intercepted once. *)
ASSUME HostsAssumption ==
  /\ Hosts \in Seq(Redirects) /\ IsInjective(Hosts)
  /\ {Begin, End, Blank, Garbled} \cap (UserLines \cup Redirects) = {}
  /\ UserLines \cap Redirects = {}
  /\ NonAscii \subseteq UserLines

BlockLines == <<Begin>> \o Hosts \o <<End>>

Present(lines) == Begin \in ToSet(lines)

(* Line i lies behind a begin marker with no end marker in between: a      *)
(* block that is never closed reaches to the end of the file.              *)
InBlock(lines, i) ==
  \E b \in 1..i : lines[b] = Begin /\ \A k \in b..i : lines[k] # End

Unclosed(lines) == InBlock(lines, Len(lines))

(* Broken variant: the end marker does not end the block. *)
BeforeBlock(lines) == {i \in DOMAIN lines : \A b \in 1..i : lines[b] # Begin}

StripBlock(lines) ==
  {i \in DOMAIN lines : ~InBlock(lines, i) /\ lines[i] \notin {Begin, End}}

(* Broken variant: the old block is left in the file. *)
TrimAll(lines) ==
  {i \in DOMAIN lines : \E k \in DOMAIN lines : i <= k /\ lines[k] # Blank}

(* No blank lines accumulate at the end. *)
TrimBlank(lines) ==
  {i \in StripBlock(lines) : \E k \in StripBlock(lines) : i <= k /\ lines[k] # Blank}

Nth(positions, k) == CHOOSE i \in positions : Cardinality(positions \cap 1..i) = k

(* The lines at some positions, in their order. *)
LinesAt(lines, positions) == [k \in 1..Cardinality(positions) |-> lines[Nth(positions, k)]]

Render(lines, block) ==
  LET kept == LinesAt(lines, TrimBlank(lines))
  IN IF kept = <<>> \/ block = <<>> THEN kept \o block ELSE kept \o <<Blank>> \o block

(* What uninstall.ps1 makes of the lines it has read: an empty line is     *)
(* left of a file with nothing else, and all of it is encoded as ASCII.    *)
Encoded(lines) ==
  [k \in DOMAIN lines |-> IF lines[k] \in NonAscii THEN Garbled ELSE lines[k]]

Stripped(lines) ==
  LET kept == Render(lines, <<>>)
  IN Encoded(IF kept = <<>> THEN <<Blank>> ELSE kept)

(* The file is rewritten in place: a write that is cut short has truncated *)
(* it and put some first lines into it.                                    *)
CutShort(lines) == {SubSeq(lines, 1, n) : n \in 0..Len(lines) - 1}

Redirected(lines) == ToSet(lines) \cap Redirects # {}

Where(lines, kinds) == {i \in DOMAIN lines : lines[i] \in kinds}

OwnLines(lines) == LinesAt(lines, Where(lines, UserLines))

InAscii(lines) == LinesAt(lines, DOMAIN lines \ Where(lines, NonAscii))

Without(lines, l) == LinesAt(lines, DOMAIN lines \ Where(lines, {l}))
=============================================================================

---------------------------- MODULE UpstreamDial ----------------------------
(***************************************************************************)
(* How the proxy reaches the upstream while the hosts file redirects its   *)
(* name to the proxy itself (internal/upstreamdial): a dial of an          *)
(* intercepted name asks a DNS server of its own, through a cache the      *)
(* concurrent dials share, and tries the addresses in turn.  The lock is   *)
(* not held during a query, so the dials of one name may all ask, and      *)
(* store in any order what they were answered at different times.          *)
(***************************************************************************)
EXTENDS DnsResponse

CONSTANTS
  Dials,        \* calls of DialContext
  Names,        \* host names dialed
  Lower,        \* strings.ToLower
  Undotted,     \* strings.TrimSuffix(host, ".")
  Intercepted,  \* intercept.hosts, as toSet keeps them
  Loopback,     \* the address the hosts file redirects them to
  Moves,        \* the upstream's sets of addresses, one after the other
  Responses,    \* what the DNS server may answer
  Cuts,         \* bytes of a response that may get lost
  MinTTL, MaxTTL,   \* minTTL, maxTTL, in seconds
  MaxDial,      \* seconds a dial takes at most
  Step, MaxTime \* bounds: seconds from one look at the clock to the next; clock

ASSUME DialAssumption ==
  /\ MinTTL \in Nat /\ MaxTTL \in Nat /\ MinTTL <= MaxTTL
  /\ MaxDial \in Nat /\ Step \in Nat \ {0} /\ MaxTime \in Nat
  /\ Names \subseteq DOMAIN Lower /\ Names \subseteq DOMAIN Undotted
  /\ Len(Moves) \in Nat \ {0}

VARIABLES
  now,      \* the clock
  place,    \* how often the upstream has moved
  left,     \* history: when it left its earlier addresses
  pc,       \* dial -> where it is
  name,     \* dial -> the host it dials
  began,    \* dial -> when it began
  got,      \* dial -> the response it read, as sent and as received
  ips,      \* dial -> addresses still to try
  conn,     \* dial -> the address it is connected to
  cache     \* name -> addresses and expiry

dialVars == <<pc, name, began, got, ips, conn>>
vars == <<now, place, left, dialVars, cache>>

Nobody == <<>>

(* The upstream is not the proxy itself. *)
ASSUME AddressAssumption ==
  /\ Loopback # Nobody
  /\ \A i \in 1..Len(Moves) : Loopback \notin Moves[i] /\ Nobody \notin Moves[i]

(* What a server sends can be put on the wire. *)
ASSUME ResponsesAssumption == (\A r \in Responses : WellFormed(r)) /\ Cuts \subseteq Nat

AnyName == CHOOSE n \in Names : TRUE
NoAnswer == [sent |-> [id |-> 0, rcode |-> 0, answers |-> <<>>], buf |-> <<>>]

Init ==
  /\ now = 0
  /\ place = 1
  /\ left = [a \in {} |-> 0]
  /\ pc = [d \in Dials |-> "idle"]
  /\ name = [d \in Dials |-> AnyName]
  /\ began = [d \in Dials |-> 0]
  /\ got = [d \in Dials |-> NoAnswer]
  /\ ips = [d \in Dials |-> <<>>]
  /\ conn = [d \in Dials |-> Nobody]
  /\ cache = [n \in {} |-> 0]

Goto(d, from, to) == pc[d] = from /\ pc' = [pc EXCEPT ![d] = to]

(* Broken variant: the name is taken as it is. *)
IsInterceptedVerbatim(n) == n \in Intercepted

IsIntercepted(n) == Lower[Undotted[n]] \in Intercepted

(* What the hosts file redirects, whatever the spelling. *)
Redirected(n) == Lower[Undotted[n]] \in Intercepted

(* The system resolves the name, through the hosts file. *)
DialSystem(d, n) ==
  /\ Goto(d, "idle", "done")
  /\ ~IsIntercepted(n)
  /\ name' = [name EXCEPT ![d] = n]
  /\ began' = [began EXCEPT ![d] = now]
  /\ conn' \in {[conn EXCEPT ![d] = a] : a \in IF Redirected(n) THEN {Loopback} ELSE Moves[place]}
  /\ UNCHANGED <<now, place, left, got, ips, cache>>

Fresh(n) == Lower[n] \in DOMAIN cache /\ now < cache[Lower[n]].expiry

DialCached(d, n) ==
  /\ Goto(d, "idle", "connect")
  /\ IsIntercepted(n)
  /\ Fresh(n)
  /\ name' = [name EXCEPT ![d] = n]
  /\ began' = [began EXCEPT ![d] = now]
  /\ ips' = [ips EXCEPT ![d] = cache[Lower[n]].ips]
  /\ UNCHANGED <<now, place, left, got, conn, cache>>

DialUncached(d, n) ==
  /\ Goto(d, "idle", "query")
  /\ IsIntercepted(n)
  /\ ~Fresh(n)
  /\ name' = [name EXCEPT ![d] = n]
  /\ began' = [began EXCEPT ![d] = now]
  /\ UNCHANGED <<now, place, left, got, ips, conn, cache>>

Received(r, cut) == SubSeq(Encode(r), 1, Len(Encode(r)) - cut)

(* The server answers with the addresses of the moment; datagrams may be   *)
(* cut or of another query.                                                *)
Answer(d, r, cut) ==
  /\ Goto(d, "query", "answered")
  /\ ToSet(Addresses(r)) \subseteq Moves[place]
  /\ got' = [got EXCEPT ![d] = [sent |-> r, buf |-> Received(r, cut)]]
  /\ UNCHANGED <<now, place, left, name, began, ips, conn, cache>>

Fail(d) ==
  /\ Goto(d, "query", "done")
  /\ UNCHANGED <<now, place, left, name, began, got, ips, conn, cache>>

QueryId == 1

(* Broken variant: the TTL is used as it comes. *)
ClampBelow(ttl) == IF ttl < MinTTL THEN MinTTL ELSE ttl

ClampTTL(ttl) == IF ttl < MinTTL THEN MinTTL ELSE IF ttl > MaxTTL THEN MaxTTL ELSE ttl

Store(d) ==
  LET p == Parse(got[d].buf, QueryId)
      entry == [ips |-> p.ips, expiry |-> now + ClampTTL(p.ttl)]
      key == Lower[name[d]]
  IN /\ Goto(d, "answered", "connect")
     /\ p.ok /\ p.ips # <<>>
     /\ cache' = [n \in DOMAIN cache \cup {key} |-> IF n = key THEN entry ELSE cache[n]]
     /\ ips' = [ips EXCEPT ![d] = p.ips]
     /\ got' = [got EXCEPT ![d] = NoAnswer]
     /\ UNCHANGED <<now, place, left, name, began, conn>>

Discard(d) ==
  LET p == Parse(got[d].buf, QueryId)
  IN /\ Goto(d, "answered", "done")
     /\ ~p.ok \/ p.ips = <<>>
     /\ got' = [got EXCEPT ![d] = NoAnswer]
     /\ UNCHANGED <<now, place, left, name, began, ips, conn, cache>>

Connect(d) ==
  /\ ips[d] # <<>>
  /\ Goto(d, "connect", "done")
  /\ conn' = [conn EXCEPT ![d] = Head(ips[d])]
  /\ UNCHANGED <<now, place, left, name, began, got, ips, cache>>

TryNext(d) ==
  /\ pc[d] = "connect" /\ ips[d] # <<>>
  /\ ips' = [ips EXCEPT ![d] = Tail(@)]
  /\ UNCHANGED <<now, place, left, pc, name, began, got, conn, cache>>

GiveUp(d) ==
  /\ ips[d] = <<>>
  /\ Goto(d, "connect", "done")
  /\ UNCHANGED <<now, place, left, name, began, got, ips, conn, cache>>

(* The connection is closed or the error reported, and a later dial starts. *)
Close(d) ==
  /\ Goto(d, "done", "idle")
  /\ conn' = [conn EXCEPT ![d] = Nobody]
  /\ ips' = [ips EXCEPT ![d] = <<>>]
  /\ began' = [began EXCEPT ![d] = 0]
  /\ name' = [name EXCEPT ![d] = AnyName]
  /\ UNCHANGED <<now, place, left, got, cache>>

Tick ==
  /\ now + Step <= MaxTime
  /\ now' = now + Step
  /\ \A d \in Dials : pc[d] \in {"idle", "done"} \/ now' - began[d] <= MaxDial
  /\ UNCHANGED <<place, left, dialVars, cache>>

(* The upstream moves to other addresses; DNS tells at once. *)
Move ==
  /\ place < Len(Moves)
  /\ place' = place + 1
  /\ left' = [a \in (DOMAIN left \cup Moves[place]) \ Moves[place + 1] |->
                IF a \in DOMAIN left THEN left[a] ELSE now]
  /\ UNCHANGED <<now, dialVars, cache>>

DialStep(d) ==
  \/ \E n \in Names : DialSystem(d, n) \/ DialCached(d, n) \/ DialUncached(d, n)
  \/ \E r \in Responses, cut \in Cuts : Answer(d, r, cut)
  \/ Fail(d) \/ Store(d) \/ Discard(d) \/ Connect(d) \/ TryNext(d) \/ GiveUp(d) \/ Close(d)

Next == Tick \/ Move \/ \E d \in Dials : DialStep(d)

Spec == Init /\ [][Next]_vars

-----------------------------------------------------------------------------
(* Properties *)

(* The proxy never dials itself: no name the hosts file redirects is       *)
(* resolved through it, whatever its spelling (upstreamdial.go:67-80).     *)
NeverLoopsBack == \A d \in Dials : conn[d] # Loopback

(* An address is used for at most maxTTL after the upstream left it, give  *)
(* or take the dial that fetched it and the dial that uses it: neither a   *)
(* long TTL nor answers stored out of order keep the proxy on it longer    *)
(* (upstreamdial.go:104-125, 165-174).                                     *)
FollowsTheUpstream ==
  [][\A d \in Dials :
       conn'[d] # conn[d] /\ conn'[d] \in DOMAIN left =>
         now <= left[conn'[d]] + MaxTTL + 2 * MaxDial]_vars

(* A whole answer to the query is read as what the server meant; a cut one *)
(* is refused or read in part, and nothing else is taken for an address    *)
(* (upstreamdial.go:211-293).                                              *)
ReadsWhatWasMeant ==
  \A d \in Dials :
    pc[d] = "answered" =>
      LET r == got[d].sent
          p == Parse(got[d].buf, QueryId)
      IN /\ p.ips \in Seq(ToSet(Addresses(r))) /\ p.ttl \in Nat
         /\ IsPrefix(p.ips, Addresses(r))
         /\ r.id # QueryId \/ r.rcode # 0 => ~p.ok
         /\ r.id = QueryId /\ r.rcode = 0 /\ got[d].buf = Encode(r) =>
              p.ok /\ p.ips = Addresses(r) /\ (p.ips # <<>> => p.ttl = ShortestTtl(r))
=============================================================================

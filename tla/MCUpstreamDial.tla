--------------------------- MODULE MCUpstreamDial ---------------------------
EXTENDS UpstreamDial, TLC

MCNames == {"API.", "other"}
MCLower == [n \in {"API.", "API", "other"} |->
              CASE n = "API." -> "api." [] n = "API" -> "api" [] OTHER -> n]
MCUndotted == [n \in MCNames |-> IF n = "API." THEN "API" ELSE n]

Home == <<127, 0, 0, 1>>
Old == <<1, 1, 1, 1>>
Spare == <<2, 2, 2, 2>>
New == <<3, 3, 3, 3>>
MCMoves == <<{Old, Spare}, {Spare, New}>>

A(ttl, ip) == [type |-> 1, ttl |-> ttl, data |-> ip]
Alias == [type |-> 5, ttl |-> 1, data |-> <<192, 12>>]
Reply(id, rcode, answers) == [id |-> id, rcode |-> rcode, answers |-> answers]

MCResponses ==
  {Reply(1, 0, <<A(86400, Old)>>), Reply(1, 0, <<Alias, A(60, Spare), A(20, New)>>),
   Reply(1, 0, <<Alias>>), Reply(1, 3, <<>>), Reply(2, 0, <<A(60, Spare)>>)}

Interchangeable == Permutations(Dials)
=============================================================================

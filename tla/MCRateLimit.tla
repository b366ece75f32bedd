---------------------------- MODULE MCRateLimit -----------------------------
(***************************************************************************)
(* Three attempts behind one trusted proxy.  r1 and r2 are two addresses   *)
(* of one IPv6 /64, and r2 names an endpoint that does not exist; r3 is    *)
(* somebody else.  r2 and r3 write forwarding entries of their own.        *)
(***************************************************************************)
EXTENDS RateLimit, TLC

CONSTANTS r1, r2, r3, client, subscriber, form, guess

At(family, net, host, port) ==
  [family |-> family, net |-> net, host |-> host, port |-> port]

MCSeenAddress == r1 :> At("v6", 1, 1, 1) @@ r2 :> At("v6", 1, 2, 2)
              @@ r3 :> At("mapped", 0, 7, 0)
MCWritten     == r1 :> <<Blank>> @@ r2 :> <<At("v4", 0, 9, 0), Blank>>
              @@ r3 :> <<At("v6", 1, 1, 0)>>
MCSourceOf    == r1 :> subscriber @@ r2 :> subscriber @@ r3 :> client
MCEndpointOf  == r1 :> form @@ r2 :> guess @@ r3 :> form
MCProxy       == At("v4", 0, 1, 0)
=============================================================================

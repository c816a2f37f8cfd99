---------------------------- MODULE MCGameServer ----------------------------
(***************************************************************************)
(* GameServer on small instances: two players and two matches.             *)
(***************************************************************************)
EXTENDS GameServer

CONSTANTS ana, ben, derby, oval, home, away, port

TwoPlayers == {ana, ben}
TwoMatches == {derby, oval}
AllAddrs   == {home, away, port}

Ticket(m, p, n) == [match |-> m, player |-> p, issue |-> n]

(* Both race in one match; ana may come back to it from another address,   *)
(* and go to another match.  Ben may use ana's home address, too.          *)
FourTickets ==
  {Ticket(derby, ana, 1), Ticket(derby, ben, 1), Ticket(derby, ana, 2), Ticket(oval, ana, 1)}

OwnAddrs ==
  [t \in FourTickets |->
     IF t.player = ben THEN {port, home} ELSE IF t.issue = 2 THEN {away} ELSE {home}]
=============================================================================

----------------------------- MODULE RaceSeats -----------------------------
(***************************************************************************)
(* A race as the rest of the game server sees it: who has a seat, whether  *)
(* it is over, and whether its Done is closed.  Seats are given one by one *)
(* while the race is open and there is room, and are only given up by the  *)
(* players who may leave; what the race ends with stays.                   *)
(*                                                                         *)
(* RaceLoop implements this specification (RaceLoop!Seats) and the races   *)
(* of GameServer are of this kind (GameServer!Seats), so what GameServer   *)
(* assumes of a race is what RaceLoop provides.                            *)
(***************************************************************************)
EXTENDS Naturals, FiniteSets

CONSTANTS Players, Leavers, MaxPlayers

VARIABLES phase, members

vars == <<phase, members>>

Init == phase = "open" /\ members = {}

Free == phase = "open" /\ Cardinality(members) < MaxPlayers

Seat(p) ==
  /\ Free
  /\ members' = members \cup {p}
  /\ UNCHANGED phase

Leave(p) ==
  /\ phase = "open"
  /\ members' = members \ {p}
  /\ UNCHANGED phase

End ==
  /\ phase = "open"
  /\ phase' = "finished"
  /\ UNCHANGED members

Close ==
  /\ phase = "finished"
  /\ phase' = "closed"
  /\ UNCHANGED members

Next == End \/ Close \/ (\E p \in Players : Seat(p)) \/ (\E p \in Leavers : Leave(p))

Spec == Init /\ [][Next]_vars
=============================================================================

--------------------------- MODULE RaceLifecycle ---------------------------
(***************************************************************************)
(* What one race promises to the rest of the game server, with the tick    *)
(* loop, its mutex and its channels left out:                              *)
(*                                                                         *)
(*   - the status only moves forward (internal/race/state.go);             *)
(*   - a seat is given while the race is not over and there is room, and   *)
(*     given up only by those who may leave; the race does not start       *)
(*     without anybody;                                                    *)
(*   - players cross the finish line one after the other, only while the   *)
(*     race is in progress, and the crossing order is never rewritten;     *)
(*   - the race ends once, with the results of those in the crossing       *)
(*     order who are still there, and nobody comes or goes afterwards;     *)
(*   - the OnFinish callback is handed the same results, once;             *)
(*   - Done is closed only after the callback has returned.                *)
(*                                                                         *)
(* RaceLoop implements this specification (RaceLoop!Lifecycle).            *)
(***************************************************************************)
EXTENDS Naturals, Sequences, FiniteSets

CONSTANTS Players, Leavers, MaxPlayers

VARIABLES
  phase,      \* the RaceStatus the rest of the server can read
  members,    \* the players who have a seat
  order,      \* players in the order they crossed the finish line
  evtResults, \* the results fixed at the instant the race ends
  reported,   \* what OnFinish has been given, call after call
  closed      \* whether Done is closed

vars == <<phase, members, order, evtResults, reported, closed>>

(***************************************************************************)
(* One line of a result list: who, and in which position.  The positions   *)
(* of players who left stay vacant.                                        *)
(***************************************************************************)
Standing(seq) == {[player |-> seq[i], position |-> i] : i \in DOMAIN seq}

Init ==
  /\ phase = "Pending"
  /\ members = {}
  /\ order = <<>>
  /\ evtResults = {}
  /\ reported = <<>>
  /\ closed = FALSE

Seat(p) ==
  /\ phase # "Finished"
  /\ Cardinality(members) < MaxPlayers
  /\ members' = members \cup {p}
  /\ UNCHANGED <<phase, order, evtResults, reported, closed>>

Leave(p) ==
  /\ phase # "Finished"
  /\ members' = members \ {p}
  /\ UNCHANGED <<phase, order, evtResults, reported, closed>>

Countdown ==
  /\ phase = "Pending"
  /\ members # {}
  /\ phase' = "Starting"
  /\ UNCHANGED <<members, order, evtResults, reported, closed>>

Go ==
  /\ phase = "Starting"
  /\ phase' = "InProgress"
  /\ UNCHANGED <<members, order, evtResults, reported, closed>>

Cross(p) ==
  /\ phase = "InProgress"
  /\ p \in members
  /\ order' = Append(order, p)
  /\ UNCHANGED <<phase, members, evtResults, reported, closed>>

End ==
  /\ phase # "Finished"
  /\ phase' = "Finished"
  /\ evtResults' = {line \in Standing(order) : line.player \in members}
  /\ UNCHANGED <<members, order, reported, closed>>

Report ==
  /\ phase = "Finished"
  /\ reported = <<>>
  /\ reported' = <<evtResults>>
  /\ UNCHANGED <<phase, members, order, evtResults, closed>>

Close ==
  /\ reported # <<>>
  /\ ~closed
  /\ closed' = TRUE
  /\ UNCHANGED <<phase, members, order, evtResults, reported>>

Next ==
  \/ Countdown \/ Go \/ End \/ Report \/ Close
  \/ \E p \in Players : Seat(p) \/ Cross(p)
  \/ \E p \in Leavers : Leave(p)

Spec == Init /\ [][Next]_vars
=============================================================================

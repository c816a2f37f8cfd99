--------------------------- MODULE MCRaceHistory ---------------------------
(***************************************************************************)
(* RaceHistory on a small instance: two old races and a late one, which    *)
(* finished between them; one race that ended without results.             *)
(***************************************************************************)
EXTENDS RaceHistory

CONSTANTS ana, ben, first, derby, last, oval

TwoPlayers == {ana, ben}
FourRaces  == {first, derby, last, oval}
OldRaces   == {first, last}
Derby      == {derby}

Places(S) == [p \in S |-> IF p = ana THEN 1 ELSE 2]

SomeResults ==
  [r \in FourRaces |->
     Places(CASE r = oval -> {} [] r = last -> {ana} [] OTHER -> TwoPlayers)]

Times == [r \in FourRaces |-> CASE r = first -> 1 [] r = last -> 3 [] OTHER -> 2]

(* The derby has a better lap of ben than the first race and a worse one   *)
(* of ana; no lap was measured in the last race.                           *)
SomeLaps ==
  [r \in FourRaces |->
     [p \in DOMAIN SomeResults[r] |->
        CASE r = first -> IF p = ana THEN 9 ELSE 10
          [] r = last  -> 0
          [] OTHER     -> IF p = ana THEN 12 ELSE 7]]
=============================================================================

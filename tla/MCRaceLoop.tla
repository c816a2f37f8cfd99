----------------------------- MODULE MCRaceLoop -----------------------------
(***************************************************************************)
(* RaceLoop on small instances.  A racer only uses the dispatcher, as in   *)
(* the deployed server; a guest also joins and leaves through the channels *)
(* of the Race.                                                            *)
(***************************************************************************)
EXTENDS RaceLoop

CONSTANTS racer, rival, guest

OneGuest == {guest}
RacerAndGuest == {racer, guest}
Everybody == {racer, rival, guest}
=============================================================================

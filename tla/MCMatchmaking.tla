--------------------------- MODULE MCMatchmaking ---------------------------
(***************************************************************************)
(* Matchmaking on small instances.                                         *)
(***************************************************************************)
EXTENDS Matchmaking

CONSTANTS ana, ben, cid, handler, other, verifier

OnePlayer   == {ana}
BothPlayers == {ana, ben}
OneHandler  == {handler}
TwoHandlers == {handler, other}
OneVerifier == {verifier}
Trio        == {ana, ben, cid}
NoVerifier  == {}
=============================================================================

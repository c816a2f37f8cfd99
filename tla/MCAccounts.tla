----------------------------- MODULE MCAccounts -----------------------------
(***************************************************************************)
(* Accounts on a small instance: clients with one address, spelt in two    *)
(* ways, a password of 72 bytes, one that goes on after those 72 bytes and *)
(* cannot be stored, and one that cannot be mistaken for either.           *)
(***************************************************************************)
EXTENDS Accounts

CONSTANTS ana, ben, mail, MAIL, junk, good, long, other

TwoClients == {ana, ben}
OneEmail   == {mail}
Spellings  == {mail, MAIL, junk}
Parsed     == [i \in Spellings |-> IF i = junk THEN {} ELSE {mail}]
Some       == {good, long, other}
Bytes      == [p \in Some |-> CASE p = good -> 72 [] p = long -> 73 [] p = other -> 8]
Prefix     == [p \in Some |-> IF p = long THEN good ELSE p]
=============================================================================

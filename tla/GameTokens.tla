----------------------------- MODULE GameTokens -----------------------------
(***************************************************************************)
(* What game tokens promise to those who hand them out and to those who    *)
(* take them, with the table, its statements, their failures and the clock *)
(* left out: nobody holds a token that was not issued, an admission uses a *)
(* token up in one step, and a token that is used up, or was lost on the   *)
(* way, admits again only after it was issued again.                       *)
(*                                                                         *)
(* Matchmaking implements this specification (Matchmaking!GameTokens), and *)
(* GameServer works on it, one token per ticket (GameServer!GameTokens).   *)
(***************************************************************************)
EXTENDS Naturals

CONSTANT Tokens

VARIABLES
  held,     \* tokens in the hands of clients
  fresh,    \* tokens that would be accepted
  admitted  \* how often each token was accepted that was accepted at all

vars == <<held, fresh, admitted>>

Admissions(t) == IF t \in DOMAIN admitted THEN admitted[t] ELSE 0

Init ==
  /\ held \subseteq Tokens
  /\ fresh = held
  /\ admitted = [t \in {} |-> 0]

(* Two clients may be handed equal tokens, or one the same again; nobody   *)
(* may be, when the answer is lost.                                        *)
Issue(t) ==
  /\ fresh' = fresh \cup {t}
  /\ held' \in {held, held \cup {t}}
  /\ UNCHANGED admitted

Admit(t) ==
  /\ t \in held \cap fresh
  /\ fresh' = fresh \ {t}
  /\ admitted' = [u \in DOMAIN admitted \cup {t} |->
                    IF u = t THEN Admissions(t) + 1 ELSE admitted[u]]
  /\ UNCHANGED held

Lose(t) ==
  /\ t \in fresh
  /\ fresh' = fresh \ {t}
  /\ UNCHANGED <<held, admitted>>

(* A step is about a token that is fresh before it or after it.            *)
Next == \E t \in (fresh \cup fresh') \cap Tokens : Issue(t) \/ Admit(t) \/ Lose(t)

Spec == Init /\ [][Next]_vars
=============================================================================

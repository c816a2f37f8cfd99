---------------------------- MODULE AccountStore ----------------------------
(***************************************************************************)
(* What the accounts promise to a client, with tables, transactions and    *)
(* failures left out: an account comes into being whole, under the email   *)
(* and the hash of the password its client has sent, and is never changed; *)
(* a token is that of the account with the email that was sent and the     *)
(* hash of the password that was sent, and a guest, who sends neither,     *)
(* gets that of an account made for it.                                    *)
(*                                                                         *)
(* Accounts implements this specification (Accounts!Store).                *)
(***************************************************************************)
CONSTANTS Clients, Ids, Emails, Hashes

VARIABLES
  accounts,  \* a user, its player, what it logs in with, and who asked for it
  sent,      \* the email and the hash of what each client has sent last
  tokens     \* what each client was given last

vars == <<accounts, sent, tokens>>

Init ==
  /\ accounts = {}
  /\ sent = [c \in Clients |-> [email |-> {}, hash |-> {}]]
  /\ tokens = [c \in Clients |-> {}]

Send(c) ==
  /\ \E e \in SUBSET Emails, h \in SUBSET Hashes :
       sent' = [sent EXCEPT ![c] = [email |-> e, hash |-> h]]
  /\ UNCHANGED <<accounts, tokens>>

Create(c) ==
  /\ \E u, p \in Ids :
       /\ \A a \in accounts : a.user # u /\ a.player # p
       /\ accounts' = accounts \cup {[by |-> c, user |-> u, player |-> p,
                                      email |-> sent[c].email, hash |-> sent[c].hash]}
  /\ \A a \in accounts : a.email # {} => a.email # sent[c].email
  /\ UNCHANGED <<sent, tokens>>

Issue(c) ==
  /\ \E a \in accounts :
       /\ a.email = sent[c].email /\ a.hash = sent[c].hash
       /\ a.email = {} => a.by = c
       /\ tokens' = [tokens EXCEPT ![c] = {[user |-> a.user, player |-> a.player]}]
  /\ UNCHANGED <<accounts, sent>>

Next == \E c \in Clients : Send(c) \/ Create(c) \/ Issue(c)

Spec == Init /\ [][Next]_vars
=============================================================================

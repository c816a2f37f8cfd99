--------------------------- MODULE AccountsProofs ---------------------------
(***************************************************************************)
(* Theorems about Accounts, for any number of clients, requests,           *)
(* connections and failures.                                               *)
(***************************************************************************)
EXTENDS Accounts, FiniteSetTheorems, TLAPS

Statuses == {0, 200, 400, 401, 404, 409, 500, 501}
Labels   == Statement \cup {"idle", "token", "answered"}
Ops      == {"none", "register", "login", "guest", "me"}
Fields   == {"pc", "op", "email", "password", "user", "player", "status", "failed", "known"}
Pending  == InTx \cup {"begin"}

-----------------------------------------------------------------------------
(* Requests.  One field is set and the others are left alone; what an      *)
(* EXCEPT with several fields does follows from its steps.                 *)

Sets(q, r, f, x) == q \in Request /\ q[f] = x /\ \A g \in Fields \ {f} : q[g] = r[g]

LEMMA RequestFields ==
  ASSUME NEW r \in Request
  PROVE  /\ r.pc \in Labels /\ r.op \in Ops
         /\ r.email \in SUBSET Emails /\ r.password \in SUBSET Passwords
         /\ r.user \in SUBSET Ids /\ r.player \in SUBSET Ids
         /\ r.status \in Statuses /\ r.failed \in BOOLEAN /\ r.known \in BOOLEAN
BY DEF Request, Labels, Ops, Statuses

LEMMA LabelSet ==
  ASSUME NEW r \in Request, NEW x \in Labels PROVE Sets([r EXCEPT !.pc = x], r, "pc", x)
BY DEF Request, Sets, Fields, Labels

LEMMA OpSet ==
  ASSUME NEW r \in Request, NEW x \in Ops PROVE Sets([r EXCEPT !.op = x], r, "op", x)
BY DEF Request, Sets, Fields, Ops

LEMMA EmailSet ==
  ASSUME NEW r \in Request, NEW x \in SUBSET Emails
  PROVE  Sets([r EXCEPT !.email = x], r, "email", x)
BY DEF Request, Sets, Fields

LEMMA PasswordSet ==
  ASSUME NEW r \in Request, NEW x \in SUBSET Passwords
  PROVE  Sets([r EXCEPT !.password = x], r, "password", x)
BY DEF Request, Sets, Fields

LEMMA UserSet ==
  ASSUME NEW r \in Request, NEW x \in SUBSET Ids PROVE Sets([r EXCEPT !.user = x], r, "user", x)
BY DEF Request, Sets, Fields

LEMMA PlayerSet ==
  ASSUME NEW r \in Request, NEW x \in SUBSET Ids
  PROVE  Sets([r EXCEPT !.player = x], r, "player", x)
BY DEF Request, Sets, Fields

LEMMA StatusSet ==
  ASSUME NEW r \in Request, NEW x \in Statuses
  PROVE  Sets([r EXCEPT !.status = x], r, "status", x)
BY DEF Request, Sets, Fields, Statuses

LEMMA FailedSet ==
  ASSUME NEW r \in Request, NEW x \in BOOLEAN
  PROVE  Sets([r EXCEPT !.failed = x], r, "failed", x)
BY DEF Request, Sets, Fields

LEMMA KnownSet ==
  ASSUME NEW r \in Request, NEW x \in BOOLEAN
  PROVE  Sets([r EXCEPT !.known = x], r, "known", x)
BY DEF Request, Sets, Fields

(* What a client has sent stays as it is while the request is handled.     *)
Copies(q, r) ==
  /\ q \in Request
  /\ q.op = r.op /\ q.email = r.email /\ q.password = r.password /\ q.known = r.known

Goes(q, r, label) ==
  Copies(q, r) /\ q.pc = label /\ q.user = r.user /\ q.player = r.player

LEMMA LabelGoes ==
  ASSUME NEW r \in Request, NEW x \in Labels
  PROVE  LET q == [r EXCEPT !.pc = x]
         IN  Goes(q, r, x) /\ q.status = r.status /\ q.failed = r.failed
<1>1. Sets([r EXCEPT !.pc = x], r, "pc", x)
  BY LabelSet
<1> QED BY <1>1 DEF Goes, Copies, Sets, Fields

LEMMA FailedGoes ==
  ASSUME NEW r \in Request
  PROVE  LET q == [r EXCEPT !.failed = TRUE]
         IN  Goes(q, r, r.pc) /\ q.status = r.status /\ q.failed = TRUE
<1>1. Sets([r EXCEPT !.failed = TRUE], r, "failed", TRUE)
  BY FailedSet
<1> QED BY <1>1 DEF Goes, Copies, Sets, Fields

LEMMA AnswerGoes ==
  ASSUME NEW r \in Request, NEW s \in Statuses
  PROVE  LET q == Answer(r, s)
         IN  Goes(q, r, "answered") /\ q.status = s /\ q.failed = r.failed
<1>1. PICK a : a = [r EXCEPT !.pc = "answered"]
  OBVIOUS
<1>2. Answer(r, s) = [a EXCEPT !.status = s]
  BY <1>1 DEF Answer, Request
<1>3. Sets(a, r, "pc", "answered")
  BY <1>1, LabelSet DEF Labels
<1>4. Sets(Answer(r, s), a, "status", s)
  BY <1>2, <1>3, StatusSet DEF Sets
<1> QED BY <1>3, <1>4 DEF Goes, Copies, Sets, Fields

WithUser(r, label, u)   == [r EXCEPT !.pc = label, !.user = u]
WithPlayer(r, label, p) == [r EXCEPT !.pc = label, !.player = p]

LEMMA UserGoes ==
  ASSUME NEW r \in Request, NEW label \in Labels, NEW u \in SUBSET Ids,
         NEW q, q = WithUser(r, label, u)
  PROVE  /\ Copies(q, r) /\ q.pc = label /\ q.user = u
         /\ q.player = r.player /\ q.status = r.status /\ q.failed = r.failed
<1>1. PICK a : a = [r EXCEPT !.pc = label]
  OBVIOUS
<1>2. Sets(a, r, "pc", label)
  BY <1>1, LabelSet
<1>3. q = [a EXCEPT !.user = u]
  BY <1>1 DEF WithUser, Request
<1>4. a \in Request
  BY <1>2 DEF Sets
<1>5. Sets(q, a, "user", u)
  BY <1>3, <1>4, UserSet
<1> QED BY <1>2, <1>5 DEF Copies, Sets, Fields

LEMMA PlayerGoes ==
  ASSUME NEW r \in Request, NEW label \in Labels, NEW p \in SUBSET Ids,
         NEW q, q = WithPlayer(r, label, p)
  PROVE  /\ Copies(q, r) /\ q.pc = label /\ q.player = p
         /\ q.user = r.user /\ q.status = r.status /\ q.failed = r.failed
<1>1. PICK a : a = [r EXCEPT !.pc = label]
  OBVIOUS
<1>2. Sets(a, r, "pc", label)
  BY <1>1, LabelSet
<1>3. q = [a EXCEPT !.player = p]
  BY <1>1 DEF WithPlayer, Request
<1>4. a \in Request
  BY <1>2 DEF Sets
<1>5. Sets(q, a, "player", p)
  BY <1>3, <1>4, PlayerSet
<1> QED BY <1>2, <1>5 DEF Copies, Sets, Fields

(* After an error a login goes on without its touch, and every other       *)
(* request is answered.                                                    *)
LEMMA AfterErrorIs ==
  ASSUME NEW r \in Request, r.pc \in Statement
  PROVE  LET q == AfterError(r)
         IN  /\ q.failed = r.failed
             /\ \/ r.pc = "touch" /\ Goes(q, r, "token") /\ q.status = r.status
                \/ r.pc # "touch" /\ Goes(q, r, "answered") /\ q.status \in {401, 404, 500}
<1>1. CASE r.pc = "touch"
  <2>1. AfterError(r) = [r EXCEPT !.pc = "token"]
    BY <1>1 DEF AfterError
  <2> QED BY <1>1, <2>1, LabelGoes DEF Labels
<1>2. CASE r.pc # "touch"
  <2>1. PICK s \in {401, 404, 500} : AfterError(r) = Answer(r, s)
    BY <1>2 DEF AfterError
  <2> QED BY <1>2, <2>1, AnswerGoes DEF Statuses
<1> QED BY <1>1, <1>2

-----------------------------------------------------------------------------
(* What a client asks for, before the first statement.                     *)
New(c, q) ==
  /\ q \in Request /\ q.pc \in {"answered", "begin", "lookup", "me"}
  /\ ~q.failed /\ q.status \notin {200, 409} /\ (q.pc # "answered" => q.status = 0)
  /\ q.pc = "begin"  => q.op \in {"register", "guest"}
  /\ q.pc = "lookup" => q.op = "login" /\ q.email # {}
  /\ q.pc = "me"     => q.op = "me"
  /\ \A p \in q.password : q.password = {p}
  /\ q.known => /\ q.op \in {"login", "me"} /\ (q.pc = "answered" => pool = "none")
                /\ q.pc = "lookup" => \E p \in q.password : Matches(q.email, p)
                /\ q.pc = "me" => \E t \in tokens[c] : t.user \in q.user /\ t.player \in q.player
  /\ q.status = 500 => \E p \in q.password : ValidPassword(p) /\ ~Hashable(p)

LEMMA EmailType == \A i \in Inputs : NormalizeEmail(i) \in SUBSET Emails
BY AccountsAssumption DEF NormalizeEmail

LEMMA HashType ==
  ASSUME NEW w \in SUBSET Passwords PROVE HashPassword(w) \in SUBSET Passwords
BY AccountsAssumption DEF HashPassword

(* The requests Ask makes of no request.                                   *)
LEMMA NoRequestIs ==
  /\ NoRequest \in Request
  /\ NoRequest.pc = "idle" /\ NoRequest.password = {} /\ NoRequest.status = 0
  /\ NoRequest.failed = FALSE /\ NoRequest.known = FALSE
BY DEF NoRequest, Request

Credentials(o, e, w) == [NoRequest EXCEPT !.op = o, !.email = e, !.password = w]

LEMMA CredentialsAre ==
  ASSUME NEW o \in Ops, NEW e \in SUBSET Emails, NEW w \in SUBSET Passwords
  PROVE  LET q == Credentials(o, e, w)
         IN  /\ q \in Request /\ q.op = o /\ q.email = e /\ q.password = w
             /\ q.status = 0 /\ ~q.failed /\ ~q.known
<1>1. PICK r \in Request : r = NoRequest
  BY NoRequestIs
<1>2. PICK a : a = [r EXCEPT !.op = o]
  OBVIOUS
<1>3. PICK b : b = [a EXCEPT !.email = e]
  OBVIOUS
<1>4. PICK q : q = Credentials(o, e, w)
  OBVIOUS
<1>5. Sets(a, r, "op", o)
  BY <1>2, OpSet
<1>6. Sets(b, a, "email", e)
  <2>1. a \in Request
    BY <1>5 DEF Sets
  <2> QED BY <1>3, <2>1, EmailSet
<1>7. q = [b EXCEPT !.password = w]
  <2>1. q = [r EXCEPT !.op = o, !.email = e, !.password = w]
    BY <1>1, <1>4 DEF Credentials
  <2> QED BY <1>2, <1>3, <2>1 DEF Request
<1>8. b \in Request
  BY <1>6 DEF Sets
<1>9. Sets(q, b, "password", w)
  BY <1>7, <1>8, PasswordSet
<1> QED BY <1>1, <1>4, <1>5, <1>6, <1>9, NoRequestIs DEF Sets, Fields

LEMMA RegisterNew ==
  ASSUME NEW c \in Clients, NEW i \in Inputs, NEW p \in Passwords, Register(c, i, p)
  PROVE  \E q : New(c, q) /\ Accept(c, q)
<1>1. PICK r : r = [NoRequest EXCEPT !.op = "register", !.email = NormalizeEmail(i),
                                    !.password = {p}]
  OBVIOUS
<1>2. /\ r \in Request /\ r.email = NormalizeEmail(i)
      /\ r.op = "register" /\ r.password = {p} /\ ~r.failed /\ ~r.known /\ r.status = 0
  <2>1. r = Credentials("register", NormalizeEmail(i), {p})
    BY <1>1 DEF Credentials
  <2>2. "register" \in Ops /\ NormalizeEmail(i) \in SUBSET Emails /\ {p} \in SUBSET Passwords
    BY EmailType DEF Ops
  <2> QED BY <2>1, <2>2, CredentialsAre
<1>3. PICK q : Accept(c, q) /\ q = IF pool = "none" THEN Answer(r, 501)
                                   ELSE IF r.email = {} \/ ~ValidPassword(p) THEN Answer(r, 400)
                                   ELSE IF ~Hashable(p) THEN Answer(r, 500)
                                   ELSE [r EXCEPT !.pc = "begin"]
  BY <1>1 DEF Register
<1>4. New(c, Answer(r, 501)) /\ New(c, Answer(r, 400))
  BY <1>2, AnswerGoes DEF New, Goes, Copies, Statuses
<1>5. ValidPassword(p) /\ ~Hashable(p) => New(c, Answer(r, 500))
  BY <1>2, AnswerGoes DEF New, Goes, Copies, Statuses
<1>6. New(c, [r EXCEPT !.pc = "begin"])
  BY <1>2, LabelGoes DEF New, Goes, Copies, Labels, Statement
<1>7. New(c, q)
  <2>1. CASE q \in {Answer(r, 501), Answer(r, 400)}
    BY <1>4, <2>1
  <2>2. CASE q = Answer(r, 500) /\ ValidPassword(p) /\ ~Hashable(p)
    BY <1>5, <2>2
  <2>3. CASE q = [r EXCEPT !.pc = "begin"]
    BY <1>6, <2>3
  <2> QED BY <1>3, <2>1, <2>2, <2>3
<1> QED BY <1>3, <1>7

LEMMA LoginNew ==
  ASSUME NEW c \in Clients, NEW i \in Inputs, NEW p \in Passwords, Login(c, i, p)
  PROVE  \E q : New(c, q) /\ Accept(c, q)
<1>1. PICK r : r = [NoRequest EXCEPT !.op = "login", !.email = NormalizeEmail(i),
                                    !.password = {p},
                                    !.known = Matches(NormalizeEmail(i), p)]
  OBVIOUS
<1>2. PICK b \in BOOLEAN : b = Matches(NormalizeEmail(i), p)
  BY DEF Matches
<1>3. /\ r \in Request /\ r.op = "login" /\ r.password = {p} /\ ~r.failed /\ r.status = 0
      /\ r.email = NormalizeEmail(i) /\ r.known = b
  <2>1. PICK a : a = [NoRequest EXCEPT !.op = "login", !.email = NormalizeEmail(i),
                                    !.password = {p}]
    OBVIOUS
  <2>2. /\ a \in Request /\ a.op = "login" /\ a.email = NormalizeEmail(i) /\ a.password = {p}
        /\ a.status = 0 /\ ~a.failed
    <3>1. a = Credentials("login", NormalizeEmail(i), {p})
      BY <2>1 DEF Credentials
    <3>2. "login" \in Ops /\ NormalizeEmail(i) \in SUBSET Emails /\ {p} \in SUBSET Passwords
      BY EmailType DEF Ops
    <3> QED BY <3>1, <3>2, CredentialsAre
  <2>3. r = [a EXCEPT !.known = b]
    BY <1>1, <1>2, <2>1, NoRequestIs DEF Request
  <2> QED BY <2>2, <2>3, KnownSet DEF Sets, Fields
<1>4. PICK q : Accept(c, q) /\ q = IF pool = "none" THEN Answer(r, 501)
                                   ELSE IF r.email = {} THEN Answer(r, 401)
                                   ELSE [r EXCEPT !.pc = "lookup"]
  BY <1>1 DEF Login
<1>5. r.known => r.email # {} /\ Matches(r.email, p)
  BY <1>2, <1>3 DEF Matches
<1>6. pool = "none" => New(c, Answer(r, 501))
  BY <1>3, AnswerGoes DEF New, Goes, Copies, Statuses
<1>7. r.email = {} => New(c, Answer(r, 401))
  BY <1>3, <1>5, AnswerGoes DEF New, Goes, Copies, Statuses
<1>8. r.email # {} => New(c, [r EXCEPT !.pc = "lookup"])
  BY <1>3, <1>5, LabelGoes DEF New, Goes, Copies, Labels, Statement
<1>9. New(c, q)
  BY <1>4, <1>6, <1>7, <1>8
<1> QED BY <1>4, <1>9

LEMMA GuestNew ==
  ASSUME NEW c \in Clients, Guest(c)
  PROVE  \E q : New(c, q) /\ Accept(c, q)
<1>1. PICK r : r = [NoRequest EXCEPT !.op = "guest"]
  OBVIOUS
<1>2. r \in Request
  BY <1>1, NoRequestIs, OpSet DEF Ops, Sets
<1>3. r.op = "guest" /\ r.password = {} /\ ~r.failed /\ ~r.known /\ r.status = 0
  BY <1>1, NoRequestIs, OpSet DEF Ops, Sets, Fields
<1>4. Accept(c, IF pool = "none" THEN Answer(r, 501) ELSE [r EXCEPT !.pc = "begin"])
  BY <1>1 DEF Guest
<1>5. New(c, Answer(r, 501))
  BY <1>2, <1>3, AnswerGoes DEF New, Goes, Copies, Statuses
<1>6. New(c, [r EXCEPT !.pc = "begin"])
  BY <1>2, <1>3, LabelGoes DEF New, Goes, Copies, Labels, Statement
<1> QED BY <1>4, <1>5, <1>6

LEMMA MeNew ==
  ASSUME NEW c \in Clients, NEW ts \in SUBSET Token, ts \subseteq tokens[c], Me(c, ts)
  PROVE  \E q : New(c, q) /\ Accept(c, q)
<1>1. PICK us \in SUBSET Ids, ps \in SUBSET Ids, b \in BOOLEAN :
        us = {t.user : t \in ts} /\ ps = {t.player : t \in ts} /\ b = (ts # {})
  BY DEF Token
<1>2. PICK r : r = [NoRequest EXCEPT !.op = "me", !.known = ts # {}, !.user = {t.user : t \in ts},
                                    !.player = {t.player : t \in ts}]
  OBVIOUS
<1>3. /\ r \in Request /\ r.op = "me" /\ r.password = {} /\ ~r.failed /\ r.status = 0
      /\ r.known = b /\ r.user = us /\ r.player = ps
  <2>1. PICK a : a = [NoRequest EXCEPT !.op = "me"]
    OBVIOUS
  <2>2. PICK d : d = [a EXCEPT !.known = b]
    OBVIOUS
  <2>3. PICK e : e = [d EXCEPT !.user = us]
    OBVIOUS
  <2>4. r = [e EXCEPT !.player = ps]
    BY <1>1, <1>2, <2>1, <2>2, <2>3, NoRequestIs DEF Request
  <2>5. Sets(a, NoRequest, "op", "me")
    BY <2>1, NoRequestIs, OpSet DEF Ops
  <2>6. Sets(d, a, "known", b)
    BY <2>2, <2>5, KnownSet DEF Sets
  <2>7. Sets(e, d, "user", us)
    BY <2>3, <2>6, UserSet DEF Sets
  <2>8. Sets(r, e, "player", ps)
    BY <2>4, <2>7, PlayerSet DEF Sets
  <2> QED BY <2>5, <2>6, <2>7, <2>8, NoRequestIs DEF Sets, Fields
<1>4. b => ts # {} /\ \E t \in tokens[c] : t.user \in us /\ t.player \in ps
  BY <1>1
<1>5. PICK q : Accept(c, q) /\ q = IF pool = "none" THEN Answer(r, 404)
                                   ELSE IF ts = {} THEN Answer(r, 401)
                                   ELSE [r EXCEPT !.pc = "me"]
  <2> DEFINE d == [NoRequest EXCEPT !.op = "me", !.known = ts # {}, !.user = {t.user : t \in ts},
                                    !.player = {t.player : t \in ts}]
  <2>1. Accept(c, IF pool = "none" THEN Answer(d, 404)
                  ELSE IF ts = {} THEN Answer(d, 401)
                  ELSE [d EXCEPT !.pc = "me"])
    BY DEF Me
  <2>2. r = d
    BY <1>2
  <2> HIDE DEF d
  <2> QED BY <2>1, <2>2
<1>6. pool = "none" => New(c, Answer(r, 404))
  BY <1>3, AnswerGoes DEF New, Goes, Copies, Statuses
<1>7. ts = {} => New(c, Answer(r, 401))
  BY <1>3, <1>4, AnswerGoes DEF New, Goes, Copies, Statuses
<1>8. New(c, [r EXCEPT !.pc = "me"])
  BY <1>3, <1>4, LabelGoes DEF New, Goes, Copies, Labels, Statement
<1>9. New(c, q)
  BY <1>5, <1>6, <1>7, <1>8
<1> QED BY <1>5, <1>9

LEMMA AskNew ==
  ASSUME TypeOK, NEW c \in Clients, Ask(c)
  PROVE  \E q : New(c, q) /\ Accept(c, q)
<1>1. {} \in SUBSET Token /\ {} \subseteq tokens[c] /\ tokens[c] \in SUBSET Token
  BY DEF TypeOK
<1> QED BY <1>1, RegisterNew, LoginNew, GuestNew, MeNew DEF Ask

-----------------------------------------------------------------------------
(* The inductive invariant.                                                *)

(* The request at a statement is one the client has made.                  *)
Begun == \A c \in Clients : req[c].pc \in Statement => asked[c] >= 1

(* The account of a request is in the database.                            *)
Stored(c) ==
  \E u \in users : /\ req[c].user = {u.id}
                   /\ u.email = req[c].email /\ VerifyPassword(u.hash, req[c].password)
                   /\ req[c].pc \in {"touch", "token"} =>
                        \A p \in req[c].player : [id |-> p, user |-> u.id] \in players

(* What a request has done when it is at each of its statements.           *)
Progress(c) ==
  LET r == req[c] IN
  /\ r.pc # "answered" => r.status = 0
  /\ r.pc \in Pending => r.op \in {"register", "guest"}
  /\ r.pc \in {"player", "commit"} => r.user = {Id(c)}
  /\ r.pc = "commit" => r.player = {Id(c)}
  /\ r.pc \in {"lookup", "find", "touch"} => r.op = "login"
  /\ r.pc \in {"lookup", "find", "touch"} => r.email # {}
  /\ r.pc \in {"touch", "token"} => r.player # {}
  /\ r.pc = "token" => r.op # "me" /\ (r.user = {Id(c)} \/ r.email # {})
  /\ r.pc = "me" => r.op = "me"
  /\ r.pc \in {"find", "touch", "token"} => Stored(c)
  /\ r.status = 200 /\ r.op # "me" => Stored(c)

(* A player for each user, ids and emails used once, and neither by a      *)
(* transaction that is still to commit.                                    *)
Paired == players = {[id |-> u.id, user |-> u.id] : u \in users}

UsedOnce ==
  \A u, v \in users : u.id = v.id \/ (u.email = v.email /\ u.email # {}) => u = v

IdsAhead ==
  /\ \A c \in Clients, n \in 1..AskBound, u \in users : u.id = <<c, n>> => n <= asked[c]
  /\ \A c \in Clients, u \in users : req[c].pc \in Pending => u.id # Id(c)

EmailsAhead ==
  /\ \A c \in Clients : req[c].pc \in {"player", "commit"} => ~Taken(c)
  /\ \A c, d \in Clients :
       /\ req[c].pc \in {"player", "commit"} /\ req[d].pc \in {"player", "commit"}
       /\ req[c].email = req[d].email /\ req[c].email # {}
       => c = d

Rows == Paired /\ UsedOnce /\ IdsAhead /\ EmailsAhead

TokensStored ==
  \A c \in Clients : \A t \in tokens[c] : [id |-> t.player, user |-> t.user] \in players

(* Where the server stands.  A pool that was closed in good order finds no *)
(* request half done, and none is accepted any more.                       *)
Server ==
  /\ proc \in {"loading", "connecting"} => pool = "none" /\ \A c \in Clients : req[c].pc = "idle"
  /\ proc \notin {"loading", "exited"} => signing
  /\ pool = "closed" => proc \in {"closing", "exited"} /\ (drained => Quiet)

(* What a request of the right client is sure of, at each statement.       *)
Merits(c) ==
  LET r == req[c] IN
  /\ r.status = 409 => \E u \in users : u.email = r.email
  /\ r.known => r.op \in {"login", "me"}
  /\ ~r.failed /\ drained =>
       /\ r.known => /\ r.pc = "lookup" =>
                          \E u \in users : u.email = r.email /\ VerifyPassword(u.hash, r.password)
                     /\ r.pc = "me" => Profile(c) # {}
                     /\ r.pc = "answered" /\ pool # "none" => r.status = 200
       /\ r.status = 500 => \E p \in r.password : ValidPassword(p) /\ ~Hashable(p)

Inv ==
  /\ TypeOK /\ Begun /\ Rows /\ TokensStored /\ Server
  /\ \A c \in Clients : Progress(c) /\ Merits(c)

-----------------------------------------------------------------------------
(* What a request's statement comes to: q is the request afterwards.       *)

Moves(c, q) ==
  /\ Running /\ req[c].pc \in Statement \cup {"token"}
  /\ req' = [req EXCEPT ![c] = q] /\ Copies(q, req[c])
  /\ UNCHANGED <<main, asked>> /\ faults' \in 0..FaultBound

(* It goes on, and leaves the database as it was but for a login's touch.  *)
Going(c, q) ==
  /\ Moves(c, q) /\ UNCHANGED <<tokens, users, players>> /\ touched' \subseteq Ids
  /\ q.status = req[c].status
  /\ \/ req[c].pc = "begin" /\ q.pc = "user"
     \/ /\ req[c].pc = "user" /\ q.pc = "player" /\ q.user = {Id(c)}
        /\ ~Taken(c) /\ ~Waits(c)
     \/ req[c].pc = "player" /\ q.pc = "commit" /\ q.user = req[c].user /\ q.player = {Id(c)}
     \/ /\ req[c].pc = "lookup" /\ q.pc = "find"
        /\ \E u \in users : /\ q.user = {u.id} /\ u.email = q.email
                            /\ VerifyPassword(u.hash, q.password)
     \/ /\ req[c].pc = "find" /\ q.pc = "touch" /\ q.user = req[c].user
        /\ \E p \in players : p.user \in q.user /\ q.player = {p.id}
     \/ /\ req[c].pc = "touch" /\ q.pc = "token"
        /\ q.user = req[c].user /\ q.player = req[c].player

(* It commits, and may not hear of it.                                     *)
Committing(c, q) ==
  /\ Moves(c, q) /\ CommitRows(c)
  /\ req[c].pc = "commit" /\ q.user = req[c].user /\ q.player = req[c].player
  /\ \/ q.pc = "token" /\ q.status = 0
     \/ q.pc = "answered" /\ q.failed /\ q.status \in {401, 404, 500}

(* It is given its token.                                                  *)
Issued(c) == {[user |-> u, player |-> p] : u \in req[c].user, p \in req[c].player}

Issuing(c, q) ==
  /\ Moves(c, q) /\ UNCHANGED db
  /\ req[c].pc = "token" /\ q.pc = "answered" /\ q.status = 200
  /\ q.user = req[c].user /\ q.player = req[c].player
  /\ tokens' = [tokens EXCEPT ![c] = Issued(c)]

(* It is answered, and nothing else is changed.                            *)
Answering(c, q) ==
  /\ Moves(c, q) /\ UNCHANGED <<tokens, db>>
  /\ req[c].pc \in Statement /\ q.pc = "answered" /\ q.status \in {200, 401, 404, 409, 500}
  /\ q.status = 200 => req[c].op = "me"
  /\ q.status = 409 => Taken(c)
  /\ ~q.failed /\ drained => (q.known => q.status = 200) /\ q.status # 500

Outcome(c, q) == Going(c, q) \/ Committing(c, q) \/ Issuing(c, q) \/ Answering(c, q)

LEMMA RequestType == ASSUME TypeOK, NEW c \in Clients PROVE req[c] \in Request
BY DEF TypeOK

LEMMA IdType ==
  ASSUME TypeOK, Begun, NEW c \in Clients, req[c].pc \in Statement
  PROVE  Id(c) \in Ids
BY AccountsAssumption DEF TypeOK, Begun, Id, Ids

(* A statement that is carried out.                                        *)
LEMMA StepMoves ==
  ASSUME TypeOK, NEW c \in Clients, NEW label \in Statement \cup {"token"}, NEW q,
         Copies(q, req[c]), Step(c, label, q)
  PROVE  Moves(c, q) /\ req[c].pc = label
BY DEF TypeOK, Moves, Step

LEMMA BeginTxOutcome ==
  ASSUME Inv, NEW c \in Clients, BeginTx(c) PROVE \E q : Outcome(c, q)
<1>1. PICK q : q = [req[c] EXCEPT !.pc = "user"] /\ Step(c, "begin", q)
  BY DEF BeginTx
<1>2. Goes(q, req[c], "user") /\ q.status = req[c].status
  BY <1>1, RequestType, LabelGoes DEF Inv, Labels, Statement, InTx
<1>3. Moves(c, q) /\ req[c].pc = "begin"
  BY <1>1, <1>2, StepMoves DEF Inv, Goes, Statement
<1> QED BY <1>2, <1>3 DEF Outcome, Going, Goes, BeginTx, db, Inv, TypeOK

LEMMA InsertUserOutcome ==
  ASSUME Inv, NEW c \in Clients, InsertUser(c) PROVE \E q : Outcome(c, q)
<1>1. PICK q : /\ Step(c, "user", q)
               /\ q = IF Taken(c) THEN Answer(req[c], 409)
                      ELSE [req[c] EXCEPT !.pc = "player", !.user = {Id(c)}]
  BY DEF InsertUser
<1>2. req[c] \in Request /\ req[c].pc = "user"
  BY <1>1, RequestType DEF Inv, Step
<1>3. Id(c) \in Ids
  BY <1>2, IdType DEF Inv, Statement, InTx
<1>4. UNCHANGED <<tokens, users, players, touched>> /\ touched' \subseteq Ids
  BY DEF InsertUser, Inserted, Inv, TypeOK
<1>5. CASE Taken(c)
  <2>1. Goes(q, req[c], "answered") /\ q.status = 409
    BY <1>1, <1>2, <1>5, AnswerGoes DEF Statuses
  <2>2. Moves(c, q)
    BY <1>1, <2>1, StepMoves DEF Inv, Goes, Statement, InTx
  <2>3. ~req[c].known
    BY <1>2 DEF Inv, Progress, Merits, Pending, InTx
  <2> QED BY <1>2, <1>4, <1>5, <2>1, <2>2, <2>3
          DEF Outcome, Answering, Goes, Copies, Statement, InTx, db
<1>6. CASE ~Taken(c)
  <2>1. {Id(c)} \in SUBSET Ids /\ "player" \in Labels
    BY <1>3 DEF Labels, Statement, InTx
  <2>2. /\ Copies(q, req[c]) /\ q.pc = "player" /\ q.user = {Id(c)}
        /\ q.status = req[c].status
    <3>1. q = WithUser(req[c], "player", {Id(c)})
      BY <1>1, <1>6 DEF WithUser
    <3> QED BY <1>2, <2>1, <3>1, UserGoes
  <2>3. Moves(c, q)
    BY <1>1, <2>2, StepMoves DEF Inv, Statement, InTx
  <2> QED BY <1>2, <1>4, <1>6, <2>2, <2>3 DEF Outcome, Going, InsertUser
<1> QED BY <1>5, <1>6

LEMMA InsertPlayerOutcome ==
  ASSUME Inv, NEW c \in Clients, InsertPlayer(c) PROVE \E q : Outcome(c, q)
<1>1. PICK q : q = [req[c] EXCEPT !.pc = "commit", !.player = {Id(c)}] /\ Step(c, "player", q)
  BY DEF InsertPlayer
<1>2. req[c] \in Request /\ req[c].pc = "player"
  BY <1>1, RequestType DEF Inv, Step
<1>3. {Id(c)} \in SUBSET Ids /\ "commit" \in Labels
  BY <1>2, IdType DEF Inv, Labels, Statement, InTx
<1>4. /\ Copies(q, req[c]) /\ q.pc = "commit" /\ q.player = {Id(c)}
      /\ q.user = req[c].user /\ q.status = req[c].status
  <2>1. q = WithPlayer(req[c], "commit", {Id(c)})
    BY <1>1 DEF WithPlayer
  <2> QED BY <1>2, <1>3, <2>1, PlayerGoes
<1>5. Moves(c, q)
  BY <1>1, <1>4, StepMoves DEF Inv, Statement, InTx
<1> QED BY <1>2, <1>4, <1>5 DEF Outcome, Going, InsertPlayer, db, Inv, TypeOK

LEMMA CommitOutcome ==
  ASSUME Inv, NEW c \in Clients, Commit(c) PROVE \E q : Outcome(c, q)
<1>1. PICK q : q = [req[c] EXCEPT !.pc = "token"] /\ Step(c, "commit", q)
  BY DEF Commit
<1>2. Goes(q, req[c], "token") /\ q.status = req[c].status
  BY <1>1, RequestType, LabelGoes DEF Inv, Labels
<1>3. Moves(c, q) /\ req[c].pc = "commit"
  BY <1>1, <1>2, StepMoves DEF Inv, Goes, Statement, InTx
<1>4. req[c].status = 0
  BY <1>3 DEF Inv, Progress
<1> QED BY <1>2, <1>3, <1>4 DEF Outcome, Committing, Goes, Commit

LEMMA LookupUserOutcome ==
  ASSUME Inv, NEW c \in Clients, LookupUser(c) PROVE \E q : Outcome(c, q)
<1>1. PICK found, us : /\ found = {u \in users : /\ u.email = req[c].email
                                               /\ VerifyPassword(u.hash, req[c].password)}
                       /\ us = {u.id : u \in found}
  OBVIOUS
<1>2. PICK q : /\ Step(c, "lookup", q)
               /\ q = IF found = {} THEN Answer(req[c], 401)
                      ELSE [req[c] EXCEPT !.pc = "find", !.user = us]
  BY <1>1 DEF LookupUser
<1>3. req[c] \in Request /\ req[c].pc = "lookup"
  BY <1>2, RequestType DEF Inv, Step
<1>4. CASE found = {}
  <2>1. Goes(q, req[c], "answered") /\ q.status = 401 /\ q.failed = req[c].failed
    BY <1>2, <1>3, <1>4, AnswerGoes DEF Statuses
  <2>2. Moves(c, q)
    BY <1>2, <2>1, StepMoves DEF Inv, Goes, Statement
  <2>3. ~q.failed /\ drained => ~q.known
    BY <1>1, <1>3, <1>4, <2>1 DEF Inv, Merits, Goes, Copies
  <2> QED BY <1>3, <2>1, <2>2, <2>3 DEF Outcome, Answering, Goes, LookupUser, Statement
<1>5. CASE found # {}
  <2>1. PICK u \in users : u \in found
    BY <1>1, <1>5
  <2>2. \A v \in found : v = u
    BY <1>1, <1>3, <2>1 DEF Inv, Rows, UsedOnce, Progress
  <2>3. us = {u.id} /\ u.id \in Ids
    BY <1>1, <2>1, <2>2 DEF Inv, TypeOK
  <2>4. "find" \in Labels /\ us \in SUBSET Ids
    BY <2>3 DEF Labels, Statement
  <2>5. /\ Copies(q, req[c]) /\ q.pc = "find" /\ q.user = us
        /\ q.status = req[c].status
    <3>1. q = WithUser(req[c], "find", us)
      BY <1>2, <1>5 DEF WithUser
    <3> QED BY <1>3, <2>4, <3>1, UserGoes
  <2>6. Moves(c, q)
    BY <1>2, <2>5, StepMoves DEF Inv, Statement
  <2>7. u.email = q.email /\ VerifyPassword(u.hash, q.password)
    BY <1>1, <2>1, <2>5 DEF Copies
  <2> QED BY <1>3, <2>3, <2>5, <2>6, <2>7 DEF Outcome, Going, LookupUser, db, Inv, TypeOK
<1> QED BY <1>4, <1>5

LEMMA FindPlayerOutcome ==
  ASSUME Inv, NEW c \in Clients, FindPlayer(c) PROVE \E q : Outcome(c, q)
<1>1. PICK q : /\ Step(c, "find", q)
               /\ q \in IF PlayersOf(req[c].user) = {} THEN {Answer(req[c], 500)}
                        ELSE {[req[c] EXCEPT !.pc = "touch", !.player = {p.id}] :
                                p \in PlayersOf(req[c].user)}
  BY DEF FindPlayer
<1>2. req[c] \in Request /\ req[c].pc = "find"
  BY <1>1, RequestType DEF Inv, Step
<1>3. PICK u \in users : req[c].user = {u.id}
  BY <1>2 DEF Inv, Progress, Stored
<1>4. [id |-> u.id, user |-> u.id] \in players
  BY <1>3 DEF Inv, Rows, Paired
<1>5. PlayersOf(req[c].user) # {}
  BY <1>3, <1>4 DEF PlayersOf
<1>6. PICK p \in players :
        p.user \in req[c].user /\ q = [req[c] EXCEPT !.pc = "touch", !.player = {p.id}]
  BY <1>1, <1>5 DEF PlayersOf
<1>7. {p.id} \in SUBSET Ids /\ "touch" \in Labels
  BY <1>6 DEF Inv, TypeOK, Labels, Statement
<1>8. /\ Copies(q, req[c]) /\ q.pc = "touch" /\ q.player = {p.id}
      /\ q.user = req[c].user /\ q.status = req[c].status
  <2>1. q = WithPlayer(req[c], "touch", {p.id})
    BY <1>6 DEF WithPlayer
  <2> QED BY <1>2, <1>7, <2>1, PlayerGoes
<1>9. Moves(c, q)
  BY <1>1, <1>8, StepMoves DEF Inv, Statement
<1> QED BY <1>2, <1>6, <1>8, <1>9 DEF Outcome, Going, FindPlayer, db, Inv, TypeOK

LEMMA TouchLastLoginOutcome ==
  ASSUME Inv, NEW c \in Clients, TouchLastLogin(c) PROVE \E q : Outcome(c, q)
<1>1. PICK q : q = [req[c] EXCEPT !.pc = "token"] /\ Step(c, "touch", q)
  BY DEF TouchLastLogin
<1>2. Goes(q, req[c], "token") /\ q.status = req[c].status
  BY <1>1, RequestType, LabelGoes DEF Inv, Labels
<1>3. Moves(c, q) /\ req[c].pc = "touch"
  BY <1>1, <1>2, StepMoves DEF Inv, Goes, Statement
<1>4. touched' \subseteq Ids
  BY RequestType, RequestFields DEF TouchLastLogin, Inv, TypeOK
<1> QED BY <1>2, <1>3, <1>4 DEF Outcome, Going, Goes, TouchLastLogin

LEMMA IssueAccessTokenOutcome ==
  ASSUME Inv, NEW c \in Clients, IssueAccessToken(c) PROVE \E q : Outcome(c, q)
<1>1. signing
  BY DEF IssueAccessToken, Step, Running, Inv, Server
<1>2. PICK q : q = Answer(req[c], 200) /\ Step(c, "token", q)
  BY <1>1 DEF IssueAccessToken
<1>3. Goes(q, req[c], "answered") /\ q.status = 200
  BY <1>2, RequestType, AnswerGoes DEF Inv, Statuses
<1>4. Moves(c, q) /\ req[c].pc = "token"
  BY <1>2, <1>3, StepMoves DEF Inv, Goes
<1> QED BY <1>1, <1>3, <1>4 DEF Outcome, Issuing, Issued, Goes, IssueAccessToken

LEMMA ServeMeOutcome ==
  ASSUME Inv, NEW c \in Clients, ServeMe(c) PROVE \E q : Outcome(c, q)
<1>1. PICK s, q : /\ s \in {200, 404} /\ s = IF Profile(c) = {} THEN 404 ELSE 200
                  /\ q = Answer(req[c], s) /\ Step(c, "me", q)
  BY DEF ServeMe
<1>2. Goes(q, req[c], "answered") /\ q.status = s /\ q.failed = req[c].failed
  BY <1>1, RequestType, AnswerGoes DEF Inv, Statuses
<1>3. Moves(c, q) /\ req[c].pc = "me"
  BY <1>1, <1>2, StepMoves DEF Inv, Goes, Statement
<1>4. req[c].op = "me"
  BY <1>3 DEF Inv, Progress
<1>5. q.known = req[c].known
  BY <1>2 DEF Goes, Copies
<1>6. ~req[c].failed /\ drained /\ req[c].known => Profile(c) # {}
  BY <1>3 DEF Inv, Merits
<1>7. ~q.failed /\ drained => (q.known => q.status = 200)
  BY <1>1, <1>2, <1>5, <1>6
<1> QED BY <1>1, <1>2, <1>3, <1>4, <1>7 DEF Outcome, Answering, Goes, ServeMe, Statement

(* A closed pool: the request was cut off.                                 *)
LEMMA PoolRefusesOutcome ==
  ASSUME Inv, NEW c \in Clients, PoolRefuses(c) PROVE \E q : Outcome(c, q)
<1>1. PICK q : q = AfterError(req[c]) /\ Step(c, req[c].pc, q)
  BY DEF PoolRefuses
<1>2. req[c] \in Request /\ req[c].pc \in Statement
  BY RequestType DEF Inv, PoolRefuses
<1>3. \/ req[c].pc = "touch" /\ Goes(q, req[c], "token") /\ q.status = req[c].status
      \/ Goes(q, req[c], "answered") /\ q.status \in {401, 404, 500}
  BY <1>1, <1>2, AfterErrorIs
<1>4. Moves(c, q)
  BY <1>1, <1>2, <1>3, StepMoves DEF Inv, Goes
<1>5. ~drained
  BY <1>2 DEF PoolRefuses, Inv, Server, Quiet, Resting, Statement, InTx
<1> QED BY <1>2, <1>3, <1>4, <1>5
        DEF Outcome, Going, Answering, Goes, PoolRefuses, db, Inv, TypeOK

(* A statement that failed.                                                *)
LEMMA FailsMoves ==
  ASSUME Inv, NEW c \in Clients, Fails(c)
  PROVE  \E q : /\ Moves(c, q) /\ req[c].pc \in Statement /\ q.failed
                /\ q.user = req[c].user /\ q.player = req[c].player
                /\ \/ req[c].pc = "touch" /\ q.pc = "token" /\ q.status = req[c].status
                   \/ req[c].pc # "touch" /\ q.pc = "answered" /\ q.status \in {401, 404, 500}
<1>1. PICK r : r = [req[c] EXCEPT !.failed = TRUE]
  OBVIOUS
<1>2. Goes(r, req[c], req[c].pc) /\ r.status = req[c].status /\ r.failed = TRUE
  BY <1>1, RequestType, FailedGoes DEF Inv
<1>3. PICK q : q = AfterError(r) /\ req' = [req EXCEPT ![c] = q]
  BY <1>1 DEF Fails
<1>4. r \in Request /\ r.pc \in Statement /\ r.pc = req[c].pc
  BY <1>2 DEF Goes, Copies, Fails
<1>5. /\ q.failed = r.failed
      /\ \/ r.pc = "touch" /\ Goes(q, r, "token") /\ q.status = r.status
         \/ r.pc # "touch" /\ Goes(q, r, "answered") /\ q.status \in {401, 404, 500}
  BY <1>3, <1>4, AfterErrorIs
<1>6. Copies(q, req[c]) /\ q.user = req[c].user /\ q.player = req[c].player
  BY <1>2, <1>5 DEF Goes, Copies
<1>7. faults' \in 0..FaultBound
  BY AccountsAssumption DEF Fails, Inv, TypeOK
<1>8. Moves(c, q)
  BY <1>3, <1>6, <1>7 DEF Moves, Fails
<1> QED BY <1>2, <1>4, <1>5, <1>6, <1>8 DEF Goes

LEMMA HandleOutcome ==
  ASSUME Inv, NEW c \in Clients,
         Handle(c) \/ StatementFails(c) \/ CommitUnacknowledged(c)
  PROVE  \E q : Outcome(c, q)
<1>1. CASE Handle(c)
  BY <1>1, BeginTxOutcome, InsertUserOutcome, InsertPlayerOutcome, CommitOutcome,
     LookupUserOutcome, FindPlayerOutcome, TouchLastLoginOutcome, IssueAccessTokenOutcome,
     ServeMeOutcome, PoolRefusesOutcome DEF Handle
<1>2. CASE StatementFails(c)
  BY <1>2, FailsMoves DEF StatementFails, Outcome, Going, Answering, db, Inv, TypeOK
<1>3. CASE CommitUnacknowledged(c)
  BY <1>3, FailsMoves DEF CommitUnacknowledged, Outcome, Committing
<1> QED BY <1>1, <1>2, <1>3

-----------------------------------------------------------------------------
(* Each part of the invariant, over what a statement comes to.             *)

LEMMA Moved ==
  ASSUME TypeOK, NEW c \in Clients, NEW q, Moves(c, q)
  PROVE  /\ req' \in [Clients -> Request] /\ req'[c] = q
         /\ \A d \in Clients \ {c} : req'[d] = req[d]
         /\ asked' = asked /\ \A d \in Clients : Id(d)' = Id(d)
         /\ env' = env /\ signing' = signing /\ proc' = proc /\ pool' = pool /\ drained' = drained
BY DEF TypeOK, Moves, Copies, main, Id

LEMMA OutcomeMoves ==
  ASSUME NEW c \in Clients, NEW q, Outcome(c, q)
  PROVE  Moves(c, q) /\ users \subseteq users' /\ players \subseteq players'
BY DEF Outcome, Going, Committing, Issuing, Answering, CommitRows, db

(* Rows are only added: what a request relies on stays while others move.  *)
LEMMA Undisturbed ==
  ASSUME NEW d \in Clients, Progress(d), Merits(d),
         req'[d] = req[d], Id(d)' = Id(d), users \subseteq users', players \subseteq players',
         drained' => drained, pool' = "none" \/ pool # "none" \/ req[d].pc = "idle"
  PROVE  Progress(d)' /\ Merits(d)'
<1>1. Stored(d) => Stored(d)'
  BY DEF Stored
<1>2. Progress(d)'
  BY <1>1 DEF Progress
<1>3. Profile(d) # {} => Profile(d)' # {}
  BY DEF Profile
<1>4. Merits(d)'
  BY <1>3 DEF Merits
<1> QED BY <1>2, <1>4

LEMMA OutcomeType ==
  ASSUME Inv, NEW c \in Clients, NEW q, Outcome(c, q) PROVE TypeOK'
<1>1. TypeOK /\ Moves(c, q)
  BY OutcomeMoves DEF Inv
<1>2. req' \in [Clients -> Request] /\ asked' \in [Clients -> 0..AskBound]
  BY <1>1, Moved DEF TypeOK
<1>3. /\ users' \subseteq [id : Ids, email : SUBSET Emails, hash : SUBSET Passwords]
      /\ players' \subseteq [id : Ids, user : Ids] /\ touched' \subseteq Ids
  <2>1. CASE Committing(c, q)
    <3>1. Id(c) \in Ids
      BY <1>1, <2>1, IdType DEF Inv, Committing, Statement, InTx
    <3>2. req[c].email \in SUBSET Emails /\ HashPassword(req[c].password) \in SUBSET Passwords
      BY <1>1, RequestType, RequestFields, HashType
    <3>3. /\ UserRow(c) \in [id : Ids, email : SUBSET Emails, hash : SUBSET Passwords]
          /\ PlayerRow(c) \in [id : Ids, user : Ids]
      BY <3>1, <3>2 DEF UserRow, PlayerRow
    <3> QED BY <1>1, <2>1, <3>3 DEF Committing, CommitRows, TypeOK
  <2>2. CASE ~Committing(c, q)
    BY <1>1, <2>2 DEF Outcome, Going, Issuing, Answering, db, TypeOK
  <2> QED BY <2>1, <2>2
<1>4. tokens' \in [Clients -> SUBSET Token]
  <2>1. CASE Issuing(c, q)
    <3>1. req[c].user \in SUBSET Ids /\ req[c].player \in SUBSET Ids
      BY <1>1, RequestType, RequestFields
    <3>2. Issued(c) \in SUBSET Token
      BY <3>1 DEF Issued, Token
    <3> QED BY <1>1, <2>1, <3>2 DEF Issuing, TypeOK
  <2>2. CASE ~Issuing(c, q)
    BY <1>1, <2>2 DEF Outcome, Going, Committing, CommitRows, Answering, TypeOK
  <2> QED BY <2>1, <2>2
<1> QED BY <1>1, <1>2, <1>3, <1>4 DEF TypeOK, Moves, main

LEMMA OutcomeRows ==
  ASSUME Inv, NEW c \in Clients, NEW q, Outcome(c, q) PROVE Rows'
<1>1. /\ TypeOK /\ Paired /\ UsedOnce /\ IdsAhead /\ EmailsAhead /\ Moves(c, q)
      /\ \A d \in Clients : Progress(d)
  BY OutcomeMoves DEF Inv, Rows
<1>2. /\ req'[c] = q /\ q.email = req[c].email /\ \A d \in Clients \ {c} : req'[d] = req[d]
      /\ asked' = asked /\ \A d \in Clients : Id(d)' = Id(d)
  BY <1>1, Moved DEF Moves, Copies
<1>3. CASE Committing(c, q)
  <2>1. PICK v, p : v = UserRow(c) /\ p = PlayerRow(c)
    OBVIOUS
  <2>2. /\ v.id = Id(c) /\ v.email = req[c].email /\ p = [id |-> v.id, user |-> v.id]
        /\ users' = users \cup {v} /\ players' = players \cup {p}
    BY <1>3, <2>1 DEF UserRow, PlayerRow, Committing, CommitRows
  <2>3. /\ req[c].pc = "commit" /\ q.pc \in {"token", "answered"}
        /\ ~Taken(c) /\ \A u \in users : u.id # Id(c)
    BY <1>1, <1>3 DEF Committing, EmailsAhead, IdsAhead, Pending, InTx
  <2>4. Paired'
    BY <1>1, <2>2 DEF Paired
  <2>5. UsedOnce'
    BY <1>1, <2>2, <2>3 DEF UsedOnce, Taken
  <2>6. IdsAhead'
    <3>1. \A d \in Clients, n \in 1..AskBound, u \in users' : u.id = <<d, n>> => n <= asked'[d]
      <4> SUFFICES ASSUME NEW d \in Clients, NEW n \in 1..AskBound, NEW u \in users',
                          u.id = <<d, n>>
                   PROVE  n <= asked[d]
        BY <1>2
      <4>1. CASE u \in users
        BY <1>1, <4>1 DEF IdsAhead
      <4>2. CASE u = v
        BY <2>2, <4>2 DEF Id
      <4> QED BY <2>2, <4>1, <4>2
    <3>2. \A d \in Clients, u \in users' : req'[d].pc \in Pending => u.id # Id(d)
      <4> SUFFICES ASSUME NEW d \in Clients, NEW u \in users', req'[d].pc \in Pending
                   PROVE  u.id # Id(d)
        OBVIOUS
      <4>1. d # c /\ req[d].pc \in Pending
        BY <1>2, <2>3 DEF Pending, InTx
      <4>2. Id(d) # Id(c)
        BY <4>1 DEF Id
      <4> QED BY <1>1, <2>2, <4>1, <4>2 DEF IdsAhead
    <3> QED BY <1>2, <3>1, <3>2 DEF IdsAhead
  <2>7. EmailsAhead'
    <3> SUFFICES ASSUME NEW d \in Clients, req'[d].pc \in {"player", "commit"}
                 PROVE  /\ ~Taken(d)'
                        /\ \A e \in Clients :
                             /\ req'[e].pc \in {"player", "commit"}
                             /\ req'[d].email = req'[e].email /\ req'[d].email # {}
                             => d = e
      BY DEF EmailsAhead
    <3>1. d # c /\ req'[d] = req[d]
      BY <1>2, <2>3
    <3>2. ~Taken(d) /\ (req[d].email # {} => req[d].email # req[c].email)
      BY <1>1, <2>3, <3>1 DEF EmailsAhead
    <3>3. ~Taken(d)'
      BY <2>2, <3>1, <3>2 DEF Taken
    <3>4. ASSUME NEW e \in Clients, req'[e].pc \in {"player", "commit"},
                 req'[d].email = req'[e].email, req'[d].email # {}
          PROVE  d = e
      BY <1>1, <1>2, <2>3, <3>1, <3>4 DEF EmailsAhead
    <3> QED BY <3>3, <3>4
  <2> QED BY <2>4, <2>5, <2>6, <2>7 DEF Rows
<1>4. CASE ~Committing(c, q)
  <2>1. users' = users /\ players' = players
    BY <1>4 DEF Outcome, Going, Issuing, Answering, db
  <2>2. /\ q.pc \in Pending => req[c].pc \in Pending
        /\ q.pc \in {"player", "commit"} =>
             req[c].pc = "player" \/ (req[c].pc = "user" /\ ~Taken(c) /\ ~Waits(c))
    BY <1>4 DEF Outcome, Going, Issuing, Answering, Pending, InTx
  <2>3. IdsAhead'
    BY <1>1, <1>2, <2>1, <2>2 DEF IdsAhead
  <2>4. \A d \in Clients : req'[d].pc \in {"player", "commit"} => ~Taken(d)'
    BY <1>1, <1>2, <2>1, <2>2 DEF EmailsAhead, Taken
  <2>5. ASSUME NEW d \in Clients, NEW e \in Clients,
               req'[d].pc \in {"player", "commit"}, req'[e].pc \in {"player", "commit"},
               req'[d].email = req'[e].email, req'[d].email # {}
        PROVE  d = e
    <3>1. CASE d # c /\ e # c
      BY <1>1, <1>2, <2>5, <3>1 DEF EmailsAhead
    <3>2. CASE d = c /\ e # c
      BY <1>1, <1>2, <2>2, <2>5, <3>2 DEF EmailsAhead, Waits
    <3>3. CASE d # c /\ e = c
      BY <1>1, <1>2, <2>2, <2>5, <3>3 DEF EmailsAhead, Waits
    <3> QED BY <3>1, <3>2, <3>3
  <2>6. EmailsAhead'
    BY <2>4, <2>5 DEF EmailsAhead
  <2> QED BY <1>1, <2>1, <2>3, <2>6 DEF Rows, Paired, UsedOnce
<1> QED BY <1>3, <1>4

LEMMA OutcomeProgress ==
  ASSUME Inv, NEW c \in Clients, NEW q, Outcome(c, q) PROVE Progress(c)'
<1>1. TypeOK /\ Moves(c, q) /\ Progress(c) /\ players \subseteq [id : Ids, user : Ids]
  BY OutcomeMoves DEF Inv, TypeOK
<1>2. /\ req'[c] = q /\ Id(c)' = Id(c)
      /\ q.op = req[c].op /\ q.email = req[c].email /\ q.password = req[c].password
  BY <1>1, Moved DEF Moves, Copies
<1>3. CASE Going(c, q)
  <2>1. q.pc \in {"user", "player", "commit", "find", "touch", "token"} /\ q.status = 0
    BY <1>1, <1>3 DEF Going, Progress, Statement, InTx
  <2>2. q.pc \in Pending => q.op \in {"register", "guest"}
    BY <1>1, <1>2, <1>3 DEF Going, Progress, Pending, InTx
  <2>3. /\ q.pc \in {"player", "commit"} => q.user = {Id(c)}
        /\ q.pc = "commit" => q.player = {Id(c)}
        /\ q.pc \in {"find", "touch", "token"} => q.op = "login" /\ q.email # {}
        /\ q.pc \in {"touch", "token"} => q.player # {}
    BY <1>1, <1>2, <1>3 DEF Going, Progress
  <2>4. q.pc \in {"find", "touch", "token"} => Stored(c)'
    <3>1. users' = users /\ players' = players
      BY <1>3 DEF Going
    <3>2. CASE q.pc = "find"
      BY <1>2, <1>3, <3>1, <3>2 DEF Going, Stored
    <3>3. CASE q.pc = "touch"
      <4>1. PICK u \in users : /\ req[c].user = {u.id}
                               /\ u.email = req[c].email /\ VerifyPassword(u.hash, req[c].password)
        BY <1>1, <1>3, <3>3 DEF Going, Progress, Stored
      <4>2. PICK p \in players : p.user \in q.user /\ q.player = {p.id}
        BY <1>3, <3>3 DEF Going
      <4>3. q.user = {u.id}
        BY <1>3, <3>3, <4>1 DEF Going
      <4>4. p = [id |-> p.id, user |-> u.id]
        BY <1>1, <4>2, <4>3
      <4> QED BY <1>2, <3>1, <4>1, <4>2, <4>3, <4>4 DEF Stored
    <3>4. CASE q.pc = "token"
      <4>1. req[c].pc = "touch" /\ q.user = req[c].user /\ q.player = req[c].player /\ Stored(c)
        BY <1>1, <1>3, <3>4 DEF Going, Progress
      <4> QED BY <1>2, <3>1, <4>1 DEF Stored
    <3> QED BY <3>2, <3>3, <3>4
  <2> QED BY <1>2, <2>1, <2>2, <2>3, <2>4 DEF Progress, Pending
<1>4. CASE Committing(c, q)
  <2>1. /\ q.user = {Id(c)} /\ q.player = {Id(c)} /\ q.op \in {"register", "guest"}
    BY <1>1, <1>2, <1>4 DEF Committing, Progress, Pending, InTx
  <2>2. PICK v, p : v = UserRow(c) /\ p = PlayerRow(c)
    OBVIOUS
  <2>3. /\ v.id = Id(c) /\ v.email = req[c].email /\ v.hash = HashPassword(req[c].password)
        /\ p = [id |-> v.id, user |-> v.id]
        /\ users' = users \cup {v} /\ players' = players \cup {p}
    BY <1>4, <2>2 DEF UserRow, PlayerRow, Committing, CommitRows
  <2>4. VerifyPassword(v.hash, req'[c].password)
    BY <1>2, <2>3 DEF VerifyPassword
  <2>5. Stored(c)'
    BY <1>2, <2>1, <2>3, <2>4 DEF Stored
  <2>6. \/ q.pc = "token" /\ q.status = 0
        \/ q.pc = "answered" /\ q.status \in {401, 404, 500}
    BY <1>4 DEF Committing
  <2> QED BY <1>2, <2>1, <2>5, <2>6 DEF Progress, Pending, InTx
<1>5. CASE Issuing(c, q)
  <2>1. /\ q.user = req[c].user /\ q.pc = "answered" /\ q.status = 200 /\ Stored(c)
        /\ users' = users
    BY <1>1, <1>5 DEF Issuing, Progress, db
  <2>2. Stored(c)'
    BY <1>2, <2>1 DEF Stored
  <2> QED BY <1>2, <2>1, <2>2 DEF Progress, Pending, InTx
<1>6. CASE Answering(c, q)
  BY <1>2, <1>6 DEF Answering, Progress, Pending, InTx
<1> QED BY <1>3, <1>4, <1>5, <1>6 DEF Outcome

LEMMA OutcomeMerits ==
  ASSUME Inv, NEW c \in Clients, NEW q, Outcome(c, q) PROVE Merits(c)'
<1>1. TypeOK /\ Moves(c, q) /\ Progress(c) /\ Merits(c) /\ users \subseteq users'
  BY OutcomeMoves DEF Inv
<1>2. /\ req'[c] = q /\ drained' = drained
      /\ q.op = req[c].op /\ q.email = req[c].email /\ q.known = req[c].known
  BY <1>1, Moved DEF Moves, Copies
<1>3. q.known => q.op \in {"login", "me"}
  BY <1>1, <1>2 DEF Merits
<1>4. CASE Going(c, q)
  <2>1. q.status = 0 /\ q.pc \notin {"lookup", "me", "answered"}
    BY <1>1, <1>4 DEF Going, Progress, Statement, InTx
  <2> QED BY <1>2, <1>3, <2>1 DEF Merits
<1>5. CASE Committing(c, q)
  <2>1. ~q.known
    BY <1>1, <1>3, <1>2, <1>5 DEF Committing, Progress, Pending, InTx
  <2>2. q.status # 409 /\ (q.status = 500 => q.failed)
    BY <1>5 DEF Committing
  <2> QED BY <1>2, <2>1, <2>2 DEF Merits
<1>6. CASE Issuing(c, q)
  BY <1>2, <1>3, <1>6 DEF Issuing, Merits
<1>7. CASE Answering(c, q)
  <2>1. q.status = 409 => \E u \in users' : u.email = q.email
    BY <1>1, <1>2, <1>7 DEF Answering, Taken
  <2> QED BY <1>2, <1>3, <1>7, <2>1 DEF Answering, Merits
<1> QED BY <1>4, <1>5, <1>6, <1>7 DEF Outcome

LEMMA OutcomeTokens ==
  ASSUME Inv, NEW c \in Clients, NEW q, Outcome(c, q) PROVE TokensStored'
<1>1. TypeOK /\ TokensStored /\ Progress(c) /\ players \subseteq players'
  BY OutcomeMoves DEF Inv
<1>2. CASE Issuing(c, q)
  <2>1. PICK u \in users : /\ req[c].user = {u.id}
                           /\ \A p \in req[c].player : [id |-> p, user |-> u.id] \in players
    BY <1>1, <1>2 DEF Issuing, Progress, Stored
  <2>2. \A t \in Issued(c) : [id |-> t.player, user |-> t.user] \in players
    BY <2>1 DEF Issued
  <2>3. tokens'[c] = Issued(c) /\ \A d \in Clients \ {c} : tokens'[d] = tokens[d]
    BY <1>1, <1>2 DEF Issuing, TypeOK
  <2> QED BY <1>1, <2>2, <2>3 DEF TokensStored
<1>3. CASE ~Issuing(c, q)
  <2>1. tokens' = tokens
    BY <1>3 DEF Outcome, Going, Committing, CommitRows, Answering
  <2> QED BY <1>1, <2>1 DEF TokensStored
<1> QED BY <1>2, <1>3

LEMMA OutcomeRest ==
  ASSUME Inv, NEW c \in Clients, NEW q, Outcome(c, q) PROVE Begun' /\ Server'
<1>1. TypeOK /\ Begun /\ Server /\ Moves(c, q)
  BY OutcomeMoves DEF Inv
<1>2. /\ req'[c] = q /\ q.password = req[c].password /\ asked' = asked
      /\ \A d \in Clients \ {c} : req'[d] = req[d]
      /\ signing' = signing /\ proc' = proc /\ pool' = pool /\ drained' = drained
  BY <1>1, Moved DEF Moves, Copies
<1>3. q.pc \in Statement => req[c].pc \in Statement
  BY DEF Outcome, Going, Committing, Issuing, Answering, Statement, InTx
<1>4. Begun'
  BY <1>1, <1>2, <1>3 DEF Begun
<1>5. proc \notin {"loading", "connecting"} /\ ~Quiet
  BY <1>1 DEF Moves, Running, Quiet, Resting, Statement, InTx
<1>6. Server'
  BY <1>1, <1>2, <1>5 DEF Server
<1> QED BY <1>4, <1>6

LEMMA OutcomeInv ==
  ASSUME Inv, NEW c \in Clients, NEW q, Outcome(c, q) PROVE Inv'
<1>1. ASSUME NEW d \in Clients PROVE Progress(d)' /\ Merits(d)'
  <2>1. CASE d = c
    BY <2>1, OutcomeProgress, OutcomeMerits
  <2>2. CASE d # c
    <3>1. TypeOK /\ Moves(c, q) /\ users \subseteq users' /\ players \subseteq players'
      BY OutcomeMoves DEF Inv
    <3>2. req'[d] = req[d] /\ Id(d)' = Id(d) /\ drained' = drained /\ pool' = pool
      BY <2>2, <3>1, Moved
    <3> QED BY <3>1, <3>2, Undisturbed DEF Inv
  <2> QED BY <2>1, <2>2
<1> QED BY <1>1, OutcomeType, OutcomeRows, OutcomeTokens, OutcomeRest DEF Inv

-----------------------------------------------------------------------------
(* A client asks, and main goes on.                                        *)

LEMMA AskInv ==
  ASSUME Inv, NEW c \in Clients, NEW q, New(c, q), Accept(c, q) PROVE Inv'
<1>1. /\ TypeOK /\ Begun /\ Paired /\ UsedOnce /\ IdsAhead /\ EmailsAhead
      /\ TokensStored /\ Server
  BY DEF Inv, Rows
<1>2. /\ req'[c] = q /\ \A d \in Clients \ {c} : req'[d] = req[d]
      /\ asked'[c] = asked[c] + 1 /\ \A d \in Clients \ {c} : asked'[d] = asked[d]
      /\ asked[c] \in Nat /\ asked[c] + 1 \in 1..AskBound
      /\ UNCHANGED <<main, tokens, db, faults>> /\ proc = "serving"
  BY <1>1, AccountsAssumption DEF Accept, TypeOK
<1>3. TypeOK'
  <2>1. q \in Request
    BY DEF New
  <2>2. req' \in [Clients -> Request] /\ asked' \in [Clients -> 0..AskBound]
    BY <1>1, <1>2, <2>1, AccountsAssumption DEF Accept, TypeOK
  <2> QED BY <1>1, <1>2, <2>2 DEF TypeOK, main, db
<1>4. Begun' /\ Server'
  <2>1. Begun'
    BY <1>1, <1>2 DEF Begun
  <2>2. Server'
    BY <1>1, <1>2 DEF Server, main
  <2> QED BY <2>1, <2>2
<1>5. Rows'
  <2>1. users' = users /\ players' = players
    BY <1>2 DEF db
  <2>2. q.pc \in Pending => q.pc = "begin"
    BY DEF New, Pending, InTx
  <2>3. \A d \in Clients, n \in 1..AskBound, u \in users : u.id = <<d, n>> => n <= asked'[d]
    <3> SUFFICES ASSUME NEW d \in Clients, NEW n \in 1..AskBound, NEW u \in users,
                        u.id = <<d, n>>
                 PROVE  n <= asked'[d]
      OBVIOUS
    <3>1. n <= asked[d]
      BY <1>1 DEF IdsAhead
    <3>2. CASE d = c
      BY <1>2, <3>1, <3>2
    <3>3. CASE d # c
      BY <1>2, <3>1, <3>3
    <3> QED BY <3>2, <3>3
  <2>4. \A u \in users : u.id # Id(c)'
    BY <1>1, <1>2 DEF IdsAhead, Id
  <2>5. \A d \in Clients \ {c} : Id(d)' = Id(d)
    BY <1>2 DEF Id
  <2>6. \A d \in Clients, u \in users : req'[d].pc \in Pending => u.id # Id(d)'
    BY <1>1, <1>2, <2>4, <2>5 DEF IdsAhead
  <2>7. IdsAhead'
    BY <2>1, <2>3, <2>6 DEF IdsAhead
  <2>8. q.pc \notin {"player", "commit"}
    BY DEF New
  <2>9. EmailsAhead'
    BY <1>1, <1>2, <2>1, <2>8 DEF EmailsAhead, Taken
  <2> QED BY <1>1, <2>1, <2>7, <2>9 DEF Rows, Paired, UsedOnce
<1>6. TokensStored'
  BY <1>1, <1>2 DEF TokensStored, db
<1>7. Progress(c)'
  BY <1>2 DEF New, Progress, Pending, InTx
<1>8. Merits(c)'
  <2>1. users' = users /\ players' = players /\ pool' = pool
    BY <1>2 DEF db, main
  <2>2. q.known /\ q.pc = "lookup" =>
          \E u \in users : u.email = q.email /\ VerifyPassword(u.hash, q.password)
    <3> SUFFICES ASSUME q.known, q.pc = "lookup"
                 PROVE  \E u \in users : u.email = q.email /\ VerifyPassword(u.hash, q.password)
      OBVIOUS
    <3>1. PICK p \in q.password : Matches(q.email, p)
      BY DEF New
    <3>2. q.password = {p}
      BY <3>1 DEF New
    <3> QED BY <3>1, <3>2 DEF Matches
  <2>3. q.known /\ q.pc = "me" => Profile(c)' # {}
    <3> SUFFICES ASSUME q.known, q.pc = "me" PROVE Profile(c)' # {}
      OBVIOUS
    <3>1. PICK t \in tokens[c] : t.user \in q.user /\ t.player \in q.player
      BY DEF New
    <3>2. PICK p : p = [id |-> t.player, user |-> t.user] /\ p \in players
      BY <1>1 DEF TokensStored
    <3>3. \E u \in users : u.id = p.user
      BY <1>1, <3>2 DEF Paired
    <3> QED BY <1>2, <2>1, <3>1, <3>2, <3>3 DEF Profile
  <2> QED BY <1>2, <2>1, <2>2, <2>3 DEF New, Merits
<1>9. ASSUME NEW d \in Clients \ {c} PROVE Progress(d)' /\ Merits(d)'
  <2>1. /\ req'[d] = req[d] /\ Id(d)' = Id(d) /\ users' = users /\ players' = players
        /\ drained' = drained /\ pool' = pool
    BY <1>2 DEF Id, db, main
  <2> QED BY <2>1, Undisturbed DEF Inv
<1> QED BY <1>3, <1>4, <1>5, <1>6, <1>7, <1>8, <1>9 DEF Inv

(* What main does leaves the requests and the rows alone.                  *)
LEMMA MainInv ==
  ASSUME Inv, UNCHANGED <<req, asked, tokens, db, faults>>, drained' => drained,
         \A c \in Clients : pool' = "none" \/ pool # "none" \/ req[c].pc = "idle",
         env' \subseteq Facts, signing' \in BOOLEAN, drained' \in BOOLEAN,
         proc' \in {"loading", "connecting", "serving", "draining", "closing", "exited"},
         pool' \in {"none", "open", "closed"}, Server'
  PROVE  Inv'
<1>1. TypeOK' /\ Begun' /\ TokensStored'
  BY DEF Inv, TypeOK, Begun, TokensStored, db
<1>2. \A c \in Clients : Id(c)' = Id(c)
  BY DEF Id
<1>3. Rows'
  BY <1>2 DEF Inv, Rows, Paired, UsedOnce, IdsAhead, EmailsAhead, Taken, db
<1>4. \A c \in Clients : Progress(c)' /\ Merits(c)'
  BY <1>2, Undisturbed DEF Inv, db
<1> QED BY <1>1, <1>3, <1>4 DEF Inv

LEMMA LoadInv == ASSUME Inv, Load PROVE Inv'
<1>1. Server
  BY DEF Inv
<1>2. Server'
  BY <1>1 DEF Server, Load, Loads, JWTSecret
<1> QED BY <1>2, MainInv DEF Load, JWTSecret, Inv, TypeOK

LEMMA ConnectInv == ASSUME Inv, Connect PROVE Inv'
<1>1. Server
  BY DEF Inv
<1>2. Server'
  BY <1>1 DEF Server, Connect
<1>3. \A c \in Clients : req[c].pc = "idle"
  BY <1>1 DEF Server, Connect
<1> QED BY <1>2, <1>3, MainInv DEF Connect, Inv, TypeOK

LEMMA EndInv ==
  ASSUME Inv, Signal \/ Drained \/ DrainTimeout \/ ListenFails \/ Exit PROVE Inv'
<1>1. Server /\ TypeOK
  BY DEF Inv
<1>2. /\ UNCHANGED <<env, signing, req, asked, tokens, db, faults>>
      /\ proc \in {"serving", "draining", "closing"}
      /\ proc' \in {"draining", "closing", "exited"}
  BY DEF Signal, Drained, DrainTimeout, ListenFails, Exit, Main
<1>3. /\ pool' = pool \/ (pool = "open" /\ pool' = "closed")
      /\ drained' = drained \/ drained' = FALSE
      /\ pool' = "closed" => \/ pool = "closed" /\ proc' = "exited"
                             \/ proc' = "closing" /\ (drained' => Quiet)
  BY <1>1 DEF Signal, Drained, DrainTimeout, ListenFails, Exit, Main, ClosePool, Server
<1>4. Quiet' = Quiet
  BY <1>2 DEF Quiet, Resting
<1>5. Server'
  BY <1>1, <1>2, <1>3, <1>4 DEF Server
<1>6. pool' = "none" \/ pool # "none"
  BY <1>3
<1>7. env' \subseteq Facts /\ signing' \in BOOLEAN /\ pool' \in {"none", "open", "closed"}
  BY <1>1, <1>2, <1>3 DEF TypeOK
<1>8. drained' \in BOOLEAN /\ (drained' => drained)
  <2>1. CASE drained' = drained
    BY <1>1, <2>1 DEF TypeOK
  <2>2. CASE drained' = FALSE
    BY <2>2
  <2> QED BY <1>3, <2>1, <2>2
<1>9. UNCHANGED <<req, asked, tokens, db, faults>>
  BY <1>2
<1>10. proc' \in {"loading", "connecting", "serving", "draining", "closing", "exited"}
  BY <1>2
<1> QED BY <1>5, <1>6, <1>7, <1>8, <1>9, <1>10, MainInv

LEMMA InitInv == Init => Inv
<1> SUFFICES ASSUME Init PROVE Inv
  OBVIOUS
<1>1. NoRequest \in Request
  BY NoRequestIs
<1>2. TypeOK
  <2>1. 0 \in 0..AskBound /\ 0 \in 0..FaultBound
    BY AccountsAssumption
  <2>2. asked \in [Clients -> 0..AskBound] /\ tokens \in [Clients -> SUBSET Token]
    BY <2>1 DEF Init
  <2>3. req \in [Clients -> Request]
    BY <1>1 DEF Init
  <2> QED BY <2>1, <2>2, <2>3 DEF Init, TypeOK
<1>3. \A c \in Clients : req[c] = NoRequest
  BY DEF Init
<1>4. Begun /\ Rows /\ TokensStored /\ Server
  BY <1>3, NoRequestIs DEF Init, Begun, Statement, InTx, Rows, Paired, UsedOnce, IdsAhead,
     EmailsAhead, Pending, TokensStored, Server
<1>5. \A c \in Clients : Progress(c) /\ Merits(c)
  BY <1>3, NoRequestIs DEF Progress, Merits, Pending, InTx
<1> QED BY <1>2, <1>4, <1>5 DEF Inv

LEMMA NextInv == Inv /\ [Next]_vars => Inv'
<1> SUFFICES ASSUME Inv, [Next]_vars PROVE Inv'
  OBVIOUS
<1>1. ASSUME NEW c \in Clients, Ask(c) PROVE Inv'
  BY <1>1, AskNew, AskInv DEF Inv
<1>2. ASSUME NEW c \in Clients, Handle(c) \/ StatementFails(c) \/ CommitUnacknowledged(c)
      PROVE  Inv'
  BY <1>2, HandleOutcome, OutcomeInv
<1>3. CASE UNCHANGED vars
  <2>1. /\ UNCHANGED <<env, signing, proc, pool, drained, req>>
        /\ UNCHANGED <<req, asked, tokens, db, faults>>
    BY <1>3 DEF vars, main
  <2>2. Server'
    BY <2>1 DEF Inv, Server, Quiet, Resting
  <2> QED BY <2>1, <2>2, MainInv DEF Inv, TypeOK
<1> QED BY <1>1, <1>2, <1>3, LoadInv, ConnectInv, EndInv DEF Next

LEMMA Invariant == Spec => []Inv
BY InitInv, NextInv, PTL DEF Spec

-----------------------------------------------------------------------------
(* The theorems.                                                           *)

(* The types of the server's state.                                        *)
THEOREM TypeCorrect == Spec => []TypeOK
<1>1. Inv => TypeOK
  BY DEF Inv
<1> QED BY <1>1, Invariant, PTL

(* Accounts are whole, whatever fails and whoever races for an email       *)
(* (CreateUserWithPlayer, CreateGuest).                                    *)
THEOREM AccountsWholeHolds == Spec => []AccountsWhole
<1>1. Inv => AccountsWhole
  <2> SUFFICES ASSUME Inv PROVE AccountsWhole
    OBVIOUS
  <2>1. Paired /\ UsedOnce
    BY DEF Inv, Rows
  <2>2. ASSUME NEW u \in users
        PROVE  Cardinality({p \in players : p.user = u.id}) = 1
    <3>1. PICK x : x = [id |-> u.id, user |-> u.id]
      OBVIOUS
    <3>2. {p \in players : p.user = u.id} = {x}
      BY <2>1, <3>1 DEF Paired
    <3> QED BY <3>2, FS_Singleton
  <2>3. \A p \in players : \E u \in users : u.id = p.user
    BY <2>1 DEF Paired
  <2>4. \A u, v \in users : u.email = v.email /\ u.email # {} => u = v
    BY <2>1 DEF UsedOnce
  <2> QED BY <2>2, <2>3, <2>4 DEF AccountsWhole
<1> QED BY <1>1, Invariant, PTL

(* A token is an account: what a client was answered with 200 is in the    *)
(* database, under what it sent (Register, Login, Guest, IssueAccessToken). *)
THEOREM TokensAreAccountsHolds == Spec => []TokensAreAccounts
<1>1. Inv => TokensAreAccounts
  BY DEF Inv, TokensStored, Progress, Stored, TokensAreAccounts
<1> QED BY <1>1, Invariant, PTL

(* Requests are answered on their merits (the handlers of internal/auth,   *)
(* the shutdown of cmd/api).                                               *)
THEOREM AnsweredOnMeritsHolds == Spec => []AnsweredOnMerits
<1>1. Inv => AnsweredOnMerits
  BY DEF Inv, Merits, AnsweredOnMerits
<1> QED BY <1>1, Invariant, PTL

-----------------------------------------------------------------------------
(* The accounts implement their store.                                     *)

Sent == [c \in Clients |-> [email |-> req[c].email, hash |-> HashPassword(req[c].password)]]
Own(u) == Account(u, [id |-> u.id, user |-> u.id])

LEMMA JoinedOwn ==
  ASSUME NEW us, NEW ps, ps = {[id |-> u.id, user |-> u.id] : u \in us},
         \A u, v \in us : u.id = v.id => u = v
  PROVE  Joined(us, ps) = {Own(u) : u \in us}
<1>1. ASSUME NEW a \in Joined(us, ps) PROVE a \in {Own(u) : u \in us}
  <2>1. PICK u \in us, p \in ps : a = Account(u, p) /\ p.user = u.id
    BY DEF Joined
  <2>2. p = [id |-> u.id, user |-> u.id]
    BY <2>1
  <2> QED BY <2>1, <2>2 DEF Own
<1>2. ASSUME NEW u \in us PROVE Own(u) \in Joined(us, ps)
  <2>1. PICK p \in ps : p = [id |-> u.id, user |-> u.id]
    OBVIOUS
  <2>2. p.user = u.id /\ Own(u) = Account(u, p)
    BY <2>1 DEF Own
  <2>3. PICK x : x = <<u, p>>
    OBVIOUS
  <2>4. x \in {y \in us \X ps : y[2].user = y[1].id} /\ Own(u) = Account(x[1], x[2])
    BY <2>2, <2>3
  <2> QED BY <2>4 DEF Joined
<1> QED BY <1>1, <1>2

LEMMA StoreUnchanged ==
  ASSUME UNCHANGED <<users, players, tokens>>, Sent' = Sent
  PROVE  UNCHANGED Store!vars
BY DEF Store!vars, Sent

LEMMA SentAfter ==
  ASSUME TypeOK, NEW c \in Clients, NEW q, req' = [req EXCEPT ![c] = q]
  PROVE  Sent' = [Sent EXCEPT ![c] = [email |-> q.email, hash |-> HashPassword(q.password)]]
BY DEF TypeOK, Sent

LEMMA OutcomeStore ==
  ASSUME Inv, Inv', NEW c \in Clients, NEW q, Outcome(c, q)
  PROVE  [Store!Next]_(Store!vars)
<1>1. /\ TypeOK /\ Paired /\ UsedOnce /\ IdsAhead /\ EmailsAhead /\ Progress(c) /\ Moves(c, q)
      /\ Paired' /\ UsedOnce'
  BY OutcomeMoves DEF Inv, Rows
<1>2. Sent' = Sent
  <2>1. [email |-> q.email, hash |-> HashPassword(q.password)] = Sent[c]
    BY <1>1 DEF Moves, Copies, Sent
  <2>2. Sent' = [Sent EXCEPT ![c] = Sent[c]]
    BY <1>1, <2>1, SentAfter DEF Moves
  <2> QED BY <2>2 DEF Sent
<1>3. Joined(users, players) = {Own(u) : u \in users}
  BY <1>1, JoinedOwn DEF Paired, UsedOnce
<1>4. \A u \in users : /\ Own(u).by = u.id[1] /\ Own(u).user = u.id /\ Own(u).player = u.id
                       /\ Own(u).email = u.email /\ Own(u).hash = u.hash
  BY DEF Own, Account
<1>5. CASE Committing(c, q)
  <2>1. PICK v, a : /\ v = UserRow(c)
                    /\ a = [by |-> c, user |-> Id(c), player |-> Id(c),
                            email |-> Sent[c].email, hash |-> Sent[c].hash]
    OBVIOUS
  <2>2. users' = users \cup {v} /\ Own(v) = a
    BY <1>5, <2>1 DEF Committing, CommitRows, UserRow, Own, Account, Sent, Id
  <2>3. Joined(users', players') = {Own(u) : u \in users'}
    BY <1>1, JoinedOwn DEF Paired, UsedOnce
  <2>4. Joined(users', players') = Joined(users, players) \cup {a}
    BY <1>3, <2>2, <2>3
  <2>5. /\ Id(c) \in Ids /\ \A u \in users : u.id # Id(c)
        /\ \A u \in users : u.email # {} => u.email # Sent[c].email
    BY <1>1, <1>5, IdType DEF Inv, Committing, IdsAhead, EmailsAhead, Taken, Sent, Pending,
                             Statement, InTx
  <2>6. /\ \A b \in Joined(users, players) : b.user # Id(c) /\ b.player # Id(c)
        /\ \A b \in Joined(users, players) : b.email # {} => b.email # Sent[c].email
    BY <1>3, <1>4, <2>5
  <2>7. tokens' = tokens
    BY <1>5 DEF Committing, CommitRows
  <2>8. Store!Create(c)
    BY <1>2, <2>1, <2>4, <2>5, <2>6, <2>7 DEF Store!Create, Sent
  <2> QED BY <2>8 DEF Store!Next
<1>6. CASE Issuing(c, q)
  <2>1. PICK u \in users : /\ req[c].user = {u.id}
                           /\ u.email = req[c].email /\ VerifyPassword(u.hash, req[c].password)
                           /\ \A p \in req[c].player : [id |-> p, user |-> u.id] \in players
    BY <1>1, <1>6 DEF Issuing, Progress, Stored
  <2>2. req[c].player = {u.id}
    <3>1. \A p \in req[c].player : p = u.id
      BY <1>1, <2>1 DEF Paired
    <3>2. req[c].player # {}
      BY <1>1, <1>6 DEF Issuing, Progress
    <3> QED BY <3>1, <3>2
  <2>3. Issued(c) = {[user |-> u.id, player |-> u.id]}
    BY <2>1, <2>2 DEF Issued
  <2>4. u.email = {} => u.id[1] = c
    BY <1>1, <1>6, <2>1 DEF Issuing, Progress, Id
  <2>5. PICK a \in Joined(users, players) : a = Own(u)
    BY <1>3
  <2>6. /\ a.email = Sent[c].email /\ a.hash = Sent[c].hash /\ (a.email = {} => a.by = c)
        /\ tokens' = [tokens EXCEPT ![c] = {[user |-> a.user, player |-> a.player]}]
    BY <1>4, <1>6, <2>1, <2>3, <2>4, <2>5 DEF Issuing, Sent, VerifyPassword
  <2>7. users' = users /\ players' = players
    BY <1>6 DEF Issuing, db
  <2>8. Store!Issue(c)
    BY <1>2, <2>5, <2>6, <2>7 DEF Store!Issue, Sent
  <2> QED BY <2>8 DEF Store!Next
<1>7. CASE Going(c, q) \/ Answering(c, q)
  BY <1>2, <1>7, StoreUnchanged DEF Going, Answering, db
<1> QED BY <1>5, <1>6, <1>7 DEF Outcome

LEMMA AskStore ==
  ASSUME TypeOK, NEW c \in Clients, NEW q, New(c, q), Accept(c, q)
  PROVE  Store!Send(c)
<1>1. Sent' = [Sent EXCEPT ![c] = [email |-> q.email, hash |-> HashPassword(q.password)]]
  BY SentAfter DEF Accept
<1>2. q.email \in SUBSET Emails /\ HashPassword(q.password) \in SUBSET Passwords
  BY RequestFields, HashType DEF New
<1>3. UNCHANGED <<users, players, tokens>>
  BY DEF Accept, db
<1> QED BY <1>1, <1>2, <1>3 DEF Store!Send, Sent

(* The accounts implement their store: a commit creates an account, also   *)
(* one that is not acknowledged, IssueAccessToken hands its token out, and *)
(* every other step is a new request or none at all.                       *)
THEOREM StoreImplemented == Spec => ImplementsStore
<1>1. Init => Store!Init
  <2> SUFFICES ASSUME Init PROVE Store!Init
    OBVIOUS
  <2>1. Joined(users, players) = {} /\ tokens = [c \in Clients |-> {}]
    BY DEF Init, Joined
  <2>2. HashPassword({}) = {}
    BY DEF HashPassword
  <2>3. \A c \in Clients : req[c].email = {} /\ req[c].password = {}
    BY DEF Init, NoRequest
  <2>4. [c \in Clients |-> [email |-> req[c].email, hash |-> HashPassword(req[c].password)]]
          = [c \in Clients |-> [email |-> {}, hash |-> {}]]
    BY <2>2, <2>3
  <2> QED BY <2>1, <2>4 DEF Store!Init
<1>2. Inv /\ Inv' /\ [Next]_vars => [Store!Next]_(Store!vars)
  <2> SUFFICES ASSUME Inv, Inv', [Next]_vars PROVE [Store!Next]_(Store!vars)
    OBVIOUS
  <2>1. ASSUME NEW c \in Clients, Ask(c) PROVE Store!Next
    BY <2>1, AskNew, AskStore DEF Inv, Store!Next
  <2>2. ASSUME NEW c \in Clients, Handle(c) \/ StatementFails(c) \/ CommitUnacknowledged(c)
        PROVE  [Store!Next]_(Store!vars)
    BY <2>2, HandleOutcome, OutcomeStore
  <2>3. CASE UNCHANGED <<req, users, players, tokens>>
    BY <2>3, StoreUnchanged DEF Sent
  <2>4. CASE Load \/ Connect \/ Signal \/ Drained \/ DrainTimeout \/ ListenFails \/ Exit
             \/ UNCHANGED vars
    BY <2>3, <2>4 DEF Load, Connect, Signal, Drained, DrainTimeout, ListenFails, Exit, Main, vars, db
  <2> QED BY <2>1, <2>2, <2>4 DEF Next
<1> QED BY <1>1, <1>2, InitInv, NextInv, PTL DEF Spec, ImplementsStore, Store!Spec
=============================================================================

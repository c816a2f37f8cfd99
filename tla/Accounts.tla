------------------------------ MODULE Accounts ------------------------------
(***************************************************************************)
(* The API server (cmd/api/main.go) from its configuration to its exit,    *)
(* and the accounts it keeps (internal/auth): registration, login, guests  *)
(* and the token a protected endpoint, here GET /players/me, asks for.     *)
(*                                                                         *)
(* Every client has a goroutine of the HTTP server.  One step is one SQL   *)
(* statement with the code up to the next one, an answer or a wait for a   *)
(* connection.  Postgres lets an insert wait for an open transaction that  *)
(* has inserted the same email.  A statement may fail, a commit also after *)
(* it was carried out.                                                     *)
(*                                                                         *)
(* Abstracted: names, texts, the bytes of hashes and signatures; a hash is *)
(* what bcrypt has read of a password.  A client keeps the last token it   *)
(* was given; one that is missing, malformed, expired or signed for        *)
(* somebody else is the request without a token.                           *)
(***************************************************************************)
EXTENDS Naturals, FiniteSets

CONSTANTS
  Clients,
  Emails,
  Inputs,      \* what clients send as their email
  Address,     \* the lower-case address in an input, {} if it does not parse
  Passwords,
  Length,      \* the number of bytes of each password
  Significant, \* each password as bcrypt reads it: no byte after the 72nd
  MaxConns,    \* connections of the pool
  AskBound,    \* bound: requests of one client
  FaultBound   \* bound: statements that fail

ASSUME AccountsAssumption ==
  /\ Address \in [Inputs -> SUBSET Emails]
  /\ \A i \in Inputs : Cardinality(Address[i]) <= 1
  /\ Length \in [Passwords -> Nat]
  /\ Significant \in [Passwords -> Passwords]
  /\ MaxConns \in Nat \ {0}
  /\ AskBound \in Nat /\ FaultBound \in Nat

VARIABLES
  env,      \* what the environment sets; {} once it was read
  signing,  \* JWTSecret is not empty
  proc,     \* where main is
  pool,     \* the connection pool; "none" if Postgres was not reached
  drained,  \* history: no request was cut off
  req,      \* the request each client waits for, or its last one
  asked,    \* requests of each client so far
  tokens,   \* the token each client holds
  users,    \* committed rows
  players,  \* committed rows
  touched,  \* users with a last_login_at
  faults    \* history: statements that failed

main == <<env, signing, proc, pool, drained>>
db   == <<users, players, touched>>
vars == <<main, req, asked, tokens, db, faults>>

(* Ids are generated: that of what a client's n-th request inserts.        *)
Ids   == Clients \X (1..AskBound)
Token == [user : Ids, player : Ids]
Facts == {"production", "postgres_password", "jwt_secret", "log_level", "ports", "ttl"}

InTx      == {"user", "player", "commit"}
Statement == InTx \cup {"begin", "lookup", "find", "touch", "me"}

Request ==
  [pc : Statement \cup {"idle", "token", "answered"},
   op : {"none", "register", "login", "guest", "me"},
   email : SUBSET Emails, password : SUBSET Passwords,
   user : SUBSET Ids, player : SUBSET Ids,
   status : {0, 200, 400, 401, 404, 409, 500, 501},
   failed : BOOLEAN,  \* history: one of its statements failed
   known : BOOLEAN]   \* history: its account was committed when it was asked

TypeOK ==
  /\ env \subseteq Facts /\ signing \in BOOLEAN
  /\ proc \in {"loading", "connecting", "serving", "draining", "closing", "exited"}
  /\ pool \in {"none", "open", "closed"}
  /\ drained \in BOOLEAN
  /\ req \in [Clients -> Request]
  /\ asked \in [Clients -> 0..AskBound]
  /\ tokens \in [Clients -> SUBSET Token]
  /\ users \subseteq [id : Ids, email : SUBSET Emails, hash : SUBSET Passwords]
  /\ players \subseteq [id : Ids, user : Ids]
  /\ touched \subseteq Ids
  /\ faults \in 0..FaultBound

NoRequest ==
  [pc |-> "idle", op |-> "none", email |-> {}, password |-> {}, user |-> {}, player |-> {},
   status |-> 0, failed |-> FALSE, known |-> FALSE]

Init ==
  /\ env \in SUBSET Facts /\ signing = FALSE
  /\ proc = "loading" /\ pool = "none" /\ drained = TRUE
  /\ req = [c \in Clients |-> NoRequest]
  /\ asked = [c \in Clients |-> 0]
  /\ tokens = [c \in Clients |-> {}]
  /\ users = {} /\ players = {} /\ touched = {}
  /\ faults = 0

-----------------------------------------------------------------------------
(* Start.                                                                  *)

(* Load: levels, ports and ttl are those that pass its checks.  Outside    *)
(* development the password and the secret of the JWTs must be set; the    *)
(* secret of the game tokens has a default everywhere.                     *)
Loads(e) ==
  /\ {"log_level", "ports", "ttl"} \subseteq e
  /\ "production" \in e => {"postgres_password", "jwt_secret"} \subseteq e

JWTSecret(e) == "jwt_secret" \in e \/ "production" \notin e

Load ==
  /\ proc = "loading"
  /\ proc' = IF Loads(env) THEN "connecting" ELSE "exited"
  /\ signing' = JWTSecret(env)
  /\ env' = {}
  /\ UNCHANGED <<pool, drained, req, asked, tokens, db, faults>>

(* database.New, once: a server that does not reach Postgres in time       *)
(* serves without it until it is started again.                            *)
Connect ==
  /\ proc = "connecting"
  /\ proc' = "serving"
  /\ pool' \in {"none", "open"}
  /\ UNCHANGED <<env, signing, drained, req, asked, tokens, db, faults>>

-----------------------------------------------------------------------------
(* Requests.                                                               *)

Running == proc \in {"serving", "draining", "closing"}
Resting(c) == req[c].pc \in {"idle", "answered"}

Answer(r, status) == [r EXCEPT !.pc = "answered", !.status = status]

Accept(c, r) ==
  /\ proc = "serving" /\ Resting(c) /\ asked[c] < AskBound
  /\ asked' = [asked EXCEPT ![c] = @ + 1]
  /\ req' = [req EXCEPT ![c] = r]
  /\ UNCHANGED <<main, tokens, db, faults>>

(* The mutant compares emails as they were typed.                          *)
NormalizeMutant(i) == {i}
NormalizeEmail(i) == Address[i]

ValidPassword(p) == Length[p] \in 8..128

(* bcrypt refuses to hash more than 72 bytes.                              *)
Hashable(p) == Length[p] <= 72

(* HashPassword makes a hash of what bcrypt reads; VerifyPassword compares *)
(* with that of the password it is given, however long that one is.        *)
HashPassword(w) == {Significant[p] : p \in w}

VerifyPassword(hash, w) == hash = HashPassword(w)

Matches(email, p) ==
  \E u \in users : u.email = email /\ u.email # {} /\ VerifyPassword(u.hash, {p})

Register(c, i, p) ==
  LET r == [NoRequest EXCEPT !.op = "register", !.email = NormalizeEmail(i), !.password = {p}]
  IN  Accept(c, IF pool = "none" THEN Answer(r, 501)
                ELSE IF r.email = {} \/ ~ValidPassword(p) THEN Answer(r, 400)
                ELSE IF ~Hashable(p) THEN Answer(r, 500)
                ELSE [r EXCEPT !.pc = "begin"])

Login(c, i, p) ==
  LET r == [NoRequest EXCEPT !.op = "login", !.email = NormalizeEmail(i), !.password = {p},
                             !.known = Matches(NormalizeEmail(i), p)]
  IN  Accept(c, IF pool = "none" THEN Answer(r, 501)
                ELSE IF r.email = {} THEN Answer(r, 401)
                ELSE [r EXCEPT !.pc = "lookup"])

Guest(c) ==
  LET r == [NoRequest EXCEPT !.op = "guest"]
  IN  Accept(c, IF pool = "none" THEN Answer(r, 501) ELSE [r EXCEPT !.pc = "begin"])

(* Middleware and Me: the route is there only with a database.             *)
Me(c, ts) ==
  LET r == [NoRequest EXCEPT !.op = "me", !.known = ts # {},
                             !.user = {t.user : t \in ts}, !.player = {t.player : t \in ts}]
  IN  Accept(c, IF pool = "none" THEN Answer(r, 404)
                ELSE IF ts = {} THEN Answer(r, 401)
                ELSE [r EXCEPT !.pc = "me"])

Ask(c) ==
  \/ \E i \in Inputs, p \in Passwords : Register(c, i, p) \/ Login(c, i, p)
  \/ Guest(c) \/ Me(c, {}) \/ Me(c, tokens[c])

-----------------------------------------------------------------------------
(* Statements.                                                             *)

(* A transaction keeps its connection until it is committed or rolled      *)
(* back, which every return does.  The mutant has no Rollback.             *)
HoldingMutant == {c \in Clients : req[c].pc \in InTx \/ req[c].status = 409}
Holding == {c \in Clients : req[c].pc \in InTx}

Conn == pool = "open" /\ Cardinality(Holding) < MaxConns

Step(c, label, r) ==
  /\ Running /\ req[c].pc = label
  /\ req' = [req EXCEPT ![c] = r]
  /\ UNCHANGED <<main, asked, faults>>

Id(c) == <<c, asked[c]>>

UserRow(c) ==
  [id |-> Id(c), email |-> req[c].email, hash |-> HashPassword(req[c].password)]
PlayerRow(c) == [id |-> Id(c), user |-> Id(c)]

BeginTx(c) ==
  /\ Conn
  /\ Step(c, "begin", [req[c] EXCEPT !.pc = "user"])
  /\ UNCHANGED <<tokens, db>>

(* INSERT INTO users waits while another open transaction has inserted the *)
(* same email.  The mutant inserts outside of the transaction.             *)
Waits(c) ==
  \E d \in Clients \ {c} :
    req[d].pc \in {"player", "commit"} /\ req[c].email # {} /\ req[d].email = req[c].email

Taken(c) == req[c].email # {} /\ \E u \in users : u.email = req[c].email

InsertedMutant(c) == users \cup {UserRow(c)}
Inserted(c) == users

InsertUser(c) ==
  /\ ~Waits(c)
  /\ Step(c, "user", IF Taken(c) THEN Answer(req[c], 409)
                     ELSE [req[c] EXCEPT !.pc = "player", !.user = {Id(c)}])
  /\ users' = IF req[c].pc = "user" /\ ~Taken(c) THEN Inserted(c) ELSE users
  /\ UNCHANGED <<tokens, players, touched>>

InsertPlayer(c) ==
  /\ Step(c, "player", [req[c] EXCEPT !.pc = "commit", !.player = {Id(c)}])
  /\ UNCHANGED <<tokens, db>>

CommitRows(c) ==
  /\ users' = users \cup {UserRow(c)}
  /\ players' = players \cup {PlayerRow(c)}
  /\ UNCHANGED <<tokens, touched>>

Commit(c) == Step(c, "commit", [req[c] EXCEPT !.pc = "token"]) /\ CommitRows(c)

(* Login.  Neither players.user_id nor a guest's email is unique; a guest  *)
(* has no email and is never found.                                        *)
LookupUser(c) ==
  LET found == {u \in users : /\ u.email = req[c].email
                              /\ VerifyPassword(u.hash, req[c].password)}
  IN  /\ Conn
      /\ Step(c, "lookup", IF found = {} THEN Answer(req[c], 401)
                           ELSE [req[c] EXCEPT !.pc = "find", !.user = {u.id : u \in found}])
      /\ UNCHANGED <<tokens, db>>

(* The mutant has no WHERE.                                                *)
PlayersOfMutant(us) == players
PlayersOf(us) == {p \in players : p.user \in us}

FindPlayer(c) ==
  LET found == PlayersOf(req[c].user)
  IN  /\ Conn
      /\ \E r \in IF found = {} THEN {Answer(req[c], 500)}
                 ELSE {[req[c] EXCEPT !.pc = "touch", !.player = {p.id}] : p \in found} :
            Step(c, "find", r)
      /\ UNCHANGED <<tokens, db>>

TouchLastLogin(c) ==
  /\ Conn
  /\ Step(c, "touch", [req[c] EXCEPT !.pc = "token"])
  /\ touched' = touched \cup req[c].user
  /\ UNCHANGED <<tokens, users, players>>

IssueAccessToken(c) ==
  /\ Step(c, "token", Answer(req[c], IF signing THEN 200 ELSE 500))
  /\ tokens' = [tokens EXCEPT ![c] =
       IF signing THEN {[user |-> u, player |-> p] : u \in req[c].user, p \in req[c].player}
       ELSE @]
  /\ UNCHANGED db

(* GetByID.                                                                *)
Profile(c) ==
  {p \in players : p.id \in req[c].player /\ \E u \in users : u.id = p.user}

ServeMe(c) ==
  /\ Conn
  /\ Step(c, "me", Answer(req[c], IF Profile(c) = {} THEN 404 ELSE 200))
  /\ UNCHANGED <<tokens, db>>

(* How the code goes on after a statement that failed: an update of        *)
(* last_login_at may fail, a lookup is a user that is not there, and so is *)
(* a profile.                                                              *)
AfterError(r) ==
  CASE r.pc = "touch"  -> [r EXCEPT !.pc = "token"]
    [] r.pc = "lookup" -> Answer(r, 401)
    [] r.pc = "me"     -> Answer(r, 404)
    [] OTHER           -> Answer(r, 500)

Fails(c) ==
  /\ Running /\ req[c].pc \in Statement /\ faults < FaultBound
  /\ faults' = faults + 1
  /\ req' = [req EXCEPT ![c] = AfterError([req[c] EXCEPT !.failed = TRUE])]
  /\ UNCHANGED <<main, asked>>

StatementFails(c) == Fails(c) /\ UNCHANGED <<tokens, db>>

CommitUnacknowledged(c) == req[c].pc = "commit" /\ Fails(c) /\ CommitRows(c)

(* A closed pool lends no connection; one that is lent stays good.         *)
PoolRefuses(c) ==
  /\ pool = "closed" /\ req[c].pc \in Statement \ InTx
  /\ Step(c, req[c].pc, AfterError(req[c]))
  /\ UNCHANGED <<tokens, db>>

Handle(c) ==
  \/ BeginTx(c) \/ InsertUser(c) \/ InsertPlayer(c) \/ Commit(c)
  \/ LookupUser(c) \/ FindPlayer(c) \/ TouchLastLogin(c)
  \/ IssueAccessToken(c) \/ ServeMe(c) \/ PoolRefuses(c)

-----------------------------------------------------------------------------
(* End.                                                                    *)

Main(from, to) ==
  /\ proc = from /\ proc' = to
  /\ UNCHANGED <<env, signing, req, asked, tokens, db, faults>>

(* pool.Close, which refuses new loans at once.                            *)
ClosePool == pool' = IF pool = "open" THEN "closed" ELSE pool

Signal == Main("serving", "draining") /\ UNCHANGED <<pool, drained>>

(* Shutdown waits for the requests that were accepted.                     *)
QuietMutant == TRUE
Quiet == \A c \in Clients : Resting(c)

Drained == Quiet /\ Main("draining", "closing") /\ ClosePool /\ UNCHANGED drained

(* Ten seconds are over, or the listener failed.                           *)
DrainTimeout == ~Quiet /\ Main("draining", "closing") /\ ClosePool /\ drained' = FALSE

ListenFails == Main("serving", "closing") /\ ClosePool /\ drained' = FALSE

(* pool.Close returns when every connection was given back.                *)
Exit == Holding = {} /\ Main("closing", "exited") /\ UNCHANGED <<pool, drained>>

-----------------------------------------------------------------------------
Next ==
  \/ Load \/ Connect
  \/ \E c \in Clients : Ask(c) \/ Handle(c) \/ StatementFails(c) \/ CommitUnacknowledged(c)
  \/ Signal \/ Drained \/ DrainTimeout \/ ListenFails \/ Exit

Spec == Init /\ [][Next]_vars

(* Fairness.  Statements return and Shutdown has a deadline; nobody needs  *)
(* to ask, or to stop the server.                                          *)
FairSpec ==
  /\ Spec
  /\ \A c \in Clients : WF_vars(Handle(c))
  /\ WF_vars(Drained) /\ WF_vars(DrainTimeout) /\ WF_vars(Exit)

-----------------------------------------------------------------------------
(* Safety.                                                                 *)

(* Accounts are whole: whatever fails and whoever races for an email,      *)
(* every user has one player and every player its user, and an email has   *)
(* one account (CreateUserWithPlayer, CreateGuest).                        *)
AccountsWhole ==
  /\ \A u \in users : Cardinality({p \in players : p.user = u.id}) = 1
  /\ \A p \in players : \E u \in users : u.id = p.user
  /\ \A u, v \in users : u.email = v.email /\ u.email # {} => u = v

(* A token is an account: what a client was answered with 200 is in the    *)
(* database, under the email it sent and the hash of the password it sent, *)
(* and the user and the player in its token belong together.               *)
TokensAreAccounts ==
  \A c \in Clients :
    /\ \A t \in tokens[c] : [id |-> t.player, user |-> t.user] \in players
    /\ req[c].status = 200 /\ req[c].op # "me" =>
         \E u \in users : /\ req[c].user = {u.id}
                          /\ u.email = req[c].email
                          /\ VerifyPassword(u.hash, req[c].password)

(* Requests are answered on their merits.  A conflict is an account that   *)
(* is there, not one that was about to be.  Unless a statement of its own  *)
(* failed or it was cut off, a request of the right client is not refused, *)
(* though the server is told to stop meanwhile; only a password that       *)
(* cannot be hashed is a failure of the server.                            *)
AnsweredOnMerits ==
  \A c \in Clients :
    LET r == req[c] IN
    r.pc = "answered" /\ pool # "none" =>
      /\ r.status = 409 => \E u \in users : u.email = r.email
      /\ ~r.failed /\ drained =>
           /\ r.known => r.status = 200
           /\ r.status = 500 => \E p \in r.password : ValidPassword(p) /\ ~Hashable(p)

-----------------------------------------------------------------------------
(* What the accounts promise, with statements and failures left out: see   *)
(* AccountStore.  An account is a user joined with its player; the id of a *)
(* user says whose request inserted it.                                    *)

Account(u, p) ==
  [by |-> u.id[1], user |-> u.id, player |-> p.id, email |-> u.email, hash |-> u.hash]

Joined(us, ps) == {Account(x[1], x[2]) : x \in {y \in us \X ps : y[2].user = y[1].id}}

Store == INSTANCE AccountStore
           WITH Hashes <- Passwords,
                accounts <- Joined(users, players),
                sent <- [c \in Clients |-> [email |-> req[c].email,
                                            hash |-> HashPassword(req[c].password)]]

(* Accounts come into being whole, one at a time, and are never changed,   *)
(* whatever statement fails or is not acknowledged; tokens go to those who *)
(* sent the email and a password with the same hash, or asked for the      *)
(* guest (CreateUserWithPlayer, CreateGuest, Login).  A hash is of 72      *)
(* bytes at most: a longer password that begins with the right one is one. *)
ImplementsStore == Store!Spec

-----------------------------------------------------------------------------
(* Liveness, under FairSpec.                                               *)

(* The server stops when it is told to, also when requests, or             *)
(* registrations that wait for each other, fill the pool.                  *)
ShutdownEnds == proc = "draining" ~> proc = "exited"
=============================================================================

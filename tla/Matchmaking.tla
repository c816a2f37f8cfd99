---------------------------- MODULE Matchmaking ----------------------------
(***************************************************************************)
(* POST /matchmaking/join and what the game server later does with the     *)
(* game token (internal/matchmaking): the API's handlers assign players to *)
(* matches through the table matchmaking_assignments, over a pool of       *)
(* database connections; the goroutines that handle JoinRaceRequest verify *)
(* and consume the tokens.                                                 *)
(*                                                                         *)
(* One step is one SQL statement, or the code between two of them.  A      *)
(* statement may fail, before or after Postgres has carried it out, and a  *)
(* request may be given up by its client, which cancels its context.       *)
(*                                                                         *)
(* Abstracted: a token is what it is computed from, so two tokens signed   *)
(* for one player and match in the same second are equal.  uuid.New is a   *)
(* counter.  The clock ticks in seconds.  Clients present tokens they were *)
(* handed; any other finds no row and changes nothing.                     *)
(***************************************************************************)
EXTENDS Naturals, Sequences, FiniteSets

CONSTANTS
  Players,             \* player ids
  Requests,            \* HTTP handlers that may be at work at the same time
  Verifiers,           \* goroutines that call VerifyAndConsume
  MaxPlayersPerMatch,
  MaxConns,            \* size of the API's connection pool
  TokenTTL,
  Horizon,             \* bound: the second in which the clock stops
  JoinBound            \* bound: joins that may store a row or mint a match

ASSUME MatchmakingAssumption ==
  /\ Players # {}
  /\ IsFiniteSet(Requests)
  /\ MaxPlayersPerMatch \in Nat \ {0}
  /\ MaxConns \in Nat
  /\ TokenTTL \in Nat
  /\ Horizon \in Nat
  /\ JoinBound \in Nat

VARIABLES
  now,
  minted,     \* how many match ids exist; they are 1..minted
  rows,       \* matchmaking_assignments, in the order of created_at
  req,        \* what each HTTP handler is doing
  busy,       \* connections kept by open result sets
  delivered,  \* tokens handed to clients
  ver,        \* what each verifier is doing
  accepted    \* history: the tokens for which VerifyAndConsume returned nil

api  == <<minted, req, busy, delivered>>
game == <<ver, accepted>>
vars == <<now, rows, api, game>>

Token   == [match : Nat, player : Players, exp : Nat]
Row     == [match : Nat, player : Players, exp : Nat, consumed : BOOLEAN]
Request == [pc : {"idle", "pick", "count", "sign", "insert"},
            player : Players, at : Nat, match : Nat, exp : Nat]
Verifier == [pc : {"idle", "checked"}, token : Token]

TypeOK ==
  /\ now \in Nat
  /\ minted \in Nat
  /\ rows \in Seq(Row)
  /\ req \in [Requests -> Request]
  /\ busy \in 0..MaxConns
  /\ delivered \subseteq Token
  /\ ver \in [Verifiers -> Verifier]
  /\ accepted \in Seq(Token)

(* What was local to a call that has returned is gone.                     *)
Nobody == CHOOSE p \in Players : TRUE
NoRequest == [pc |-> "idle", player |-> Nobody, at |-> 0, match |-> 0, exp |-> 0]
NoCall == [pc |-> "idle", token |-> [match |-> 0, player |-> Nobody, exp |-> 0]]

Init ==
  /\ now = 0 /\ minted = 0 /\ rows = <<>>
  /\ req = [r \in Requests |-> NoRequest] /\ busy = 0 /\ delivered = {}
  /\ ver = [v \in Verifiers |-> NoCall] /\ accepted = <<>>

-----------------------------------------------------------------------------
(* The queries.                                                            *)

(* Rows of match m that are neither consumed nor expired at time t.        *)
Active(m, t) ==
  {i \in DOMAIN rows : rows[i].match = m /\ ~rows[i].consumed /\ rows[i].exp > t}

HasRoomMutant(m, t) == Cardinality(Active(m, t)) <= MaxPlayersPerMatch
HasRoom(m, t) == Cardinality(Active(m, t)) < MaxPlayersPerMatch

(* Rows of the matches the first query of findOrCreateMatch groups and     *)
(* keeps; its ORDER BY picks the match of the youngest of them.            *)
Pending(t) ==
  {i \in UNION {Active(m, t) : m \in 1..minted} : HasRoom(rows[i].match, t)}

Newest(t) == {i \in Pending(t) : \A j \in Pending(t) : j <= i}

TokenOf(row) == [match |-> row.match, player |-> row.player, exp |-> row.exp]
RowsOf(t) == {i \in DOMAIN rows : TokenOf(rows[i]) = t}

(* A statement needs a connection nobody keeps.                            *)
Connected == busy < MaxConns

-----------------------------------------------------------------------------
(* Service.Join.                                                           *)

(* The handler returns; findOrCreateMatch returns match m.                 *)
Return(r, from) == req[r].pc = from /\ req' = [req EXCEPT ![r] = NoRequest]

Assign(r, from, m) ==
  /\ req[r].pc = from
  /\ req' = [req EXCEPT ![r] = [@ EXCEPT !.pc = "sign", !.match = m, !.at = 0]]

InFlight == {r \in Requests : req[r].pc # "idle"}

Begin(r, p) ==
  /\ req[r].pc = "idle"
  /\ Len(rows) + Cardinality(InFlight) < JoinBound
  /\ minted + Cardinality(InFlight) < JoinBound
  /\ req' = [req EXCEPT ![r] = [@ EXCEPT !.pc = "pick", !.player = p, !.at = now]]
  /\ UNCHANGED <<now, rows, minted, busy, delivered, game>>

(* The first query.  Its result set, when it has a row, stays open until   *)
(* findOrCreateMatch returns, and keeps its connection.                    *)
PickFound(r) ==
  /\ Connected
  /\ req[r].pc = "pick"
  /\ \E i \in Newest(req[r].at) :
       req' = [req EXCEPT ![r] = [@ EXCEPT !.pc = "count", !.match = rows[i].match]]
  /\ busy' = busy + 1
  /\ UNCHANGED <<now, rows, minted, delivered, game>>

(* The query finds nothing, or fails while it runs: rows.Next then says no *)
(* in the same way, and nobody asks for rows.Err.                          *)
PickNone(r) ==
  /\ Connected
  /\ Assign(r, "pick", minted + 1)
  /\ minted' = minted + 1
  /\ UNCHANGED <<now, rows, busy, delivered, game>>

(* CountForMatch, on a second connection; then the deferred rows.Close,    *)
(* which an error or the end of the context runs as well.                  *)
TwiceMutant(r) == busy - 1
ClosedMutant(r) == busy
Closed(r) == IF req[r].pc = "count" THEN busy - 1 ELSE busy

CountRoom(r) ==
  /\ Connected /\ HasRoom(req[r].match, req[r].at)
  /\ Assign(r, "count", req[r].match)
  /\ busy' = Closed(r)
  /\ UNCHANGED <<now, rows, minted, delivered, game>>

CountFull(r) ==
  /\ Connected /\ ~HasRoom(req[r].match, req[r].at)
  /\ Assign(r, "count", minted + 1)
  /\ minted' = minted + 1
  /\ busy' = Closed(r)
  /\ UNCHANGED <<now, rows, delivered, game>>

(* SignGameToken, with a clock reading of its own.                         *)
Sign(r) ==
  /\ req[r].pc = "sign"
  /\ req' = [req EXCEPT ![r] = [@ EXCEPT !.pc = "insert", !.exp = now + TokenTTL]]
  /\ UNCHANGED <<now, rows, minted, busy, delivered, game>>

NewRow(r) ==
  [match |-> req[r].match, player |-> req[r].player, exp |-> req[r].exp, consumed |-> FALSE]

(* CreateAssignment, and the answer to the client.                         *)
Insert(r) ==
  /\ Connected
  /\ Return(r, "insert")
  /\ rows' = Append(rows, NewRow(r))
  /\ delivered' = delivered \cup {TokenOf(NewRow(r))}
  /\ UNCHANGED <<now, minted, busy, game>>

(* The row is stored but the acknowledgement is lost: the client gets an   *)
(* error and no token.                                                     *)
InsertUnacknowledged(r) ==
  /\ Connected
  /\ Return(r, "insert")
  /\ rows' = Append(rows, NewRow(r))
  /\ UNCHANGED <<now, minted, busy, delivered, game>>

(* A statement fails, or the client goes away while the handler works or   *)
(* waits for a connection.                                                 *)
Failed(r) ==
  /\ req[r].pc \in {"pick", "count", "insert"}
  /\ Return(r, req[r].pc)
  /\ busy' = Closed(r)
  /\ UNCHANGED <<now, rows, minted, delivered, game>>

-----------------------------------------------------------------------------
(* Repo.VerifyAndConsume.  SELECT takes any row that carries the token; a  *)
(* consumed or expired one ends the call with an error and no effect.      *)
FreshMutant(i) == now <= rows[i].exp
Fresh(i) == ~rows[i].consumed /\ now <= rows[i].exp

Check(v, t) ==
  /\ ver[v].pc = "idle"
  /\ \E i \in RowsOf(t) : Fresh(i)
  /\ ver' = [ver EXCEPT ![v] = [pc |-> "checked", token |-> t]]
  /\ UNCHANGED <<now, rows, api, accepted>>

(* The UPDATE flips every unconsumed row of the token, be it none.         *)
FlippedMutant(t) ==
  LET i == CHOOSE j \in RowsOf(t) : ~rows[j].consumed
  IN  [rows EXCEPT ![i] = [@ EXCEPT !.consumed = TRUE]]
Flipped(t) ==
  [i \in DOMAIN rows |->
     [match |-> rows[i].match, player |-> rows[i].player, exp |-> rows[i].exp,
      consumed |-> rows[i].consumed \/ TokenOf(rows[i]) = t]]

Consume(v) ==
  /\ ver[v].pc = "checked"
  /\ ver' = [ver EXCEPT ![v] = NoCall]
  /\ rows' = Flipped(ver[v].token)
  /\ accepted' = Append(accepted, ver[v].token)
  /\ UNCHANGED <<now, api>>

(* The UPDATE fails, or succeeds without the game server hearing of it:    *)
(* the join is refused, and in the second case the token is gone.          *)
ConsumeFails(v) ==
  /\ ver[v].pc = "checked"
  /\ ver' = [ver EXCEPT ![v] = NoCall]
  /\ rows' \in {rows, Flipped(ver[v].token)}
  /\ UNCHANGED <<now, api, accepted>>

Tick ==
  /\ now < Horizon
  /\ now' = now + 1
  /\ UNCHANGED <<rows, api, game>>

-----------------------------------------------------------------------------
Join(r) ==
  \/ PickFound(r) \/ PickNone(r) \/ CountRoom(r) \/ CountFull(r) \/ Sign(r) \/ Insert(r)

Next ==
  \/ \E r \in Requests :
       \/ \E p \in Players : Begin(r, p)
       \/ Join(r) \/ InsertUnacknowledged(r) \/ Failed(r)
  \/ \E v \in Verifiers : Consume(v) \/ ConsumeFails(v) \/ \E t \in delivered : Check(v, t)
  \/ Tick

Spec == Init /\ [][Next]_vars

(* Fairness.  A handler is a goroutine of its own; the pool hands out      *)
(* connections in the order they are asked for, so one that becomes free   *)
(* again and again is had in the end.  Clients and failures owe nothing.   *)
FairSpec == Spec /\ \A r \in Requests : SF_vars(Join(r))

-----------------------------------------------------------------------------
(* Safety.                                                                 *)

(* The cap is counted first and used later, by handlers that do not wait   *)
(* for one another: a match may be overbooked, but by no more than one     *)
(* place for each other handler at work (findOrCreateMatch against         *)
(* CreateAssignment).                                                      *)
Deciding(m) == {r \in Requests : req[r].pc \in {"sign", "insert"} /\ req[r].match = m}

OverbookingBounded ==
  \A m \in 1..minted :
    Cardinality(Active(m, now)) + Cardinality(Deciding(m))
      < MaxPlayersPerMatch + Cardinality(Requests)

Used(t) == {i \in DOMAIN accepted : accepted[i] = t}

(* One token, one race join: a token is accepted at most as often as it    *)
(* was assigned, although VerifyAndConsume checks and consumes in two      *)
(* statements of which either may fail.  It holds because one goroutine    *)
(* reads the socket (UDPServer.Serve) and handles every JoinRaceRequest.   *)
SingleUse == \A t \in delivered : Cardinality(Used(t)) <= Cardinality(RowsOf(t))

(* A client holds no token the game server could not find: whatever fails  *)
(* on the way, the row is there before the answer (Service.Join).          *)
TokenBacked == \A t \in delivered : RowsOf(t) # {}

-----------------------------------------------------------------------------
(* The contract of the tokens.  A token is fresh as long as a row of it is *)
(* not consumed.                                                           *)
Unused == {TokenOf(rows[i]) : i \in {j \in DOMAIN rows : ~rows[j].consumed}}

Admitted == [t \in {accepted[i] : i \in DOMAIN accepted} |-> Cardinality(Used(t))]

GameTokens == INSTANCE GameTokens WITH
  Tokens <- Token, held <- delivered, fresh <- Unused, admitted <- Admitted

(* The two statements of VerifyAndConsume, the row stored before the       *)
(* answer, and whatever fails in between amount to GameTokens: what is     *)
(* handed out is in the table, and what is accepted is used up, also when  *)
(* equal tokens have several rows.  Again one goroutine verifies.          *)
ImplementsTokens == GameTokens!Spec

-----------------------------------------------------------------------------
(* Liveness, under FairSpec.                                               *)

(* Every join is answered, with a token or an error.  It takes a pool of   *)
(* more connections than there are handlers: one of them may keep a        *)
(* connection while it waits for its second.                               *)
JoinAnswered == \A r \in Requests : req[r].pc # "idle" ~> req[r].pc = "idle"

-----------------------------------------------------------------------------
(* What the documents say and the code does not do.                        *)

(* docs/openapi.yaml: at most 4 players per match.  The players who have   *)
(* used their token are not counted when the next one is assigned.         *)
Assigned(m) ==
  {rows[i].player : i \in {j \in DOMAIN rows :
                             rows[j].match = m /\ (rows[j].consumed \/ rows[j].exp > now)}}

MatchCap == \A m \in 1..minted : Cardinality(Assigned(m)) <= MaxPlayersPerMatch
=============================================================================

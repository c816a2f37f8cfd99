------------------------- MODULE MatchmakingProofs -------------------------
(***************************************************************************)
(* Theorems about Matchmaking, for any number of players, handlers,        *)
(* verifiers and connections and any cap.                                  *)
(***************************************************************************)
EXTENDS Matchmaking, TLAPS, FiniteSetTheorems

(* Every open result set belongs to a handler that is about to count.      *)
Counting == {r \in Requests : req[r].pc = "count"}
BusyInv  == busy = Cardinality(Counting)

(* Matches are minted before they are named, and a handler's clock reading *)
(* is not ahead of the clock.                                              *)
KnownInv ==
  /\ \A i \in DOMAIN rows : rows[i].match \in 1..minted
  /\ \A r \in Requests :
       /\ req[r].pc \in {"count", "sign", "insert"} => req[r].match \in 1..minted
       /\ req[r].pc \in {"pick", "count"} => req[r].at <= now

(* What is in somebody's hands has its row.                                *)
BackedInv ==
  /\ \A t \in delivered : RowsOf(t) # {}
  /\ \A v \in Verifiers : ver[v].pc = "checked" => ver[v].token \in delivered

-----------------------------------------------------------------------------
(* Values.                                                                 *)

LEMMA NobodyPlays == Nobody \in Players
BY MatchmakingAssumption DEF Nobody

LEMMA IdleType == NoRequest \in Request /\ NoCall \in Verifier
BY NobodyPlays DEF NoRequest, Request, NoCall, Verifier, Token

LEMMA NewRowType ==
  ASSUME TypeOK, NEW r \in Requests
  PROVE  NewRow(r) \in Row /\ TokenOf(NewRow(r)) \in Token
BY DEF TypeOK, NewRow, TokenOf, Row, Token, Request

LEMMA AssignType ==
  ASSUME TypeOK, NEW r \in Requests, NEW from, NEW m \in Nat, Assign(r, from, m)
  PROVE  req' \in [Requests -> Request]
BY DEF TypeOK, Assign, Request

LEMMA FlippedType ==
  ASSUME TypeOK, NEW t
  PROVE  /\ Flipped(t) \in Seq(Row) /\ DOMAIN Flipped(t) = DOMAIN rows
         /\ \A i \in DOMAIN rows :
              /\ TokenOf(Flipped(t)[i]) = TokenOf(rows[i])
              /\ Flipped(t)[i].match = rows[i].match
              /\ Flipped(t)[i].exp = rows[i].exp
              /\ rows[i].consumed => Flipped(t)[i].consumed
<1>1. rows \in Seq(Row)
  BY DEF TypeOK
<1>2. \A i \in DOMAIN rows : rows[i] \in Row
  BY <1>1
<1>3. \A i \in DOMAIN rows : Flipped(t)[i] \in Row
  BY <1>2 DEF Flipped, Row
<1>4. DOMAIN Flipped(t) = 1..Len(rows) /\ Len(rows) \in Nat
  BY <1>1 DEF Flipped
<1>5. Flipped(t) \in [1..Len(rows) -> Row]
  BY <1>1, <1>3, <1>4 DEF Flipped
<1>6. Flipped(t) \in Seq(Row)
  BY <1>4, <1>5
<1> QED BY <1>2, <1>4, <1>6 DEF Flipped, TokenOf

(* The queries range over rows.                                            *)
LEMMA ActiveRows ==
  ASSUME TypeOK, NEW t, NEW i \in Pending(t)
  PROVE  i \in DOMAIN rows /\ rows[i] \in Row /\ rows[i].match \in 1..minted
<1>1. PICK m \in 1..minted : i \in Active(m, t)
  BY DEF Pending
<1> QED BY <1>1 DEF Active, TypeOK

-----------------------------------------------------------------------------
(* Types, together with what busy counts: that the pool never goes below   *)
(* zero rests on it.                                                       *)
Inv == TypeOK /\ BusyInv /\ KnownInv

LEMMA CountingFinite == IsFiniteSet(Counting) /\ Cardinality(Counting) \in Nat
BY MatchmakingAssumption, FS_Subset, FS_CardinalityType DEF Counting

(* A handler that counts has its connection among the busy ones.           *)
LEMMA CountingBusy ==
  ASSUME TypeOK, BusyInv, NEW r \in Requests, req[r].pc = "count"
  PROVE  busy \in 1..MaxConns /\ Cardinality(Counting \ {r}) = busy - 1
<1>1. r \in Counting
  BY DEF Counting
<1>2. Cardinality(Counting \ {r}) = Cardinality(Counting) - 1
  BY <1>1, CountingFinite, FS_RemoveElement
<1>3. Cardinality(Counting \ {r}) \in Nat
  BY CountingFinite, FS_Subset, FS_CardinalityType, Counting \ {r} \subseteq Counting
<1> QED BY <1>2, <1>3, CountingFinite, MatchmakingAssumption DEF BusyInv, TypeOK

LEMMA InvInit == Init => Inv
<1> SUFFICES ASSUME Init PROVE Inv
  OBVIOUS
<1>1. \A r \in Requests : req[r] = NoRequest
  BY DEF Init
<1>2. TypeOK
  <2>1. rows \in Seq(Row) /\ accepted \in Seq(Token)
    BY DEF Init
  <2>2. req \in [Requests -> Request] /\ ver \in [Verifiers -> Verifier]
    BY IdleType DEF Init
  <2> QED BY <2>1, <2>2, MatchmakingAssumption DEF Init, TypeOK
<1>3. Counting = {}
  BY <1>1 DEF Counting, NoRequest
<1>4. BusyInv
  BY <1>3, FS_EmptySet DEF Init, BusyInv
<1>5. KnownInv
  BY <1>1 DEF Init, KnownInv, NoRequest
<1> QED BY <1>2, <1>4, <1>5 DEF Inv

(* The closing of the result set, on every way out of a count.             *)
LEMMA ClosedType ==
  ASSUME TypeOK, BusyInv, NEW r \in Requests
  PROVE  Closed(r) \in 0..MaxConns
<1>1. CASE req[r].pc = "count"
  <2>1. busy \in 1..MaxConns /\ Closed(r) = busy - 1
    BY <1>1, CountingBusy DEF Closed
  <2> QED BY <2>1, MatchmakingAssumption
<1>2. CASE req[r].pc # "count"
  BY <1>2 DEF Closed, TypeOK
<1> QED BY <1>1, <1>2

LEMMA TypeStep == Inv /\ [Next]_vars => TypeOK'
<1> SUFFICES ASSUME Inv, [Next]_vars PROVE TypeOK'
  OBVIOUS
<1> USE MatchmakingAssumption
<1>0. TypeOK /\ BusyInv /\ KnownInv
  BY DEF Inv
<1>1. ASSUME NEW r \in Requests, NEW p \in Players, Begin(r, p) PROVE TypeOK'
  BY <1>0, <1>1 DEF Begin, TypeOK, Request, game
<1>2. ASSUME NEW r \in Requests, PickFound(r) PROVE TypeOK'
  <2>1. PICK i \in Newest(req[r].at) :
          req' = [req EXCEPT ![r] = [@ EXCEPT !.pc = "count", !.match = rows[i].match]]
    BY <1>2 DEF PickFound
  <2>2. rows[i].match \in Nat
    BY <1>0, ActiveRows DEF Newest, Pending, TypeOK, Row
  <2>3. req' \in [Requests -> Request]
    BY <1>0, <2>1, <2>2 DEF TypeOK, Request
  <2>4. busy' \in 0..MaxConns
    <3>1. busy \in 0..MaxConns /\ busy < MaxConns /\ busy' = busy + 1
      BY <1>0, <1>2 DEF PickFound, Connected, TypeOK
    <3> QED BY <3>1
  <2> QED BY <1>0, <1>2, <2>3, <2>4 DEF PickFound, TypeOK, game
<1>3. ASSUME NEW r \in Requests, PickNone(r) \/ CountFull(r) PROVE TypeOK'
  <2>1. minted + 1 \in Nat /\ minted' = minted + 1
    BY <1>0, <1>3 DEF PickNone, CountFull, TypeOK
  <2>2. req' \in [Requests -> Request]
    BY <1>0, <1>3, <2>1, AssignType DEF PickNone, CountFull
  <2>3. busy' \in 0..MaxConns
    BY <1>0, <1>3, ClosedType DEF PickNone, CountFull, TypeOK
  <2> QED BY <1>0, <1>3, <2>1, <2>2, <2>3 DEF PickNone, CountFull, TypeOK, game
<1>4. ASSUME NEW r \in Requests, CountRoom(r) PROVE TypeOK'
  BY <1>0, <1>4, ClosedType DEF CountRoom, Assign, TypeOK, Request, game
<1>6. ASSUME NEW r \in Requests, Sign(r) PROVE TypeOK'
  <2>1. now + TokenTTL \in Nat
    BY <1>0 DEF TypeOK
  <2>2. req' \in [Requests -> Request]
    BY <1>0, <1>6, <2>1 DEF Sign, TypeOK, Request
  <2> QED BY <1>0, <1>6, <2>2 DEF Sign, TypeOK, game
<1>7. ASSUME NEW r \in Requests, Insert(r) \/ InsertUnacknowledged(r) PROVE TypeOK'
  <2>1. rows' \in Seq(Row)
    <3>1. rows \in Seq(Row) /\ NewRow(r) \in Row
      BY <1>0, NewRowType DEF TypeOK
    <3>2. rows' = Append(rows, NewRow(r))
      BY <1>7 DEF Insert, InsertUnacknowledged
    <3> QED BY <3>1, <3>2
  <2>2. delivered' \subseteq Token
    BY <1>0, <1>7, NewRowType DEF Insert, InsertUnacknowledged, TypeOK
  <2>3. req' \in [Requests -> Request]
    BY <1>0, <1>7, IdleType DEF Insert, InsertUnacknowledged, Return, TypeOK
  <2> QED
    BY <1>0, <1>7, <2>1, <2>2, <2>3 DEF Insert, InsertUnacknowledged, TypeOK, game
<1>8. ASSUME NEW r \in Requests, Failed(r) PROVE TypeOK'
  BY <1>0, <1>8, ClosedType, IdleType DEF Failed, Return, TypeOK, game
<1>9. ASSUME NEW v \in Verifiers, NEW t \in delivered, Check(v, t) PROVE TypeOK'
  BY <1>0, <1>9 DEF Check, TypeOK, Verifier, api
<1>10. ASSUME NEW v \in Verifiers, Consume(v) \/ ConsumeFails(v) PROVE TypeOK'
  <2>1. rows' \in Seq(Row)
    BY <1>0, <1>10, FlippedType DEF Consume, ConsumeFails, TypeOK
  <2>2. ver[v].token \in Token
    BY <1>0 DEF TypeOK, Verifier
  <2>3. accepted' \in Seq(Token)
    <3>1. accepted \in Seq(Token)
      BY <1>0 DEF TypeOK
    <3>2. accepted' \in {accepted, Append(accepted, ver[v].token)}
      BY <1>10 DEF Consume, ConsumeFails
    <3> QED BY <2>2, <3>1, <3>2
  <2>4. ver' \in [Verifiers -> Verifier]
    BY <1>0, <1>10, IdleType DEF Consume, ConsumeFails, TypeOK
  <2> QED
    BY <1>0, <1>10, <2>1, <2>3, <2>4 DEF Consume, ConsumeFails, TypeOK, api
<1>11. CASE Tick
  BY <1>0, <1>11 DEF Tick, TypeOK, api, game
<1>12. CASE UNCHANGED vars
  BY <1>0, <1>12 DEF vars, TypeOK, api, game
<1> QED
  BY <1>1, <1>2, <1>3, <1>4, <1>6, <1>7, <1>8, <1>9, <1>10, <1>11, <1>12 DEF Next, Join

-----------------------------------------------------------------------------
(* A step of one handler leaves the others where they are.                 *)
Handles(r) ==
  (\E p \in Players : Begin(r, p)) \/ Join(r) \/ InsertUnacknowledged(r) \/ Failed(r)

LEMMA OneHandler ==
  ASSUME TypeOK, NEW r \in Requests, Handles(r)
  PROVE  \A s \in Requests \ {r} : req'[s] = req[s]
<1> USE DEF TypeOK
<1>1. CASE (\E p \in Players : Begin(r, p)) \/ Sign(r)
  BY <1>1 DEF Begin, Sign
<1>2. CASE PickFound(r)
  BY <1>2 DEF PickFound
<1>3. CASE PickNone(r) \/ CountRoom(r) \/ CountFull(r)
  BY <1>3 DEF PickNone, CountRoom, CountFull, Assign
<1>4. CASE Insert(r) \/ InsertUnacknowledged(r) \/ Failed(r)
  BY <1>4 DEF Insert, InsertUnacknowledged, Failed, Return
<1> QED BY <1>1, <1>2, <1>3, <1>4 DEF Handles, Join

(* busy counts the open result sets.                                       *)
LEMMA BusyStep == Inv /\ [Next]_vars => BusyInv'
<1> SUFFICES ASSUME Inv, [Next]_vars PROVE BusyInv'
  OBVIOUS
<1>0. TypeOK /\ BusyInv /\ req \in [Requests -> Request]
  BY DEF Inv, TypeOK
<1>1. ASSUME NEW r \in Requests, PickFound(r) PROVE BusyInv'
  <2>1. r \notin Counting /\ Counting' = Counting \cup {r}
    BY <1>0, <1>1 DEF PickFound, Counting, Request
  <2>2. Cardinality(Counting') = Cardinality(Counting) + 1
    BY <2>1, CountingFinite, FS_AddElement
  <2> QED BY <1>0, <1>1, <2>2 DEF PickFound, BusyInv
<1>2. ASSUME NEW r \in Requests,
             CountRoom(r) \/ CountFull(r) \/ (Failed(r) /\ req[r].pc = "count")
      PROVE  BusyInv'
  <2>1. req[r].pc = "count" /\ busy' = busy - 1
    BY <1>2 DEF CountRoom, CountFull, Failed, Assign, Closed
  <2>2. req'[r].pc # "count"
    <3>1. CASE CountRoom(r) \/ CountFull(r)
      <4>1. req'[r].pc = "sign"
        BY <1>0, <3>1 DEF CountRoom, CountFull, Assign, Request
      <4> QED BY <4>1
    <3>2. CASE Failed(r)
      BY <1>0, <3>2 DEF Failed, Return, NoRequest
    <3> QED BY <1>2, <3>1, <3>2
  <2>3. \A s \in Requests \ {r} : req'[s] = req[s]
    BY <1>0, <1>2, OneHandler DEF Handles, Join
  <2>4. Counting' = Counting \ {r}
    BY <2>1, <2>2, <2>3 DEF Counting
  <2> QED BY <1>0, <2>1, <2>4, CountingBusy DEF BusyInv
<1>3. ASSUME NEW r \in Requests,
             \/ \E p \in Players : Begin(r, p)
             \/ PickNone(r) \/ Sign(r) \/ Insert(r) \/ InsertUnacknowledged(r)
             \/ (Failed(r) /\ req[r].pc # "count")
      PROVE  BusyInv'
  <2>1. busy' = busy
    BY <1>3 DEF Begin, PickNone, Sign, Insert, InsertUnacknowledged, Failed, Closed
  <2>2. req[r].pc # "count"
    BY <1>3 DEF Begin, PickNone, Assign, Sign, Insert, InsertUnacknowledged, Return
  <2>3. req'[r].pc # "count"
    <3>1. CASE (\E p \in Players : Begin(r, p)) \/ Sign(r)
      <4>1. req'[r].pc \in {"pick", "insert"}
        BY <1>0, <3>1 DEF Begin, Sign, Request
      <4> QED BY <4>1
    <3>2. CASE PickNone(r)
      <4>1. req'[r].pc = "sign"
        BY <1>0, <3>2 DEF PickNone, Assign, Request
      <4> QED BY <4>1
    <3>3. CASE Insert(r) \/ InsertUnacknowledged(r) \/ Failed(r)
      BY <1>0, <3>3 DEF Insert, InsertUnacknowledged, Failed, Return, NoRequest
    <3> QED BY <1>3, <3>1, <3>2, <3>3
  <2>4. \A s \in Requests \ {r} : req'[s] = req[s]
    BY <1>0, <1>3, OneHandler DEF Handles, Join
  <2>5. Counting' = Counting
    BY <2>2, <2>3, <2>4 DEF Counting
  <2> QED BY <1>0, <2>1, <2>5 DEF BusyInv
<1>4. CASE UNCHANGED <<busy, req>>
  <2>1. Counting' = Counting
    BY <1>4 DEF Counting
  <2> QED BY <1>0, <1>4, <2>1 DEF BusyInv
<1>5. CASE \/ \E v \in Verifiers : Consume(v) \/ ConsumeFails(v) \/ \E t \in delivered : Check(v, t)
           \/ Tick \/ UNCHANGED vars
  BY <1>4, <1>5 DEF Consume, ConsumeFails, Check, Tick, api, vars
<1> QED
  BY <1>1, <1>2, <1>3, <1>5 DEF Next, Join

(* Matches are minted before they are named.                               *)
Known(r) ==
  /\ req[r].pc \in {"count", "sign", "insert"} => req[r].match \in 1..minted
  /\ req[r].pc \in {"pick", "count"} => req[r].at <= now

LEMMA KnownStep == Inv /\ [Next]_vars => KnownInv'
<1> SUFFICES ASSUME Inv, [Next]_vars PROVE KnownInv'
  OBVIOUS
<1>0. /\ TypeOK /\ KnownInv
      /\ now \in Nat /\ minted \in Nat /\ rows \in Seq(Row) /\ req \in [Requests -> Request]
  BY DEF Inv, TypeOK
<1>1. minted' \in Nat /\ minted <= minted' /\ now' \in Nat /\ now <= now'
  <2>1. minted' \in {minted, minted + 1} /\ now' \in {now, now + 1}
    BY DEF Next, Join, Begin, PickFound, PickNone, CountRoom, CountFull, Sign, Insert,
       InsertUnacknowledged, Failed, Check, Consume, ConsumeFails, Tick, api, vars
  <2> QED BY <1>0, <2>1
<1>2. \A i \in DOMAIN rows' : rows'[i].match \in 1..minted'
  <2>1. ASSUME NEW r \in Requests, Insert(r) \/ InsertUnacknowledged(r)
        PROVE  \A i \in DOMAIN rows' : rows'[i].match \in 1..minted'
    <3>1. NewRow(r) \in Row /\ NewRow(r).match = req[r].match /\ req[r].match \in 1..minted
      BY <1>0, <2>1, NewRowType DEF NewRow, Insert, InsertUnacknowledged, Return, KnownInv
    <3>2. rows' = Append(rows, NewRow(r))
      BY <2>1 DEF Insert, InsertUnacknowledged
    <3> QED BY <1>0, <1>1, <3>1, <3>2 DEF KnownInv
  <2>2. ASSUME NEW v \in Verifiers, Consume(v) \/ ConsumeFails(v)
        PROVE  \A i \in DOMAIN rows' : rows'[i].match \in 1..minted'
    BY <1>0, <1>1, <2>2, FlippedType DEF Consume, ConsumeFails, KnownInv
  <2>3. CASE rows' = rows
    BY <1>0, <1>1, <2>3 DEF KnownInv
  <2> QED
    BY <2>1, <2>2, <2>3 DEF Next, Join, Begin, PickFound, PickNone, CountRoom, CountFull, Sign,
       Failed, Check, Tick, vars
<1>3. ASSUME NEW r \in Requests PROVE Known(r)'
  <2>0. Known(r) /\ req[r] \in Request
    BY <1>0 DEF KnownInv, Known
  <2>1. CASE req'[r] = req[r]
    BY <1>0, <1>1, <2>0, <2>1 DEF Known, Request
  <2>2. CASE \E p \in Players : Begin(r, p)
    BY <1>0, <2>2 DEF Begin, Known, Request
  <2>3. CASE PickFound(r)
    <3>1. PICK i \in Pending(req[r].at) : req'[r].match = rows[i].match /\ req'[r].at = req[r].at
      BY <1>0, <2>3 DEF PickFound, Newest, Request
    <3>2. req'[r].match \in 1..minted
      BY <1>0, <3>1, ActiveRows
    <3> QED BY <1>0, <1>1, <2>0, <2>3, <3>1, <3>2 DEF PickFound, Known
  <2>4. CASE PickNone(r) \/ CountFull(r)
    <3>1. req'[r].pc = "sign" /\ req'[r].match = minted + 1 /\ minted' = minted + 1
      BY <1>0, <2>4 DEF PickNone, CountFull, Assign, Request
    <3> QED BY <1>0, <3>1 DEF Known
  <2>5. CASE CountRoom(r) \/ Sign(r)
    <3>1. req'[r].pc \in {"sign", "insert"} /\ req'[r].match = req[r].match /\ minted' = minted
      BY <1>0, <2>5 DEF CountRoom, Sign, Assign, Request
    <3> QED BY <1>0, <2>0, <2>5, <3>1 DEF CountRoom, Sign, Assign, Known
  <2>6. CASE Insert(r) \/ InsertUnacknowledged(r) \/ Failed(r)
    BY <1>0, <2>6 DEF Insert, InsertUnacknowledged, Failed, Return, NoRequest, Known
  <2>7. ASSUME NEW s \in Requests, s # r, Handles(s) PROVE req'[r] = req[r]
    BY <1>0, <2>7, OneHandler
  <2>8. CASE \/ \E v \in Verifiers : Consume(v) \/ ConsumeFails(v) \/ \E t \in delivered : Check(v, t)
             \/ Tick \/ UNCHANGED vars
    BY <2>1, <2>8 DEF Consume, ConsumeFails, Check, Tick, api, vars
  <2> QED
    BY <2>1, <2>2, <2>3, <2>4, <2>5, <2>6, <2>7, <2>8 DEF Next, Handles, Join
<1> QED BY <1>2, <1>3 DEF KnownInv, Known

LEMMA InvHolds == Spec => []Inv
<1>1. Inv /\ [Next]_vars => Inv'
  BY TypeStep, BusyStep, KnownStep DEF Inv
<1> QED BY InvInit, <1>1, PTL DEF Spec

(* Every variable keeps its type; in particular the pool lends no more     *)
(* connections than it has and is given back none it did not lend.         *)
THEOREM TypeCorrect == Spec => []TypeOK
<1>1. Inv => TypeOK
  BY DEF Inv
<1> QED BY <1>1, InvHolds, PTL

-----------------------------------------------------------------------------
(* The table: rows are never dropped and keep their tokens; consumed rows  *)
(* stay consumed.                                                          *)
RowsKept ==
  \A i \in DOMAIN rows :
    /\ i \in DOMAIN rows' /\ TokenOf(rows'[i]) = TokenOf(rows[i])
    /\ rows'[i].match = rows[i].match /\ rows'[i].exp = rows[i].exp
    /\ rows[i].consumed => rows'[i].consumed

LEMMA RowsStep == TypeOK /\ [Next]_vars => RowsKept
<1> SUFFICES ASSUME TypeOK, [Next]_vars PROVE RowsKept
  OBVIOUS
<1>1. ASSUME NEW r \in Requests, Insert(r) \/ InsertUnacknowledged(r) PROVE RowsKept
  <2>1. rows \in Seq(Row) /\ NewRow(r) \in Row /\ rows' = Append(rows, NewRow(r))
    BY <1>1, NewRowType DEF Insert, InsertUnacknowledged, TypeOK
  <2>2. \A i \in DOMAIN rows : i \in DOMAIN rows' /\ rows'[i] = rows[i]
    BY <2>1
  <2> QED BY <2>2 DEF RowsKept, TokenOf
<1>2. ASSUME NEW v \in Verifiers, Consume(v) \/ ConsumeFails(v) PROVE RowsKept
  <2>1. rows' = rows \/ rows' = Flipped(ver[v].token)
    BY <1>2 DEF Consume, ConsumeFails
  <2>2. CASE rows' = rows
    BY <2>2 DEF RowsKept, TokenOf
  <2>3. CASE rows' = Flipped(ver[v].token)
    BY <2>3, FlippedType DEF RowsKept
  <2> QED BY <2>1, <2>2, <2>3
<1>3. CASE rows' = rows
  BY <1>3 DEF RowsKept, TokenOf
<1> QED
  BY <1>1, <1>2, <1>3 DEF Next, Join, Begin, PickFound, PickNone, CountRoom, CountFull, Sign,
     Failed, Check, Tick, vars

(* The row is stored before the token is handed out.                       *)
THEOREM TokenBackedHolds == Spec => []TokenBacked
<1>1. Init => TokenBacked
  BY DEF Init, TokenBacked
<1>2. TypeOK /\ TokenBacked /\ [Next]_vars => TokenBacked'
  <2> SUFFICES ASSUME TypeOK, TokenBacked, [Next]_vars PROVE TokenBacked'
    OBVIOUS
  <2>1. \A t \in delivered : RowsOf(t)' # {}
    BY RowsStep DEF RowsKept, TokenBacked, RowsOf
  <2>2. ASSUME NEW r \in Requests, Insert(r) PROVE TokenBacked'
    <3>1. PICK row \in Row : row = NewRow(r)
      BY NewRowType
    <3>2. /\ rows \in Seq(Row) /\ rows' = Append(rows, row)
          /\ delivered' = delivered \cup {TokenOf(row)}
      BY <2>2, <3>1 DEF Insert, TypeOK
    <3>3. Len(rows) + 1 \in DOMAIN rows' /\ rows'[Len(rows) + 1] = row
      BY <3>2
    <3>4. RowsOf(TokenOf(row))' # {}
      BY <3>3 DEF RowsOf, TokenOf
    <3> QED BY <2>1, <3>2, <3>4 DEF TokenBacked
  <2>3. CASE delivered' = delivered
    BY <2>1, <2>3 DEF TokenBacked
  <2> QED
    BY <2>2, <2>3 DEF Next, Join, Begin, PickFound, PickNone, CountRoom, CountFull, Sign,
       InsertUnacknowledged, Failed, Check, Consume, ConsumeFails, Tick, api, vars
<1> QED BY <1>1, <1>2, TypeCorrect, PTL DEF Spec

-----------------------------------------------------------------------------
(* One token, one race join, as long as one goroutine verifies tokens.     *)
Spent(t) == {i \in RowsOf(t) : rows[i].consumed}

(* A token was accepted no more often than it has consumed rows, and while *)
(* the verifier holds one in its hands there is a row left to consume.     *)
SpentInv ==
  /\ \A t \in Token : Cardinality(Used(t)) <= Cardinality(Spent(t))
  /\ \A v \in Verifiers : ver[v].pc = "checked" => Spent(ver[v].token) # RowsOf(ver[v].token)

LEMMA SetsFinite ==
  ASSUME TypeOK, NEW t
  PROVE  /\ IsFiniteSet(Used(t)) /\ IsFiniteSet(RowsOf(t)) /\ IsFiniteSet(Spent(t))
         /\ Cardinality(Used(t)) \in Nat /\ Cardinality(RowsOf(t)) \in Nat
         /\ Cardinality(Spent(t)) \in Nat /\ Cardinality(Spent(t)) <= Cardinality(RowsOf(t))
<1>1. DOMAIN rows = 1..Len(rows) /\ Len(rows) \in Nat
  BY DEF TypeOK
<1>2. DOMAIN accepted = 1..Len(accepted) /\ Len(accepted) \in Nat
  BY DEF TypeOK
<1>3. IsFiniteSet(DOMAIN rows) /\ IsFiniteSet(DOMAIN accepted)
  BY <1>1, <1>2, FS_Interval
<1>4. Used(t) \subseteq DOMAIN accepted /\ RowsOf(t) \subseteq DOMAIN rows /\ Spent(t) \subseteq RowsOf(t)
  BY DEF Used, RowsOf, Spent
<1>5. IsFiniteSet(Used(t)) /\ IsFiniteSet(RowsOf(t)) /\ IsFiniteSet(Spent(t))
  BY <1>3, <1>4, FS_Subset
<1> QED BY <1>4, <1>5, FS_Subset, FS_CardinalityType

LEMMA SpentFinite ==
  ASSUME TypeOK', NEW t
  PROVE  IsFiniteSet(Spent(t)') /\ Cardinality(Spent(t)') \in Nat
<1>1. DOMAIN rows' = 1..Len(rows') /\ Len(rows') \in Nat
  BY DEF TypeOK
<1>2. Spent(t)' \subseteq DOMAIN rows'
  BY DEF Spent, RowsOf
<1>3. IsFiniteSet(Spent(t)')
  <2>1. IsFiniteSet(DOMAIN rows')
    BY <1>1, FS_Interval
  <2> QED BY <1>2, <2>1, FS_Subset
<1> QED BY <1>3, FS_CardinalityType

(* Rows added or consumed leave no token with fewer consumed rows.         *)
LEMMA SpentGrows ==
  ASSUME TypeOK, TypeOK', RowsKept, NEW t
  PROVE  Cardinality(Spent(t)) <= Cardinality(Spent(t)')
<1>1. Spent(t) \subseteq Spent(t)'
  BY DEF RowsKept, Spent, RowsOf
<1> QED BY <1>1, SpentFinite, FS_Subset

(* Consume uses up a row that was left.                                    *)
LEMMA ConsumeSpends ==
  ASSUME TypeOK, TypeOK', NEW t, rows' = Flipped(t), Spent(t) # RowsOf(t)
  PROVE  Cardinality(Spent(t)) + 1 <= Cardinality(Spent(t)')
<1>1. Spent(t)' = RowsOf(t)
  <2>1. \A i \in DOMAIN rows : TokenOf(rows'[i]) = TokenOf(rows[i]) /\ DOMAIN rows' = DOMAIN rows
    BY FlippedType
  <2>2. \A i \in RowsOf(t) : rows'[i].consumed
    BY DEF RowsOf, Flipped
  <2>3. RowsOf(t)' = RowsOf(t)
    BY <2>1, FlippedType DEF RowsOf
  <2> QED BY <2>2, <2>3 DEF Spent
<1>2. PICK i \in RowsOf(t) : i \notin Spent(t)
  BY DEF Spent
<1>3. Spent(t) \cup {i} \subseteq RowsOf(t)
  BY <1>2 DEF Spent
<1>4. Cardinality(Spent(t) \cup {i}) = Cardinality(Spent(t)) + 1
  BY <1>2, SetsFinite, FS_AddElement
<1>5. Cardinality(Spent(t) \cup {i}) <= Cardinality(RowsOf(t))
  BY <1>3, SetsFinite, FS_Subset
<1> QED BY <1>1, <1>4, <1>5

LEMMA SpentInit == Init => SpentInv
<1> SUFFICES ASSUME Init PROVE SpentInv
  OBVIOUS
<1>1. \A t : Used(t) = {} /\ Spent(t) = {}
  BY DEF Init, Used, Spent, RowsOf
<1>2. \A v \in Verifiers : ver[v].pc # "checked"
  BY DEF Init, NoCall
<1> QED BY <1>1, <1>2, FS_EmptySet DEF SpentInv

LEMMA SpentStep ==
  ASSUME \A v, w \in Verifiers : v = w
  PROVE  TypeOK /\ TypeOK' /\ SpentInv /\ [Next]_vars => SpentInv'
<1> SUFFICES ASSUME TypeOK, TypeOK', SpentInv, [Next]_vars PROVE SpentInv'
  OBVIOUS
<1>0. RowsKept /\ ver \in [Verifiers -> Verifier] /\ accepted \in Seq(Token)
  BY RowsStep DEF TypeOK
<1>1. ASSUME NEW t, accepted' = accepted PROVE Used(t)' = Used(t)
  BY <1>1 DEF Used
<1>2. ASSUME accepted' = accepted
      PROVE  \A t \in Token : Cardinality(Used(t)') <= Cardinality(Spent(t)')
  <2> SUFFICES ASSUME NEW t \in Token PROVE Cardinality(Used(t)') <= Cardinality(Spent(t)')
    OBVIOUS
  <2>1. Cardinality(Used(t)) <= Cardinality(Spent(t)) /\ Used(t)' = Used(t)
    BY <1>1, <1>2 DEF SpentInv
  <2>2. Cardinality(Used(t)) \in Nat /\ Cardinality(Spent(t)) \in Nat
    BY SetsFinite
  <2>3. Cardinality(Spent(t)') \in Nat
    BY SpentFinite
  <2> QED BY <1>0, <2>1, <2>2, <2>3, SpentGrows
<1>3. ASSUME NEW v \in Verifiers, NEW t \in delivered, Check(v, t) PROVE SpentInv'
  <2>1. accepted' = accepted /\ rows' = rows /\ ver'[v].token = t
    BY <1>0, <1>3 DEF Check
  <2>2. Spent(t) # RowsOf(t)
    BY <1>3 DEF Check, Fresh, Spent
  <2>3. Spent(t)' # RowsOf(t)'
    BY <2>1, <2>2 DEF Spent, RowsOf
  <2> QED BY <1>2, <2>1, <2>3 DEF SpentInv
<1>4. ASSUME NEW v \in Verifiers, Consume(v) PROVE SpentInv'
  <2>1. PICK u \in Token : u = ver[v].token
    BY <1>0 DEF Verifier
  <2>2. /\ rows' = Flipped(u) /\ accepted' = Append(accepted, u)
        /\ Spent(u) # RowsOf(u) /\ ver'[v].pc # "checked"
    BY <1>0, <1>4, <2>1 DEF Consume, NoCall, SpentInv
  <2>3. ASSUME NEW t \in Token PROVE Cardinality(Used(t)') <= Cardinality(Spent(t)')
    <3>1. /\ Cardinality(Used(t)) \in Nat /\ Cardinality(Spent(t)) \in Nat
          /\ Cardinality(Spent(t)') \in Nat /\ Cardinality(Used(t)) <= Cardinality(Spent(t))
      BY SetsFinite, SpentFinite DEF SpentInv
    <3>2. CASE t = u
      <4>1. Used(t)' = Used(t) \cup {Len(accepted) + 1} /\ Len(accepted) + 1 \notin Used(t)
        BY <1>0, <2>2, <3>2 DEF Used
      <4>2. Cardinality(Used(t)') = Cardinality(Used(t)) + 1
        BY <4>1, SetsFinite, FS_AddElement
      <4>3. Cardinality(Spent(t)) + 1 <= Cardinality(Spent(t)')
        BY <2>2, <3>2, ConsumeSpends
      <4> QED BY <3>1, <4>2, <4>3
    <3>3. CASE t # u
      <4>1. Used(t)' = Used(t)
        BY <1>0, <2>2, <3>3 DEF Used
      <4>2. Cardinality(Spent(t)) <= Cardinality(Spent(t)')
        BY <1>0, SpentGrows
      <4> QED BY <3>1, <4>1, <4>2
    <3> QED BY <3>2, <3>3
  <2>4. \A w \in Verifiers : ver'[w].pc # "checked"
    BY <2>2
  <2> QED BY <2>3, <2>4 DEF SpentInv
<1>5. ASSUME NEW v \in Verifiers, ConsumeFails(v) PROVE SpentInv'
  <2>1. accepted' = accepted /\ ver'[v].pc # "checked"
    BY <1>0, <1>5 DEF ConsumeFails, NoCall
  <2>2. \A w \in Verifiers : ver'[w].pc # "checked"
    BY <2>1
  <2> QED BY <1>2, <2>1, <2>2 DEF SpentInv
<1>6. ASSUME NEW r \in Requests, Insert(r) \/ InsertUnacknowledged(r) PROVE SpentInv'
  <2>1. accepted' = accepted /\ ver' = ver /\ rows' = Append(rows, NewRow(r))
    BY <1>6 DEF Insert, InsertUnacknowledged, game
  <2>2. \A i \in DOMAIN rows : rows'[i] = rows[i] /\ i \in DOMAIN rows'
    BY <2>1, NewRowType DEF TypeOK
  <2>3. ASSUME NEW t, Spent(t) # RowsOf(t) PROVE Spent(t)' # RowsOf(t)'
    BY <2>2, <2>3 DEF Spent, RowsOf
  <2>4. \A v \in Verifiers : ver[v].pc = "checked" => Spent(ver[v].token) # RowsOf(ver[v].token)
    BY DEF SpentInv
  <2> QED BY <1>2, <2>1, <2>3, <2>4 DEF SpentInv
<1>7. CASE UNCHANGED <<rows, accepted, ver>>
  BY <1>7 DEF SpentInv, Used, Spent, RowsOf
<1> QED
  BY <1>3, <1>4, <1>5, <1>6, <1>7 DEF Next, Join, Begin, PickFound, PickNone, CountRoom, CountFull,
     Sign, Failed, Tick, game, api, vars

(* A token is accepted at most as often as it was assigned.                *)
THEOREM SingleUseHolds ==
  ASSUME \A v, w \in Verifiers : v = w
  PROVE  Spec => []SingleUse
<1>1. TypeOK /\ SpentInv => SingleUse
  <2> SUFFICES ASSUME TypeOK, SpentInv, NEW t \in delivered
               PROVE  Cardinality(Used(t)) <= Cardinality(RowsOf(t))
    BY DEF SingleUse, Used
  <2>1. t \in Token
    BY DEF TypeOK
  <2> QED BY <2>1, SetsFinite DEF SpentInv
<1>2. TypeOK /\ TypeOK' /\ SpentInv /\ [Next]_vars => SpentInv'
  BY SpentStep
<1> QED BY <1>1, <1>2, SpentInit, TypeCorrect, PTL DEF Spec

-----------------------------------------------------------------------------
(* Overbooking.                                                            *)
Load(m) == Cardinality(Active(m, now)) + Cardinality(Deciding(m))

LEMMA LoadParts ==
  ASSUME TypeOK, NEW m, NEW t
  PROVE  /\ IsFiniteSet(Active(m, t)) /\ Cardinality(Active(m, t)) \in Nat
         /\ IsFiniteSet(Deciding(m)) /\ Cardinality(Deciding(m)) \in Nat
         /\ Cardinality(Requests) \in Nat
         /\ Cardinality(Deciding(m)) <= Cardinality(Requests)
<1>1. IsFiniteSet(DOMAIN rows)
  BY FS_Interval DEF TypeOK
<1>2. Active(m, t) \subseteq DOMAIN rows /\ Deciding(m) \subseteq Requests
  BY DEF Active, Deciding
<1> QED BY <1>1, <1>2, MatchmakingAssumption, FS_Subset, FS_CardinalityType

LEMMA LoadPartsNext ==
  ASSUME TypeOK', NEW m
  PROVE  /\ IsFiniteSet(Active(m, now)') /\ Cardinality(Active(m, now)') \in Nat
         /\ IsFiniteSet(Deciding(m)') /\ Cardinality(Deciding(m)') \in Nat
         /\ Cardinality(Deciding(m)') <= Cardinality(Requests)
<1>1. IsFiniteSet(DOMAIN rows')
  BY FS_Interval DEF TypeOK
<1>2. Active(m, now)' \subseteq DOMAIN rows' /\ Deciding(m)' \subseteq Requests
  BY DEF Active, Deciding
<1> QED BY <1>1, <1>2, MatchmakingAssumption, FS_Subset, FS_CardinalityType

(* While no row is added, time and consumption only take rows away.        *)
LEMMA ActiveShrinks ==
  ASSUME TypeOK, now' \in Nat, now <= now', RowsKept, DOMAIN rows' = DOMAIN rows, NEW m
  PROVE  Active(m, now)' \subseteq Active(m, now)
<1>1. \A i \in DOMAIN rows : rows[i].exp \in Nat
  <2>1. \A i \in DOMAIN rows : rows[i] \in Row
    BY DEF TypeOK
  <2> QED BY <2>1 DEF Row
<1>2. now \in Nat
  BY DEF TypeOK
<1> QED BY <1>1, <1>2 DEF Active, RowsKept

(* A handler that finds room leaves room for the others at work.           *)
LEMMA RoomForAll ==
  ASSUME Inv, NEW r \in Requests, NEW m \in Nat, req[r].at <= now, HasRoom(m, req[r].at)
  PROVE  Cardinality(Active(m, now)) < MaxPlayersPerMatch
<1>1. Active(m, now) \subseteq Active(m, req[r].at)
  <2>1. \A i \in DOMAIN rows : rows[i].exp \in Nat
    <3>1. \A i \in DOMAIN rows : rows[i] \in Row
      BY DEF Inv, TypeOK
    <3> QED BY <3>1 DEF Row
  <2>2. now \in Nat /\ req[r].at \in Nat
    BY DEF Inv, TypeOK, Request
  <2> QED BY <2>1, <2>2 DEF Active
<1>2. TypeOK
  BY DEF Inv
<1>3. Cardinality(Active(m, now)) <= Cardinality(Active(m, req[r].at))
  BY <1>1, <1>2, LoadParts, FS_Subset
<1> QED BY <1>2, <1>3, LoadParts, MatchmakingAssumption DEF HasRoom

(* The handlers that decide on a match: only counting, and minting, adds   *)
(* one; storing the row takes one away.                                    *)
LEMMA DecidingStep ==
  ASSUME TypeOK, [Next]_vars, NEW m \in Nat, m <= minted,
         \A r \in Requests : CountRoom(r) => req[r].match # m
  PROVE  Deciding(m)' \subseteq Deciding(m)
<1> SUFFICES ASSUME NEW s \in Requests, req'[s].pc \in {"sign", "insert"}, req'[s].match = m
             PROVE  req[s].pc \in {"sign", "insert"} /\ req[s].match = m
  BY DEF Deciding
<1>0. req \in [Requests -> Request] /\ minted \in Nat
  BY DEF TypeOK
<1>1. CASE \E p \in Players : Begin(s, p)
  BY <1>0, <1>1 DEF Begin, Request
<1>2. CASE PickFound(s)
  <2>1. req'[s].pc = "count"
    BY <1>0, <1>2 DEF PickFound, Request
  <2> QED BY <2>1
<1>3. CASE PickNone(s) \/ CountFull(s)
  <2>1. req'[s].match = minted + 1
    BY <1>0, <1>3 DEF PickNone, CountFull, Assign, Request
  <2> QED BY <1>0, <2>1
<1>4. CASE CountRoom(s)
  <2>1. req'[s].match = req[s].match
    BY <1>0, <1>4 DEF CountRoom, Assign, Request
  <2> QED BY <1>4, <2>1
<1>5. CASE Sign(s)
  BY <1>0, <1>5 DEF Sign, Request
<1>6. CASE Insert(s) \/ InsertUnacknowledged(s) \/ Failed(s)
  BY <1>0, <1>6 DEF Insert, InsertUnacknowledged, Failed, Return, NoRequest
<1>7. ASSUME NEW r \in Requests, r # s, Handles(r) PROVE req'[s] = req[s]
  BY <1>7, OneHandler
<1>8. CASE req'[s] = req[s]
  BY <1>8
<1> QED
  BY <1>1, <1>2, <1>3, <1>4, <1>5, <1>6, <1>7, <1>8 DEF Next, Handles, Join, Check, Consume,
     ConsumeFails, Tick, api, vars

(* A match is never overbooked by more than the other handlers at work.    *)
THEOREM OverbookingBoundedHolds == Spec => []OverbookingBounded
<1> USE MatchmakingAssumption
<1>1. Init => OverbookingBounded
  BY DEF Init, OverbookingBounded
<1>2. ASSUME Inv, Inv', OverbookingBounded, [Next]_vars, NEW m \in 1..minted'
      PROVE  Load(m)' < MaxPlayersPerMatch + Cardinality(Requests)
  <2>0. /\ TypeOK /\ TypeOK' /\ RowsKept /\ minted \in Nat /\ now \in Nat /\ now' \in Nat
        /\ now <= now' /\ m \in Nat /\ rows \in Seq(Row) /\ minted' \in {minted, minted + 1}
    <3>1. TypeOK /\ TypeOK'
      BY <1>2 DEF Inv
    <3>2. minted' \in {minted, minted + 1} /\ now' \in {now, now + 1}
      BY <1>2 DEF Next, Join, Begin, PickFound, PickNone, CountRoom, CountFull, Sign, Insert,
         InsertUnacknowledged, Failed, Check, Consume, ConsumeFails, Tick, api, vars
    <3> QED BY <1>2, <3>1, <3>2, RowsStep DEF TypeOK
  <2>1. CASE Cardinality(Active(m, now)') < MaxPlayersPerMatch
    <3>1. /\ Cardinality(Active(m, now)') \in Nat /\ Cardinality(Deciding(m)') \in Nat
          /\ Cardinality(Deciding(m)') <= Cardinality(Requests)
      BY <2>0, LoadPartsNext
    <3>2. Cardinality(Requests) \in Nat
      BY FS_CardinalityType
    <3> QED BY <2>1, <3>1, <3>2 DEF Load
  <2>2. ASSUME m <= minted, Deciding(m)' \subseteq Deciding(m), Active(m, now)' \subseteq Active(m, now)
        PROVE  Load(m)' < MaxPlayersPerMatch + Cardinality(Requests)
    <3>1. /\ Cardinality(Deciding(m)') <= Cardinality(Deciding(m))
          /\ Cardinality(Active(m, now)') <= Cardinality(Active(m, now))
      BY <2>0, <2>2, LoadParts, FS_Subset
    <3>2. Load(m) < MaxPlayersPerMatch + Cardinality(Requests)
      BY <1>2, <2>0, <2>2 DEF OverbookingBounded, Load
    <3> QED BY <2>0, <3>1, <3>2, LoadParts, LoadPartsNext DEF Load
  <2>3. CASE m = minted + 1
    <3>1. Active(m, now)' = {}
      <4>1. minted' # minted
        BY <1>2, <2>0, <2>3
      <4>2. rows' = rows
        BY <1>2, <4>1 DEF Next, Join, Begin, PickFound, PickNone, CountRoom, CountFull, Sign,
           Insert, InsertUnacknowledged, Failed, Check, Consume, ConsumeFails, Tick, api, vars
      <4>3. \A i \in DOMAIN rows : rows[i].match # m
        BY <1>2, <2>0, <2>3 DEF Inv, KnownInv
      <4> QED BY <4>2, <4>3 DEF Active
    <3> QED BY <2>1, <3>1, FS_EmptySet
  <2>4. ASSUME m <= minted, NEW r \in Requests, CountRoom(r), req[r].match = m
        PROVE  Load(m)' < MaxPlayersPerMatch + Cardinality(Requests)
    <3>1. req[r].at <= now /\ HasRoom(m, req[r].at) /\ rows' = rows /\ now' = now
      BY <1>2, <2>4 DEF CountRoom, Assign, Inv, KnownInv
    <3>2. Active(m, now)' = Active(m, now)
      BY <3>1 DEF Active
    <3> QED BY <1>2, <2>0, <2>1, <3>1, <3>2, RoomForAll
  <2>5. ASSUME m <= minted, NEW r \in Requests, Insert(r) \/ InsertUnacknowledged(r)
        PROVE  Load(m)' < MaxPlayersPerMatch + Cardinality(Requests)
    <3>1. /\ rows' = Append(rows, NewRow(r)) /\ NewRow(r) \in Row /\ now' = now
          /\ NewRow(r).match = req[r].match
          /\ req[r].pc = "insert" /\ req' = [req EXCEPT ![r] = NoRequest]
      BY <2>0, <2>5, NewRowType DEF Insert, InsertUnacknowledged, Return, NewRow
    <3>2. \A i \in DOMAIN rows : rows'[i] = rows[i]
      BY <2>0, <3>1
    <3>3. DOMAIN rows' = DOMAIN rows \cup {Len(rows) + 1} /\ rows'[Len(rows) + 1] = NewRow(r)
      BY <2>0, <3>1
    <3>4. Deciding(m)' \subseteq Deciding(m)
      <4>1. \A s \in Requests : ~CountRoom(s)
        <5>1. rows' # rows
          <6>1. Len(rows) + 1 \notin DOMAIN rows
            BY <2>0
          <6> QED BY <3>3, <6>1
        <5> QED BY <5>1 DEF CountRoom
      <4> QED BY <1>2, <2>0, <2>5, <4>1, DecidingStep
    <3>5. CASE req[r].match # m
      <4>1. Active(m, now)' \subseteq Active(m, now)
        BY <3>1, <3>2, <3>3, <3>5 DEF Active
      <4> QED BY <2>2, <2>5, <3>4, <4>1
    <3>6. CASE req[r].match = m
      <4>1. Active(m, now)' \subseteq Active(m, now) \cup {Len(rows) + 1}
        BY <3>1, <3>2, <3>3 DEF Active
      <4>2. Cardinality(Active(m, now)') <= Cardinality(Active(m, now)) + 1
        <5>1. Len(rows) + 1 \notin Active(m, now)
          BY <2>0 DEF Active
        <5>2. /\ IsFiniteSet(Active(m, now) \cup {Len(rows) + 1})
              /\ Cardinality(Active(m, now) \cup {Len(rows) + 1}) = Cardinality(Active(m, now)) + 1
          BY <2>0, <5>1, LoadParts, FS_AddElement
        <5> QED BY <4>1, <5>2, FS_Subset
      <4>3. r \in Deciding(m) /\ r \notin Deciding(m)'
        <5>1. req'[r].pc = "idle"
          BY <2>0, <3>1 DEF NoRequest, TypeOK
        <5> QED BY <3>1, <3>6, <5>1 DEF Deciding
      <4>4. Cardinality(Deciding(m)') <= Cardinality(Deciding(m)) - 1
        <5>1. Deciding(m)' \subseteq Deciding(m) \ {r}
          BY <3>4, <4>3
        <5>2. /\ Cardinality(Deciding(m) \ {r}) = Cardinality(Deciding(m)) - 1
              /\ IsFiniteSet(Deciding(m) \ {r})
          BY <2>0, <4>3, LoadParts, FS_RemoveElement
        <5> QED BY <5>1, <5>2, FS_Subset
      <4>5. Load(m) < MaxPlayersPerMatch + Cardinality(Requests)
        BY <1>2, <2>0, <2>5 DEF OverbookingBounded, Load
      <4> QED BY <2>0, <4>2, <4>4, <4>5, LoadParts, LoadPartsNext DEF Load
    <3> QED BY <3>5, <3>6
  <2>6. ASSUME m <= minted, \A r \in Requests : ~Insert(r) /\ ~InsertUnacknowledged(r),
               \A r \in Requests : CountRoom(r) => req[r].match # m
        PROVE  Load(m)' < MaxPlayersPerMatch + Cardinality(Requests)
    <3>1. DOMAIN rows' = DOMAIN rows
      <4>1. ASSUME NEW v \in Verifiers, Consume(v) \/ ConsumeFails(v)
            PROVE  DOMAIN rows' = DOMAIN rows
        BY <2>0, <4>1, FlippedType DEF Consume, ConsumeFails
      <4> QED
        BY <1>2, <2>6, <4>1 DEF Next, Join, Begin, PickFound, PickNone, CountRoom, CountFull, Sign,
           Failed, Check, Tick, vars
    <3>2. Active(m, now)' \subseteq Active(m, now)
      BY <2>0, <3>1, ActiveShrinks
    <3>3. Deciding(m)' \subseteq Deciding(m)
      BY <1>2, <2>0, <2>6, DecidingStep
    <3> QED BY <2>2, <2>6, <3>2, <3>3
  <2>7. m <= minted \/ m = minted + 1
    BY <2>0
  <2> QED BY <2>3, <2>4, <2>5, <2>6, <2>7
<1>3. Inv /\ Inv' /\ OverbookingBounded /\ [Next]_vars => OverbookingBounded'
  BY <1>2 DEF OverbookingBounded, Load
<1> QED BY <1>1, <1>3, InvHolds, PTL DEF Spec

-----------------------------------------------------------------------------
(* The contract of the tokens.                                             *)

(* A token is in the hands of a client before it is in those of a verifier. *)
HeldInv == \A v \in Verifiers : ver[v].pc = "checked" => ver[v].token \in delivered

LEMMA HeldInit == Init => HeldInv
BY DEF Init, HeldInv, NoCall

LEMMA HeldStep == TypeOK /\ HeldInv /\ [Next]_vars => HeldInv'
<1> SUFFICES ASSUME TypeOK, HeldInv, [Next]_vars, NEW w \in Verifiers, ver'[w].pc = "checked"
             PROVE  ver'[w].token \in delivered'
  BY DEF HeldInv
<1>0. ver \in [Verifiers -> Verifier] /\ (ver[w].pc = "checked" => ver[w].token \in delivered)
  BY DEF TypeOK, HeldInv
<1>1. ASSUME NEW v \in Verifiers, NEW t \in delivered, Check(v, t)
      PROVE  ver'[w].token \in delivered'
  BY <1>0, <1>1 DEF Check, api
<1>2. ASSUME NEW v \in Verifiers, Consume(v) \/ ConsumeFails(v)
      PROVE  ver'[w].token \in delivered'
  BY <1>0, <1>2 DEF Consume, ConsumeFails, NoCall, api
<1>3. CASE ver' = ver /\ delivered \subseteq delivered'
  BY <1>0, <1>3
<1> QED
  BY <1>1, <1>2, <1>3 DEF Next, Join, Begin, PickFound, PickNone, CountRoom, CountFull, Sign,
     Insert, InsertUnacknowledged, Failed, Tick, game, api, vars

LEMMA UnusedIs == ASSUME NEW t PROVE t \in Unused <=> Spent(t) # RowsOf(t)
BY DEF Unused, Spent, RowsOf

(* A row stored makes its token fresh, whatever became of earlier rows.    *)
LEMMA UnusedGains ==
  ASSUME TypeOK, NEW row \in Row, ~row.consumed, rows' = Append(rows, row)
  PROVE  Unused' = Unused \cup {TokenOf(row)}
<1>1. /\ DOMAIN rows' = DOMAIN rows \cup {Len(rows) + 1} /\ rows'[Len(rows) + 1] = row
      /\ \A i \in DOMAIN rows : rows'[i] = rows[i]
  BY DEF TypeOK
<1>2. {j \in DOMAIN rows' : ~rows'[j].consumed}
        = {j \in DOMAIN rows : ~rows[j].consumed} \cup {Len(rows) + 1}
  BY <1>1
<1> QED BY <1>1, <1>2 DEF Unused

(* The UPDATE leaves no row of the token to be used, and every other.      *)
LEMMA UnusedLoses ==
  ASSUME TypeOK, NEW t, rows' = Flipped(t)
  PROVE  Unused' = Unused \ {t}
<1>1. /\ DOMAIN rows' = DOMAIN rows
      /\ \A i \in DOMAIN rows :
           /\ TokenOf(rows'[i]) = TokenOf(rows[i])
           /\ rows'[i].consumed <=> rows[i].consumed \/ TokenOf(rows[i]) = t
  BY DEF Flipped, TokenOf
<1> QED BY <1>1 DEF Unused

LEMMA AdmittedGains ==
  ASSUME TypeOK, NEW t \in Token, accepted' = Append(accepted, t)
  PROVE  Admitted' = [u \in DOMAIN Admitted \cup {t} |->
                        IF u = t THEN GameTokens!Admissions(t) + 1 ELSE Admitted[u]]
<1>1. /\ DOMAIN accepted' = DOMAIN accepted \cup {Len(accepted) + 1}
      /\ Len(accepted) + 1 \notin DOMAIN accepted
      /\ accepted'[Len(accepted) + 1] = t
      /\ \A i \in DOMAIN accepted : accepted'[i] = accepted[i]
  BY DEF TypeOK
<1>2. DOMAIN Admitted' = DOMAIN Admitted \cup {t}
  BY <1>1 DEF Admitted
<1>3. ASSUME NEW u \in DOMAIN Admitted', u # t PROVE Admitted'[u] = Admitted[u]
  <2>1. Used(u)' = Used(u)
    BY <1>1, <1>3 DEF Used
  <2>2. u \in DOMAIN Admitted
    BY <1>2, <1>3
  <2> QED BY <1>3, <2>1, <2>2 DEF Admitted
<1>4. Admitted'[t] = GameTokens!Admissions(t) + 1
  <2>1. Used(t)' = Used(t) \cup {Len(accepted) + 1} /\ Len(accepted) + 1 \notin Used(t)
    BY <1>1 DEF Used
  <2>2. Cardinality(Used(t)') = Cardinality(Used(t)) + 1
    BY <2>1, SetsFinite, FS_AddElement
  <2>3. Admitted'[t] = Cardinality(Used(t)')
    BY <1>2 DEF Admitted
  <2>4. GameTokens!Admissions(t) = Cardinality(Used(t))
    <3>1. CASE t \in DOMAIN Admitted
      BY <3>1 DEF GameTokens!Admissions, Admitted
    <3>2. CASE t \notin DOMAIN Admitted
      <4>1. Used(t) = {}
        BY <3>2 DEF Used, Admitted
      <4> QED BY <3>2, <4>1, FS_EmptySet DEF GameTokens!Admissions
    <3> QED BY <3>1, <3>2
  <2> QED BY <2>2, <2>3, <2>4
<1>5. Admitted' = [u \in DOMAIN Admitted' |-> Admitted'[u]]
  BY DEF Admitted
<1> QED BY <1>2, <1>3, <1>4, <1>5

(* Each step is one of the contract, or none.                              *)
LEMMA TokensStep ==
  ASSUME TypeOK, TypeOK', SpentInv, HeldInv, [Next]_vars
  PROVE  [GameTokens!Next]_(GameTokens!vars)
<1>0. ver \in [Verifiers -> Verifier]
  BY DEF TypeOK
<1>1. ASSUME NEW r \in Requests, Insert(r) \/ InsertUnacknowledged(r) PROVE GameTokens!Next
  <2>1. PICK row \in Row : /\ row = NewRow(r) /\ ~row.consumed /\ TokenOf(row) \in Token
    BY NewRowType DEF NewRow
  <2>2. Unused' = Unused \cup {TokenOf(row)}
    BY <1>1, <2>1, UnusedGains DEF Insert, InsertUnacknowledged
  <2>3. Admitted' = Admitted
    BY <1>1 DEF Insert, InsertUnacknowledged, game, Admitted, Used
  <2>4. delivered' \in {delivered, delivered \cup {TokenOf(row)}}
    BY <1>1, <2>1 DEF Insert, InsertUnacknowledged
  <2>5. GameTokens!Issue(TokenOf(row))
    BY <2>2, <2>3, <2>4 DEF GameTokens!Issue
  <2> QED BY <2>1, <2>2, <2>5 DEF GameTokens!Next
<1>2. ASSUME NEW v \in Verifiers, Consume(v) PROVE GameTokens!Next
  <2>1. PICK t \in Token : t = ver[v].token
    BY <1>0 DEF Verifier
  <2>2. t \in delivered /\ t \in Unused
    BY <1>2, <2>1, UnusedIs DEF Consume, HeldInv, SpentInv
  <2>3. Unused' = Unused \ {t}
    BY <1>2, <2>1, UnusedLoses DEF Consume
  <2>4. Admitted' = [u \in DOMAIN Admitted \cup {t} |->
                       IF u = t THEN GameTokens!Admissions(t) + 1 ELSE Admitted[u]]
    BY <1>2, <2>1, AdmittedGains DEF Consume
  <2>5. GameTokens!Admit(t)
    BY <1>2, <2>2, <2>3, <2>4 DEF GameTokens!Admit, Consume, api
  <2> QED BY <2>1, <2>2, <2>5 DEF GameTokens!Next
<1>3. ASSUME NEW v \in Verifiers, ConsumeFails(v) PROVE [GameTokens!Next]_(GameTokens!vars)
  <2>1. PICK t \in Token : t = ver[v].token
    BY <1>0 DEF Verifier
  <2>2. delivered' = delivered /\ Admitted' = Admitted
    BY <1>3 DEF ConsumeFails, api, Admitted, Used
  <2>3. CASE rows' = rows
    BY <2>2, <2>3 DEF GameTokens!vars, Unused
  <2>4. CASE rows' = Flipped(t)
    <3>1. t \in Unused /\ Unused' = Unused \ {t}
      BY <1>3, <2>1, <2>4, UnusedIs, UnusedLoses DEF ConsumeFails, SpentInv
    <3> QED BY <2>1, <2>2, <3>1 DEF GameTokens!Lose, GameTokens!Next
  <2> QED BY <1>3, <2>1, <2>3, <2>4 DEF ConsumeFails
<1>4. CASE UNCHANGED <<rows, delivered, accepted>>
  BY <1>4 DEF GameTokens!vars, Unused, Admitted, Used
<1> QED
  BY <1>1, <1>2, <1>3, <1>4 DEF Next, Join, Begin, PickFound, PickNone, CountRoom, CountFull,
     Sign, Failed, Check, Tick, game, api, vars

(* The table and its two-statement verification implement the contract of  *)
(* the tokens, as long as one goroutine verifies them: a token is used up  *)
(* in one step, whatever fails, and a client holds none that was not       *)
(* issued.                                                                 *)
THEOREM TokensImplemented ==
  ASSUME \A v, w \in Verifiers : v = w
  PROVE  Spec => ImplementsTokens
<1>1. Init => GameTokens!Init
  BY DEF Init, GameTokens!Init, Unused, Admitted
<1>2. TypeOK /\ TypeOK' /\ SpentInv /\ [Next]_vars => SpentInv'
  BY SpentStep
<1>3. TypeOK /\ TypeOK' /\ SpentInv /\ HeldInv /\ [Next]_vars => [GameTokens!Next]_(GameTokens!vars)
  BY TokensStep
<1> QED
  BY <1>1, <1>2, <1>3, HeldInit, HeldStep, SpentInit, TypeCorrect, PTL
     DEF Spec, ImplementsTokens, GameTokens!Spec
=============================================================================

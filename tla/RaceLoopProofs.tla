--------------------------- MODULE RaceLoopProofs ---------------------------
(***************************************************************************)
(* Theorems about RaceLoop, for every number of players, seats, laps and   *)
(* waypoints and every channel capacity.                                   *)
(***************************************************************************)
EXTENDS RaceLoop, TLAPS, FiniteSetTheorems

(* The modulus of the waypoint pointer is positive.                        *)
LEMMA LenOr1Positive == lenOr1 \in Nat \ {0}
BY RaceAssumption DEF lenOr1

(* Crossing a waypoint keeps a PlayerState a PlayerState.                  *)
LEMMA CrossingType ==
  ASSUME NEW s \in PlayerState, finishedOrder \in Seq(Players)
  PROVE  Crossing(s) \in PlayerState
<1>1. ((s.next % lenOr1) + 1) % lenOr1 \in Nat
  BY LenOr1Positive DEF PlayerState
<1>2. Completes(s) \in BOOLEAN
  BY DEF Completes, OnStartLine
<1>3. Len(finishedOrder) + 1 \in Nat
  OBVIOUS
<1>4. /\ s.seq \in Nat /\ s.lap \in Nat /\ s.pos \in Nat
      /\ s.lap + 1 \in Nat /\ s.passed + 1 \in Nat
  BY DEF PlayerState
<1> QED
  BY <1>1, <1>2, <1>3, <1>4, Zenon DEF Crossing, PlayerState

(* A fresh player is a PlayerState.                                        *)
LEMMA NewPlayerType == NewPlayerState \in PlayerState
<1>1. 1 % lenOr1 \in Nat
  BY LenOr1Positive
<1> QED BY <1>1 DEF NewPlayerState, PlayerState

(* What AddPlayer and RemovePlayer make of a well-typed map of players.    *)
LEMMA AddedType ==
  ASSUME NEW p \in Players, DOMAIN players \subseteq Players,
         players \in [DOMAIN players -> PlayerState]
  PROVE  /\ DOMAIN Added(p) \subseteq Players
         /\ Added(p) \in [DOMAIN Added(p) -> PlayerState]
         /\ DOMAIN players \subseteq DOMAIN Added(p)
         /\ \A q \in DOMAIN players : Added(p)[q] = players[q]
         /\ \A q \in DOMAIN Added(p) \ DOMAIN players : Added(p)[q] = NewPlayerState
BY NewPlayerType DEF Added

LEMMA RemovedType ==
  ASSUME NEW p \in Players, DOMAIN players \subseteq Players,
         players \in [DOMAIN players -> PlayerState]
  PROVE  /\ DOMAIN Removed(p) = DOMAIN players \ {p}
         /\ Removed(p) \in [DOMAIN Removed(p) -> PlayerState]
         /\ \A q \in DOMAIN Removed(p) : Removed(p)[q] = players[q]
BY DEF Removed

LEMMA FinalResultsType ==
  ASSUME finishedOrder \in Seq(Players)
  PROVE  FinalResults \subseteq Result
BY DEF FinalResults, Result

(* A bounded channel stays typed and bounded when a message is offered.    *)
LEMMA OfferType ==
  ASSUME NEW S, NEW ch \in Seq(S), NEW cap \in Nat, Len(ch) <= cap, NEW m \in S
  PROVE  Offer(ch, cap, m) \in Seq(S) /\ Len(Offer(ch, cap, m)) <= cap
BY DEF Offer

LEMMA TailType ==
  ASSUME NEW S, NEW ch \in Seq(S), NEW cap \in Nat, Len(ch) <= cap, ch # <<>>
  PROVE  /\ Tail(ch) \in Seq(S) /\ Len(Tail(ch)) <= cap
         /\ Head(ch) \in S
OBVIOUS

-----------------------------------------------------------------------------
(* Every variable keeps its type and every channel its capacity.           *)
LEMMA TypeInit == Init => TypeOK
<1> SUFFICES ASSUME Init PROVE TypeOK
  OBVIOUS
<1>1. DOMAIN players = {} /\ players \in [{} -> PlayerState]
  BY DEF Init
<1>2. /\ joinMsg \in Seq(Joiners) /\ leaveMsg \in Seq(Leavers)
      /\ inputCh \in Seq([player : Players, seq : Seqs])
      /\ finishedOrder \in Seq(Players) /\ reported \in Seq(SUBSET Result)
      /\ Len(joinMsg) = 0 /\ Len(leaveMsg) = 0 /\ Len(inputCh) = 0
  BY DEF Init
<1>3. snapshotOut \in 0..SnapshotCap /\ 0 <= JoinCap /\ 0 <= LeaveCap /\ 0 <= InputCap
  BY RaceAssumption DEF Init
<1> QED
  BY <1>1, <1>2, <1>3 DEF Init, TypeOK, Labels

LEMMA TypeStep == TypeOK /\ [Next]_vars => TypeOK'
<1> SUFFICES ASSUME TypeOK, [Next]_vars PROVE TypeOK'
  OBVIOUS
<1> USE RaceAssumption
<1>a. ASSUME NEW p \in Players, AddPlayer(p) PROVE TypeOK'
  BY <1>a, AddedType DEF AddPlayer, TypeOK, channels, control, locals, outcome, env
<1>b. ASSUME NEW p \in Players, NEW s \in Seqs, ApplyInput(p, s) PROVE TypeOK'
  <2>1. [player |-> p, seq |-> s] \in [player : Players, seq : Seqs]
    OBVIOUS
  <2> QED
    BY <1>b, <2>1, OfferType DEF ApplyInput, TypeOK, race, control, locals, outcome, env
<1>c. ASSUME NEW p \in Joiners, EnqueueJoin(p) PROVE TypeOK'
  BY <1>c, OfferType DEF EnqueueJoin, TypeOK, race, control, locals, outcome, env
<1>d. ASSUME NEW p \in Leavers, EnqueueLeave(p) PROVE TypeOK'
  BY <1>d, OfferType DEF EnqueueLeave, TypeOK, race, control, locals, outcome, env
<1>e. CASE TakeSnapshot
  <2>1. snapshotOut' \in 0..SnapshotCap
    <3>1. snapshotOut \in 0..SnapshotCap
      BY DEF TypeOK
    <3>2. snapshotOut > 0 /\ snapshotOut' = snapshotOut - 1
      BY <1>e DEF TakeSnapshot
    <3> QED BY <3>1, <3>2
  <2> QED
    BY <1>e, <2>1 DEF TakeSnapshot, TypeOK, race, control, locals, outcome, env
<1>f. CASE Cancel
  BY <1>f DEF Cancel, TypeOK, race, channels, control, locals, outcome
<1>g. CASE CountdownElapses
  BY <1>g DEF CountdownElapses, TypeOK, race, channels, control, locals, outcome
<1>h. CASE ReapDelayElapses
  BY <1>h DEF ReapDelayElapses, TypeOK, race, channels, control, outcome, env
<1>i. CASE Top
  BY <1>i DEF Top, Goto, CallFinish, TypeOK, Labels, race, channels, locals, outcome, env
<1>j. CASE DrainJoin
  <2>1. Head(joinMsg) \in Players /\ Tail(joinMsg) \in Seq(Joiners)
        /\ Len(Tail(joinMsg)) <= JoinCap
    BY <1>j, TailType DEF DrainJoin, TypeOK
  <2> QED
    BY <1>j, <2>1, AddedType DEF DrainJoin, Goto, TypeOK, locals, outcome, env
<1>k. CASE JoinsDone
  BY <1>k DEF JoinsDone, Goto, TypeOK, Labels, race, channels, locals, outcome, env
<1>l. CASE DrainLeave
  <2>1. Head(leaveMsg) \in Players /\ Tail(leaveMsg) \in Seq(Leavers)
        /\ Len(Tail(leaveMsg)) <= LeaveCap
    BY <1>l, TailType DEF DrainLeave, TypeOK
  <2> QED
    BY <1>l, <2>1, RemovedType DEF DrainLeave, Goto, TypeOK, locals, outcome, env
<1>m. CASE LeavesDone
  BY <1>m DEF LeavesDone, Goto, TypeOK, Labels, race, channels, locals, outcome, env
<1>n. CASE BeginTick
  BY <1>n DEF BeginTick, Goto, Started, RaceStarts, CountdownStarts, TypeOK, Labels,
              channels, outcome, env
<1>o. CASE DrainInput
  <2>1. /\ Head(inputCh) \in [player : Players, seq : Seqs]
        /\ Tail(inputCh) \in Seq([player : Players, seq : Seqs])
        /\ Len(Tail(inputCh)) <= InputCap
    BY <1>o, TailType DEF DrainInput, TypeOK
  <2>2. Head(inputCh).seq \in Nat
    BY <2>1
  <2>3. \A q \in DOMAIN players : [players[q] EXCEPT !.seq = Head(inputCh).seq] \in PlayerState
    BY <2>2 DEF TypeOK, PlayerState
  <2>4. DOMAIN players' = DOMAIN players /\ players' \in [DOMAIN players -> PlayerState]
    BY <1>o, <2>3 DEF DrainInput, TypeOK
  <2> QED
    BY <1>o, <2>1, <2>4 DEF DrainInput, Goto, TypeOK, locals, outcome, env
<1>p. CASE InputsDone
  BY <1>p DEF InputsDone, Goto, Advancing, TypeOK, Labels, race, channels, outcome, env
<1>q. ASSUME NEW p \in Players, AdvancePlayer(p) PROVE TypeOK'
  <2>1. p \in DOMAIN players => Crossing(players[p]) \in PlayerState
    BY CrossingType DEF TypeOK
  <2>2. DOMAIN players' = DOMAIN players /\ players' \in [DOMAIN players -> PlayerState]
    BY <1>q, <2>1 DEF AdvancePlayer, TypeOK
  <2>3. finishedOrder' \in Seq(Players)
    <3>1. finishedOrder \in Seq(Players) /\ Append(finishedOrder, p) \in Seq(Players)
      <4>1. finishedOrder \in Seq(Players)
        BY DEF TypeOK
      <4> QED BY <4>1
    <3>2. finishedOrder' = finishedOrder \/ finishedOrder' = Append(finishedOrder, p)
      BY <1>q DEF AdvancePlayer
    <3> QED BY <3>1, <3>2
  <2> QED
    BY <1>q, <2>2, <2>3 DEF AdvancePlayer, Goto, TypeOK, channels, outcome, env
<1>r. CASE EndTick
  <2>1. snapshotOut' \in 0..SnapshotCap
    <3>1. snapshotOut \in 0..SnapshotCap
      BY DEF TypeOK
    <3>2. \/ snapshotOut' = snapshotOut
          \/ snapshotOut' = snapshotOut + 1 /\ snapshotOut < SnapshotCap
      BY <1>r DEF EndTick, Sent
    <3> QED BY <3>1, <3>2
  <2> QED
    BY <1>r, <2>1 DEF EndTick, Goto, TypeOK, Labels, race, locals, outcome, env
<1>s. CASE CheckEmpty
  <2>1. pc' \in Labels /\ cause' \in {"none", "cancelled", "empty", "all finished"}
    BY <1>s DEF CheckEmpty, Goto, CallFinish, TypeOK, Labels
  <2>2. lastEmpty' \in {"zero", "set", "old"}
    BY <1>s DEF CheckEmpty, TypeOK
  <2> QED
    BY <1>s, <2>1, <2>2 DEF CheckEmpty, TypeOK, race, channels, outcome, env
<1>t. CASE CheckFinish
  <2>1. pc' \in Labels /\ cause' \in {"none", "cancelled", "empty", "all finished"}
    BY <1>t DEF CheckFinish, Goto, CallFinish, TypeOK, Labels
  <2> QED
    BY <1>t, <2>1 DEF CheckFinish, TypeOK, race, channels, locals, outcome, env
<1>u. CASE Wait
  <2>1. pc' \in Labels /\ cause' \in {"none", "cancelled", "empty", "all finished"}
    BY <1>u DEF Wait, Goto, CallFinish, TypeOK, Labels
  <2> QED
    BY <1>u, <2>1 DEF Wait, TypeOK, race, channels, locals, outcome, env
<1>v. CASE FinishRace
  <2>1. evtResults' \subseteq Result
    BY <1>v, FinalResultsType DEF FinishRace, TypeOK
  <2> QED
    BY <1>v, <2>1 DEF FinishRace, Goto, TypeOK, Labels, channels, locals, env
<1>w. CASE OnFinish
  <2>1. FinalResults \in SUBSET Result
    BY FinalResultsType DEF TypeOK
  <2>2. reported' \in Seq(SUBSET Result)
    <3>1. reported \in Seq(SUBSET Result)
      BY DEF TypeOK
    <3>2. reported' = Append(reported, FinalResults)
      BY <1>w DEF OnFinish
    <3> QED BY <2>1, <3>1, <3>2
  <2> QED
    BY <1>w, <2>2 DEF OnFinish, Goto, TypeOK, Labels, race, channels, locals, env
<1>x. CASE CloseDone
  BY <1>x DEF CloseDone, Goto, TypeOK, Labels, race, channels, locals, env
<1>y. CASE UNCHANGED vars
  BY <1>y DEF vars, race, channels, control, locals, outcome, env, TypeOK
<1> QED
  BY <1>a, <1>b, <1>c, <1>d, <1>e, <1>f, <1>g, <1>h, <1>i, <1>j, <1>k, <1>l, <1>m, <1>n,
     <1>o, <1>p, <1>q, <1>r, <1>s, <1>t, <1>u, <1>v, <1>w, <1>x, <1>y
     DEF Next, Run, Dispatcher, Channels, Time

(* TypeOK holds in every state of every instance of RaceLoop.              *)
THEOREM TypeCorrect == Spec => []TypeOK
BY TypeInit, TypeStep, PTL DEF Spec

-----------------------------------------------------------------------------
(* How a step can touch the players: it does not, or it is one of the five *)
(* critical sections that do.                                              *)
PlayersStep ==
  \/ UNCHANGED <<players, finishedOrder>>
  \/ \E p \in Players : /\ players' = Added(p) /\ ~Locked
                        /\ UNCHANGED <<status, finishedOrder, todo>>
  \/ DrainLeave
  \/ DrainInput
  \/ \E p \in Players : AdvancePlayer(p)

LEMMA PlayersStepCases == TypeOK /\ [Next]_vars => PlayersStep
<1> SUFFICES ASSUME TypeOK, [Next]_vars PROVE PlayersStep
  OBVIOUS
<1>1. ASSUME NEW p \in Players, AddPlayer(p) PROVE PlayersStep
  BY <1>1 DEF AddPlayer, PlayersStep, locals
<1>2. CASE DrainJoin
  <2>1. Head(joinMsg) \in Players
    BY <1>2, RaceAssumption, TailType DEF DrainJoin, TypeOK
  <2> QED BY <1>2, <2>1 DEF DrainJoin, Goto, Locked, PlayersStep, locals
<1>3. CASE DrainLeave \/ DrainInput \/ \E p \in Players : AdvancePlayer(p)
  BY <1>3 DEF PlayersStep
<1>4. CASE Top \/ JoinsDone \/ LeavesDone \/ BeginTick \/ InputsDone \/ EndTick
  BY <1>4 DEF Top, JoinsDone, LeavesDone, BeginTick, InputsDone, EndTick, race, PlayersStep
<1>5. CASE CheckEmpty \/ CheckFinish \/ Wait \/ FinishRace \/ OnFinish \/ CloseDone
  BY <1>5 DEF CheckEmpty, CheckFinish, Wait, FinishRace, OnFinish, CloseDone, race, PlayersStep
<1>6. CASE (\E p \in Players : \E s \in Seqs : ApplyInput(p, s)) \/ Channels
  BY <1>6 DEF ApplyInput, Channels, EnqueueJoin, EnqueueLeave, TakeSnapshot, race, PlayersStep
<1>7. CASE Cancel \/ Time \/ UNCHANGED vars
  BY <1>7 DEF Cancel, Time, CountdownElapses, ReapDelayElapses, vars, race, PlayersStep
<1> QED
  BY <1>1, <1>2, <1>3, <1>4, <1>5, <1>6, <1>7 DEF Next, Run, Dispatcher

(* The seats: at most MaxPlayers are taken.                                *)
THEOREM CapacityHolds == Spec => []Capacity
<1>1. Init => Capacity
  <2>1. Init => DOMAIN players = {}
    BY DEF Init
  <2>2. 0 <= MaxPlayers
    BY RaceAssumption
  <2> QED BY <2>1, <2>2, FS_EmptySet DEF Capacity
<1>2. TypeOK /\ Capacity /\ [Next]_vars => Capacity'
  <2> SUFFICES ASSUME TypeOK, Capacity, [Next]_vars PROVE Capacity'
    OBVIOUS
  <2>1. IsFiniteSet(DOMAIN players)
    BY RaceAssumption, FS_Subset DEF TypeOK
  <2>2. Cardinality(DOMAIN players) \in Nat /\ MaxPlayers \in Nat
    BY <2>1, FS_CardinalityType, RaceAssumption
  <2>3. ASSUME NEW p \in Players, players' = Added(p) PROVE Capacity'
    <3>1. CASE Refused \/ p \in DOMAIN players
      BY <2>3, <3>1 DEF Added, Capacity
    <3>2. CASE ~Refused /\ p \notin DOMAIN players
      <4>1. DOMAIN players' = DOMAIN players \cup {p}
        BY <2>3, <3>2 DEF Added
      <4>2. Cardinality(DOMAIN players \cup {p}) = Cardinality(DOMAIN players) + 1
        BY <2>1, <3>2, FS_AddElement
      <4>3. Cardinality(DOMAIN players) < MaxPlayers
        BY <3>2, <2>2 DEF Refused
      <4> QED BY <4>1, <4>2, <4>3, <2>2 DEF Capacity
    <3> QED BY <3>1, <3>2
  <2>4. CASE DrainLeave
    <3>1. DOMAIN players' = DOMAIN players \ {Head(leaveMsg)}
      BY <2>4 DEF DrainLeave, Removed
    <3>2. /\ DOMAIN players' \subseteq DOMAIN players
          /\ Cardinality(DOMAIN players') <= Cardinality(DOMAIN players)
          /\ Cardinality(DOMAIN players') \in Nat
      BY <2>1, <3>1, FS_Subset, FS_CardinalityType
    <3> QED BY <3>2, <2>2 DEF Capacity
  <2>5. CASE DrainInput
    BY <2>5 DEF DrainInput, Capacity
  <2>6. ASSUME NEW p \in Players, AdvancePlayer(p) PROVE Capacity'
    BY <2>6 DEF AdvancePlayer, Capacity
  <2>7. CASE UNCHANGED <<players, finishedOrder>>
    BY <2>7 DEF Capacity
  <2> QED BY <2>3, <2>4, <2>5, <2>6, <2>7, PlayersStepCases DEF PlayersStep
<1> QED BY <1>1, <1>2, TypeCorrect, PTL DEF Spec

-----------------------------------------------------------------------------
(* Where Run stands, and what the race looks like there.  This is what the *)
(* properties of a race that ended rest on: nothing of the results changes *)
(* once the status is Finished, so the callback, which comes after the     *)
(* mutex was released, computes the results again.                         *)
Over == {"callback", "close", "returned"}

ControlInv ==
  /\ todo # {} => pc = "advance" /\ status = "InProgress"
  /\ todo \subseteq DOMAIN players
  /\ status = "Finished" <=> pc \in Over
  /\ pc \notin {"close", "returned"} => reported = <<>>
  /\ pc = "callback" => evtResults = FinalResults
  /\ pc \in {"close", "returned"} => reported = <<evtResults>>
  /\ done <=> pc = "returned"
  /\ status = "InProgress" => countdownOver /\ started

(* A race that ended refuses every player.                                 *)
LEMMA AddedWhenOver == ASSUME NEW p, status = "Finished" PROVE Added(p) = players
BY DEF Added, Refused

(* The results only depend on the players and on the crossing order.       *)
LEMMA ResultsKept ==
  ASSUME players' = players, finishedOrder' = finishedOrder
  PROVE  FinalResults' = FinalResults
BY DEF FinalResults

LEMMA ControlStep == TypeOK /\ ControlInv /\ [Next]_vars => ControlInv'
<1> SUFFICES ASSUME TypeOK, ControlInv, [Next]_vars PROVE ControlInv'
  OBVIOUS
<1> USE DEF Over
<1>a. ASSUME NEW p \in Players, AddPlayer(p) PROVE ControlInv'
  <2>1. DOMAIN players \subseteq DOMAIN players'
    BY <1>a, AddedType DEF AddPlayer, TypeOK
  <2>2. pc = "callback" => FinalResults' = FinalResults
    BY <1>a, AddedWhenOver, ResultsKept DEF AddPlayer, ControlInv
  <2>3. UNCHANGED <<status, finishedOrder, control, locals, outcome, env>>
    BY <1>a DEF AddPlayer
  <2> QED
    BY <2>1, <2>2, <2>3 DEF ControlInv, control, locals, outcome, env
<1>b. CASE /\ UNCHANGED <<race, control, outcome, started, todo>>
           /\ countdownOver => countdownOver'
  BY <1>b, ResultsKept DEF ControlInv, race, control, outcome
<1>c. CASE DrainJoin
  <2>1. Head(joinMsg) \in Players
    BY <1>c, RaceAssumption, TailType DEF DrainJoin, TypeOK
  <2>2. DOMAIN players \subseteq DOMAIN players'
    BY <1>c, <2>1, AddedType DEF DrainJoin, TypeOK
  <2> QED
    BY <1>c, <2>2 DEF DrainJoin, Goto, ControlInv, locals, outcome, env
<1>d. CASE DrainLeave
  <2>1. todo = {} /\ todo' = {}
    BY <1>d DEF DrainLeave, Goto, ControlInv, locals
  <2> QED
    BY <1>d, <2>1 DEF DrainLeave, Goto, ControlInv, locals, outcome, env
<1>e. CASE Top \/ JoinsDone \/ LeavesDone
  BY <1>e DEF Top, JoinsDone, LeavesDone, Goto, CallFinish, ControlInv, race, locals, outcome, env
<1>f. CASE BeginTick
  BY <1>f DEF BeginTick, Goto, Started, CountdownStarts, RaceStarts, ControlInv, outcome, env
<1>g. CASE DrainInput
  BY <1>g DEF DrainInput, Goto, ControlInv, locals, outcome, env
<1>h. CASE InputsDone
  BY <1>h DEF InputsDone, Goto, Advancing, ControlInv, race, outcome, env
<1>i. ASSUME NEW p \in Players, AdvancePlayer(p) PROVE ControlInv'
  <2>1. DOMAIN players' = DOMAIN players
    BY <1>i DEF AdvancePlayer
  <2> QED
    BY <1>i, <2>1 DEF AdvancePlayer, Goto, ControlInv, outcome, env
<1>j. CASE EndTick
  BY <1>j DEF EndTick, Goto, ControlInv, race, locals, outcome, env
<1>k. CASE CheckEmpty
  BY <1>k DEF CheckEmpty, Goto, CallFinish, ControlInv, race, outcome, env
<1>l. CASE CheckFinish \/ Wait
  <2>1. pc \in {"check", "wait"} /\ pc' \in {"finish", "wait", "top"}
    BY <1>l DEF CheckFinish, Wait, Goto, CallFinish
  <2>2. UNCHANGED <<race, locals, outcome, env>>
    BY <1>l DEF CheckFinish, Wait
  <2> QED BY <2>1, <2>2 DEF ControlInv, race, locals, outcome, env
<1>m. CASE FinishRace
  <2>1. FinalResults' = FinalResults
    BY <1>m, ResultsKept DEF FinishRace
  <2> QED BY <1>m, <2>1 DEF FinishRace, Goto, ControlInv, locals, env
<1>n. CASE OnFinish
  <2>1. reported' = <<evtResults>>
    BY <1>n DEF OnFinish, Goto, ControlInv
  <2> QED BY <1>n, <2>1 DEF OnFinish, Goto, ControlInv, race, locals, env
<1>o. CASE CloseDone
  BY <1>o DEF CloseDone, Goto, ControlInv, race, locals, env
<1>p. CASE (\E p \in Players : \E s \in Seqs : ApplyInput(p, s)) \/ Channels
  <2>1. UNCHANGED <<race, control, locals, outcome, env>>
    BY <1>p DEF ApplyInput, Channels, EnqueueJoin, EnqueueLeave, TakeSnapshot
  <2> QED BY <2>1, <1>b DEF locals, env
<1>q. CASE Cancel \/ Time \/ UNCHANGED vars
  BY <1>q, <1>b DEF Cancel, Time, CountdownElapses, ReapDelayElapses, vars, locals, env
<1> QED
  BY <1>a, <1>c, <1>d, <1>e, <1>f, <1>g, <1>h, <1>i, <1>j, <1>k, <1>l, <1>m, <1>n, <1>o,
     <1>p, <1>q DEF Next, Run, Dispatcher

LEMMA ControlHolds == Spec => []ControlInv
<1>1. Init => ControlInv
  BY DEF Init, ControlInv, Over
<1> QED BY <1>1, ControlStep, TypeCorrect, PTL DEF Spec

(* The abstract modules count as this one does.                            *)
LEMMA SameCount ==
  ASSUME NEW S
  PROVE  Lifecycle!Cardinality(S) = Cardinality(S) /\ Seats!Cardinality(S) = Cardinality(S)
BY DEF Cardinality, Lifecycle!Cardinality, Seats!Cardinality

LEMMA SeatTaken ==
  ASSUME TypeOK, NEW p \in Players, players' = Added(p),
         UNCHANGED <<status, finishedOrder, outcome>>
  PROVE  [Lifecycle!Next]_(Lifecycle!vars)
<1>1. CASE Refused \/ p \in DOMAIN players
  BY <1>1 DEF Added, outcome, Lifecycle!vars
<1>2. CASE ~Refused /\ p \notin DOMAIN players
  <2>1. DOMAIN players' = DOMAIN players \cup {p}
    BY <1>2 DEF Added
  <2>2. status # "Finished" /\ Cardinality(DOMAIN players) < MaxPlayers
    <3>1. IsFiniteSet(DOMAIN players)
      BY RaceAssumption, FS_Subset DEF TypeOK
    <3>2. Cardinality(DOMAIN players) \in Nat
      BY <3>1, FS_CardinalityType
    <3> QED BY <1>2, <3>2, RaceAssumption DEF Refused
  <2>3. Lifecycle!Seat(p)
    BY <2>1, <2>2, SameCount DEF Lifecycle!Seat, outcome
  <2> QED BY <2>3 DEF Lifecycle!Next
<1> QED BY <1>1, <1>2

(* What the callback is given is the results: the race implements its      *)
(* lifecycle.  Init maps to Init; AddPlayer and DrainJoin seat a player or *)
(* do nothing; DrainLeave, the status changes, AdvancePlayer, FinishRace,  *)
(* OnFinish and CloseDone map to a step each, the rest to none.            *)
LEMMA LifecycleStep ==
  ASSUME TypeOK, ControlInv, [Next]_vars
  PROVE  [Lifecycle!Next]_(Lifecycle!vars)
<1> USE DEF Lifecycle!Next, Lifecycle!vars
<1>1. CASE BeginTick
  <2>1. UNCHANGED <<players, finishedOrder, outcome>>
    BY <1>1 DEF BeginTick
  <2>2. CASE CountdownStarts /\ status' = "Starting"
    BY <2>1, <2>2 DEF CountdownStarts, Empty, outcome, Lifecycle!Countdown
  <2>3. CASE RaceStarts /\ status' = "InProgress"
    BY <2>1, <2>3 DEF RaceStarts, outcome, Lifecycle!Go
  <2>4. CASE UNCHANGED status
    BY <2>1, <2>4 DEF outcome
  <2> QED BY <1>1, <2>2, <2>3, <2>4 DEF BeginTick
<1>2. ASSUME NEW p \in Players, AdvancePlayer(p) PROVE [Lifecycle!Next]_(Lifecycle!vars)
  <2>1. status = "InProgress" /\ p \in DOMAIN players /\ UNCHANGED <<status, outcome>>
    BY <1>2 DEF AdvancePlayer, ControlInv
  <2>2. /\ finishedOrder' = finishedOrder \/ finishedOrder' = Append(finishedOrder, p)
        /\ DOMAIN players' = DOMAIN players
    BY <1>2 DEF AdvancePlayer
  <2>3. CASE finishedOrder' = Append(finishedOrder, p)
    <3>1. Lifecycle!Cross(p)
      BY <2>1, <2>2, <2>3 DEF outcome, Lifecycle!Cross
    <3> QED BY <3>1
  <2> QED BY <2>1, <2>2, <2>3 DEF outcome
<1>3. CASE FinishRace
  <2>1. FinalResults
          = {line \in Lifecycle!Standing(finishedOrder) : line.player \in DOMAIN players}
    BY DEF FinalResults, Lifecycle!Standing
  <2>2. status # "Finished"
    BY <1>3 DEF FinishRace, Goto, ControlInv, Over
  <2>3. /\ status' = "Finished" /\ evtResults' = FinalResults
        /\ UNCHANGED <<players, finishedOrder, reported, done>>
    BY <1>3 DEF FinishRace
  <2>4. Lifecycle!End
    BY <2>1, <2>2, <2>3 DEF Lifecycle!End
  <2> QED BY <2>4
<1>4. CASE OnFinish
  <2>1. status = "Finished" /\ reported = <<>> /\ evtResults = FinalResults
    BY <1>4 DEF OnFinish, Goto, ControlInv, Over
  <2>2. reported' = <<evtResults>> /\ UNCHANGED <<race, evtResults, done>>
    BY <1>4, <2>1 DEF OnFinish
  <2> QED BY <2>1, <2>2 DEF race, Lifecycle!Report
<1>5. CASE CloseDone
  <2>1. reported # <<>> /\ ~done
    BY <1>5 DEF CloseDone, Goto, ControlInv
  <2>2. done' = TRUE /\ UNCHANGED <<race, evtResults, reported>>
    BY <1>5 DEF CloseDone
  <2> QED BY <2>1, <2>2 DEF race, Lifecycle!Close
<1>6. ASSUME NEW p \in Players, AddPlayer(p) PROVE [Lifecycle!Next]_(Lifecycle!vars)
  BY <1>6, SeatTaken DEF AddPlayer
<1>7. CASE DrainJoin
  <2>1. Head(joinMsg) \in Players
    BY <1>7, RaceAssumption, TailType DEF DrainJoin, TypeOK
  <2> QED BY <1>7, <2>1, SeatTaken DEF DrainJoin
<1>8. CASE DrainLeave
  <2>1. Head(leaveMsg) \in Leavers
    <3>1. leaveMsg \in Seq(Leavers) /\ leaveMsg # <<>>
      BY <1>8 DEF DrainLeave, TypeOK
    <3> QED BY <3>1
  <2>2. status # "Finished"
    BY <1>8 DEF DrainLeave, Goto, ControlInv, Over
  <2>3. DOMAIN players' = DOMAIN players \ {Head(leaveMsg)}
        /\ UNCHANGED <<status, finishedOrder, outcome>>
    BY <1>8 DEF DrainLeave, Removed
  <2>4. Lifecycle!Leave(Head(leaveMsg))
    BY <2>2, <2>3 DEF outcome, Lifecycle!Leave
  <2> QED BY <2>1, <2>4
<1>9. CASE DrainInput
  BY <1>9 DEF DrainInput, outcome
<1>10. CASE Top \/ JoinsDone \/ LeavesDone \/ InputsDone \/ EndTick
  BY <1>10 DEF Top, JoinsDone, LeavesDone, InputsDone, EndTick, race, outcome
<1>11. CASE CheckEmpty \/ CheckFinish \/ Wait
  BY <1>11 DEF CheckEmpty, CheckFinish, Wait, race, outcome
<1>12. CASE (\E p \in Players : \E s \in Seqs : ApplyInput(p, s)) \/ Channels
  BY <1>12 DEF ApplyInput, Channels, EnqueueJoin, EnqueueLeave, TakeSnapshot, race, outcome
<1>13. CASE Cancel \/ Time \/ UNCHANGED vars
  BY <1>13 DEF Cancel, Time, CountdownElapses, ReapDelayElapses, vars, race, outcome
<1> QED
  BY <1>1, <1>2, <1>3, <1>4, <1>5, <1>6, <1>7, <1>8, <1>9, <1>10, <1>11, <1>12, <1>13
     DEF Next, Run, Dispatcher

(* The race implements its lifecycle, with the results and the callback,   *)
(* and with its seats.                                                     *)
THEOREM LifecycleImplemented == Spec => ImplementsLifecycle
<1>1. Init => Lifecycle!Init
  <2>1. Init => DOMAIN players = {}
    BY DEF Init
  <2> QED BY <2>1 DEF Init, Lifecycle!Init
<1> QED
  BY <1>1, LifecycleStep, TypeCorrect, ControlHolds, PTL
     DEF Spec, ImplementsLifecycle, Lifecycle!Spec

(* What GameServer sees of a race is implied by its lifecycle: every step  *)
(* of that is a step of the seats, or the status moves on before the end,  *)
(* or the callback is called.                                              *)
THEOREM SeatsImplemented == Spec => ImplementsSeats
<1>1. Init => Seats!Init
  <2>1. Init => DOMAIN players = {}
    BY DEF Init
  <2> QED BY <2>1 DEF Init, Seats!Init
<1>2. ASSUME ControlInv, [Lifecycle!Next]_(Lifecycle!vars) PROVE [Seats!Next]_(Seats!vars)
  <2> USE DEF Seats!Next, Seats!vars
  <2>0. done => status = "Finished"
    BY <1>2 DEF ControlInv, Over
  <2>1. ASSUME NEW p \in Players, Lifecycle!Seat(p) PROVE Seats!Next
    <3>1. Seats!Seat(p)
      BY <2>0, <2>1, SameCount DEF Lifecycle!Seat, Seats!Seat, Seats!Free
    <3> QED BY <3>1
  <2>2. ASSUME NEW p \in Leavers, Lifecycle!Leave(p) PROVE Seats!Next
    <3>1. Seats!Leave(p)
      BY <2>0, <2>2 DEF Lifecycle!Leave, Seats!Leave
    <3> QED BY <3>1
  <2>3. CASE Lifecycle!End
    BY <2>0, <2>3 DEF Lifecycle!End, Seats!End
  <2>4. CASE Lifecycle!Close
    <3>1. status = "Finished"
      BY <1>2, <2>4 DEF Lifecycle!Close, ControlInv, Over
    <3> QED BY <2>4, <3>1 DEF Lifecycle!Close, Seats!Close
  <2>5. CASE Lifecycle!Countdown \/ Lifecycle!Go \/ Lifecycle!Report
    BY <2>5 DEF Lifecycle!Countdown, Lifecycle!Go, Lifecycle!Report
  <2>6. CASE \E p \in Players : Lifecycle!Cross(p)
    BY <2>6 DEF Lifecycle!Cross
  <2>7. CASE UNCHANGED Lifecycle!vars
    BY <2>7 DEF Lifecycle!vars
  <2> QED BY <1>2, <2>1, <2>2, <2>3, <2>4, <2>5, <2>6, <2>7 DEF Lifecycle!Next
<1> QED
  BY <1>1, <1>2, LifecycleStep, TypeCorrect, ControlHolds, PTL
     DEF Spec, ImplementsSeats, Seats!Spec

(* Nothing that a race ended with is changed afterwards, by whatever is    *)
(* still queued or still calls AddPlayer.                                  *)
THEOREM FrozenRaceHolds == Spec => FrozenRace
<1>1. ASSUME TypeOK, ControlInv, [Next]_vars, status = "Finished"
      PROVE  UNCHANGED <<status, players, finishedOrder, evtResults>>
  <2>1. pc \in Over
    BY <1>1 DEF ControlInv
  <2>2. ASSUME NEW p \in Players, AddPlayer(p)
        PROVE  UNCHANGED <<status, players, finishedOrder, evtResults>>
    BY <1>1, <2>2, AddedWhenOver DEF AddPlayer, outcome
  <2>3. CASE Run
    BY <2>1, <2>3 DEF Run, Top, DrainJoin, JoinsDone, DrainLeave, LeavesDone, BeginTick,
       DrainInput, InputsDone, AdvancePlayer, EndTick, CheckEmpty, CheckFinish, Wait,
       FinishRace, OnFinish, CloseDone, Goto, CallFinish, Over, race
  <2>4. CASE (\E p \in Players : \E s \in Seqs : ApplyInput(p, s)) \/ Channels
    BY <2>4 DEF ApplyInput, Channels, EnqueueJoin, EnqueueLeave, TakeSnapshot, race, outcome
  <2>5. CASE Cancel \/ Time \/ UNCHANGED vars
    BY <2>5 DEF Cancel, Time, CountdownElapses, ReapDelayElapses, vars, race, outcome
  <2> QED
    BY <1>1, <2>2, <2>3, <2>4, <2>5 DEF Next, Dispatcher
<1> QED BY <1>1, TypeCorrect, ControlHolds, PTL DEF Spec, FrozenRace

-----------------------------------------------------------------------------
(* One player.  A step lets it in, leaves it alone, hands it an input or   *)
(* lets it pass a waypoint, the last two only if its car has not finished. *)
Steered(q) == \E n \in Nat : players'[q] = [players[q] EXCEPT !.seq = n]

PlayerStep(q) ==
  \/ q \notin DOMAIN players /\ players'[q] = NewPlayerState
  \/ q \in DOMAIN players /\ players'[q] = players[q]
  \/ q \in DOMAIN players /\ Racing(q) /\ Steered(q)
  \/ q \in DOMAIN players /\ Racing(q) /\ q \in todo /\ players'[q] = Crossing(players[q])

LEMMA PlayerStepCases ==
  ASSUME TypeOK, ControlInv, [Next]_vars, NEW q \in DOMAIN players'
  PROVE  PlayerStep(q)
<1>1. ASSUME NEW p \in Players, players' = Added(p) PROVE PlayerStep(q)
  BY <1>1, AddedType DEF TypeOK, PlayerStep
<1>2. CASE DrainLeave
  BY <1>2 DEF DrainLeave, Removed, PlayerStep
<1>3. CASE DrainInput
  <2>1. Head(inputCh) \in [player : Players, seq : Seqs]
    BY <1>3, RaceAssumption, TailType DEF DrainInput, TypeOK
  <2>2. Head(inputCh).seq \in Nat
    BY <2>1, RaceAssumption
  <2>3. /\ DOMAIN players' = DOMAIN players
        /\ players'[q] = IF q = Head(inputCh).player /\ Racing(q)
                         THEN [players[q] EXCEPT !.seq = Head(inputCh).seq] ELSE players[q]
    BY <1>3 DEF DrainInput
  <2> QED BY <2>2, <2>3 DEF PlayerStep, Steered
<1>4. ASSUME NEW p \in Players, AdvancePlayer(p) PROVE PlayerStep(q)
  BY <1>4 DEF AdvancePlayer, PlayerStep
<1>5. CASE UNCHANGED <<players, finishedOrder>>
  BY <1>5 DEF PlayerStep
<1> QED BY <1>1, <1>2, <1>3, <1>4, <1>5, PlayersStepCases DEF PlayersStep

(* A car that finished is parked: inputs that were queued before it        *)
(* crossed the line, and every later tick, leave its state alone.          *)
THEOREM ParkedCarHolds == Spec => ParkedCar
<1>1. ASSUME TypeOK, ControlInv, [Next]_vars,
             NEW p \in DOMAIN players \cap DOMAIN players', players[p].finished
      PROVE  players'[p] = players[p]
  BY <1>1, PlayerStepCases DEF PlayerStep, Racing
<1>2. TypeOK /\ ControlInv /\ [Next]_vars
      => [\A p \in DOMAIN players \cap DOMAIN players' :
            players[p].finished => players'[p] = players[p]]_vars
  BY <1>1
<1> QED BY <1>2, TypeCorrect, ControlHolds, PTL DEF Spec, ParkedCar

(* No car passes a waypoint before the countdown is over or after the race *)
(* has ended, however early its inputs arrive.                             *)
THEOREM NoJumpStartHolds == Spec => NoJumpStart
<1>1. ASSUME TypeOK, ControlInv, [Next]_vars,
             NEW p \in DOMAIN players \cap DOMAIN players', players'[p].passed # players[p].passed
      PROVE  countdownOver /\ status = "InProgress" /\ ~done
  <2>1. players[p] \in PlayerState
    BY <1>1 DEF TypeOK
  <2>2. ~Steered(p)
    BY <1>1, <2>1 DEF Steered, PlayerState
  <2>3. p \in todo
    BY <1>1, <2>2, PlayerStepCases DEF PlayerStep
  <2> QED BY <1>1, <2>3 DEF ControlInv
<1>2. TypeOK /\ ControlInv /\ [Next]_vars
      => [\A p \in DOMAIN players \cap DOMAIN players' :
            players'[p].passed # players[p].passed
              => countdownOver /\ status = "InProgress" /\ ~done]_vars
  BY <1>1
<1> QED BY <1>2, TypeCorrect, ControlHolds, PTL DEF Spec, NoJumpStart

-----------------------------------------------------------------------------
(* Laps.  The pointer stays on the track, which makes the waypoints passed *)
(* a function of the lap and the pointer.                                  *)
Counted(s) ==
  /\ s.next < lenOr1
  /\ s.passed = (s.lap * lenOr1) + ((s.next + lenOr1 - 1) % lenOr1)
  /\ s.finished <=> s.lap >= 2 /\ s.lap >= MaxLaps

LapInv == \A p \in DOMAIN players : Counted(players[p])

LEMMA PointerArithmetic ==
  ASSUME NEW L \in Nat \ {0}, NEW n \in 0..(L - 1)
  PROVE  /\ n % L = n
         /\ (n + 1) % L = IF n = L - 1 THEN 0 ELSE n + 1
         /\ (n + L - 1) % L = IF n = 0 THEN L - 1 ELSE n - 1
OBVIOUS

LEMMA NewPlayerCounted == Counted(NewPlayerState)
<1>1. lenOr1 \in Nat \ {0} /\ 0 \in 0..(lenOr1 - 1)
  BY LenOr1Positive
<1>2. 1 % lenOr1 = IF lenOr1 = 1 THEN 0 ELSE 1
  <2>1. (0 + 1) % lenOr1 = IF 0 = lenOr1 - 1 THEN 0 ELSE 0 + 1
    BY <1>1, PointerArithmetic
  <2> QED BY <1>1, <2>1
<1>3. 1 % lenOr1 \in 0..(lenOr1 - 1)
  BY <1>1, <1>2
<1>4. ((1 % lenOr1) + lenOr1 - 1) % lenOr1 = 0
  <2>1. ((1 % lenOr1) + lenOr1 - 1) % lenOr1 =
          IF 1 % lenOr1 = 0 THEN lenOr1 - 1 ELSE (1 % lenOr1) - 1
    BY <1>1, <1>3, PointerArithmetic
  <2> QED BY <1>1, <1>2, <2>1
<1> QED BY <1>1, <1>3, <1>4 DEF Counted, NewPlayerState

LEMMA CrossingCounted ==
  ASSUME NEW s \in PlayerState, Counted(s), ~s.finished
  PROVE  Counted(Crossing(s))
<1>0. PICK L \in Nat \ {0} : L = lenOr1
  BY LenOr1Positive
<1>1. PICK n \in 0..(L - 1) : n = s.next
  BY <1>0 DEF Counted, PlayerState
<1>2. s.lap \in Nat /\ s.passed \in Nat /\ MaxLaps \in Nat /\ s.lap * L \in Nat
  BY <1>0, RaceAssumption DEF PlayerState
<1>3. /\ n % L = n
      /\ (n + 1) % L = IF n = L - 1 THEN 0 ELSE n + 1
      /\ (n + L - 1) % L = IF n = 0 THEN L - 1 ELSE n - 1
  BY PointerArithmetic
<1>4. PICK m \in 0..(L - 1) : m = Crossing(s).next /\ m = (n + 1) % L
  BY <1>0, <1>1, <1>3 DEF Crossing
<1>5. (m + L - 1) % L = n
  <2>1. (m + L - 1) % L = IF m = 0 THEN L - 1 ELSE m - 1
    BY PointerArithmetic
  <2> QED BY <1>3, <1>4, <2>1
<1>6. /\ Crossing(s).lap = IF n = 0 THEN s.lap + 1 ELSE s.lap
      /\ Crossing(s).finished <=> n = 0 /\ s.lap > 0 /\ s.lap + 1 >= MaxLaps
  BY <1>0, <1>1, <1>3 DEF Crossing, Completes, OnStartLine
<1>7. Crossing(s).passed = (Crossing(s).lap * L) + n
  <2>1. s.passed = (s.lap * L) + (IF n = 0 THEN L - 1 ELSE n - 1)
    BY <1>0, <1>1, <1>3 DEF Counted
  <2>2. Crossing(s).passed = s.passed + 1
    BY DEF Crossing
  <2>3. (s.lap + 1) * L = (s.lap * L) + L
    BY <1>2
  <2> QED BY <1>2, <1>6, <2>1, <2>2, <2>3
<1>8. Crossing(s).finished <=> Crossing(s).lap >= 2 /\ Crossing(s).lap >= MaxLaps
  BY <1>2, <1>6 DEF Counted
<1> QED BY <1>0, <1>4, <1>5, <1>7, <1>8 DEF Counted

LEMMA LapStep == TypeOK /\ ControlInv /\ LapInv /\ [Next]_vars => LapInv'
<1> SUFFICES ASSUME TypeOK, ControlInv, LapInv, [Next]_vars, NEW q \in DOMAIN players'
             PROVE  Counted(players'[q])
  BY DEF LapInv, Counted
<1>1. q \in DOMAIN players => players[q] \in PlayerState /\ Counted(players[q])
  BY DEF TypeOK, LapInv
<1>2. CASE q \in DOMAIN players /\ Steered(q)
  BY <1>1, <1>2 DEF Steered, PlayerState, Counted
<1> QED BY <1>1, <1>2, PlayerStepCases, NewPlayerCounted, CrossingCounted DEF PlayerStep, Racing

(* Whole loops are compared by their number.                               *)
LEMMA Loops ==
  ASSUME NEW L \in Nat \ {0}, NEW k \in Nat, NEW n \in Nat, NEW r \in 0..(L - 1)
  PROVE  /\ k >= n => (k * L) + r >= n * L
         /\ (k * L) + r >= (n + 1) * L => k >= n + 1
<1>1. /\ k * L \in Nat /\ n * L \in Nat
      /\ (n + 1) * L = (n * L) + L
  OBVIOUS
<1>2. k >= n => k * L >= n * L
  <2> SUFFICES ASSUME k >= n PROVE k * L >= n * L
    OBVIOUS
  <2>1. PICK d \in Nat : k = n + d
    <3>1. k - n \in Nat /\ k = n + (k - n)
      OBVIOUS
    <3> QED BY <3>1
  <2>2. d * L \in Nat /\ k * L = (n * L) + (d * L)
    BY <2>1
  <2> QED BY <1>1, <2>2
<1>3. k <= n => k * L <= n * L
  <2> SUFFICES ASSUME k <= n PROVE k * L <= n * L
    OBVIOUS
  <2>1. PICK d \in Nat : n = k + d
    <3>1. n - k \in Nat /\ n = k + (n - k)
      OBVIOUS
    <3> QED BY <3>1
  <2>2. d * L \in Nat /\ n * L = (k * L) + (d * L)
    BY <2>1
  <2> QED BY <1>1, <2>2
<1> QED BY <1>1, <1>2, <1>3

LEMMA CountedLoops ==
  ASSUME NEW s \in PlayerState, Counted(s)
  PROVE  /\ s.finished => s.passed >= MaxLaps * lenOr1
         /\ s.passed >= (MaxLaps + 1) * lenOr1 => s.finished
<1>1. PICK L \in Nat \ {0} : L = lenOr1
  BY LenOr1Positive
<1>2. PICK n \in 0..(L - 1) : n = s.next
  BY <1>1 DEF Counted, PlayerState
<1>3. PICK r \in 0..(L - 1) : r = (n + L - 1) % L
  <2>1. (n + L - 1) % L = IF n = 0 THEN L - 1 ELSE n - 1
    BY PointerArithmetic
  <2> QED BY <2>1
<1>4. s.passed = (s.lap * L) + r
  BY <1>1, <1>2, <1>3 DEF Counted
<1>5. s.lap \in Nat /\ MaxLaps \in Nat \ {0} /\ (s.finished <=> s.lap >= 2 /\ s.lap >= MaxLaps)
  BY RaceAssumption DEF Counted, PlayerState
<1>6. /\ s.lap >= MaxLaps => s.passed >= MaxLaps * L
      /\ s.passed >= (MaxLaps + 1) * L => s.lap >= MaxLaps + 1
  BY <1>4, <1>5, Loops
<1>7. s.lap >= MaxLaps + 1 => s.finished
  BY <1>5
<1> QED BY <1>1, <1>5, <1>6, <1>7

(* Laps are earned, for any length of the track and any number of laps:    *)
(* a car has passed as many waypoints as its lap counter and its pointer   *)
(* say, and finishes after MaxLaps loops, or one loop later.               *)
THEOREM LapAccountingHolds == Spec => []LapAccounting
<1>1. Init => LapInv
  BY DEF Init, LapInv
<1>2. TypeOK /\ LapInv => LapAccounting
  BY CountedLoops DEF TypeOK, LapInv, LapAccounting, Counted
<1> QED BY <1>1, <1>2, LapStep, TypeCorrect, ControlHolds, PTL DEF Spec

-----------------------------------------------------------------------------
(* The ranking.  Every finished car stands in the crossing order where its *)
(* FinishPos says; every entry is that of a finished car, unless its       *)
(* player may leave: RemovePlayer keeps the entry, and a player who comes  *)
(* back starts again.                                                      *)
Placed(p) ==
  players[p].finished => /\ players[p].pos \in DOMAIN finishedOrder
                         /\ finishedOrder[players[p].pos] = p

Earned(i) ==
  finishedOrder[i] \notin Leavers => /\ finishedOrder[i] \in DOMAIN players
                                    /\ players[finishedOrder[i]].finished
                                    /\ players[finishedOrder[i]].pos = i

RankInv ==
  /\ \A p \in DOMAIN players : Placed(p)
  /\ \A i \in DOMAIN finishedOrder : Earned(i)

(* A step that neither lets a car cross the line nor removes a player.     *)
LEMMA RankKept ==
  ASSUME RankInv, finishedOrder' = finishedOrder, DOMAIN players \subseteq DOMAIN players',
         \A q \in DOMAIN players : /\ players'[q].finished = players[q].finished
                                   /\ players'[q].pos = players[q].pos,
         \A q \in DOMAIN players' \ DOMAIN players : ~players'[q].finished
  PROVE  RankInv'
BY DEF RankInv, Placed, Earned

LEMMA AppendedLast ==
  ASSUME NEW S, NEW q \in Seq(S), NEW x \in S
  PROVE  /\ Len(q) \in Nat /\ DOMAIN q = 1..Len(q) /\ DOMAIN Append(q, x) = 1..(Len(q) + 1)
         /\ Append(q, x)[Len(q) + 1] = x /\ \A i \in 1..Len(q) : Append(q, x)[i] = q[i]
<1>1. Append(q, x) \in Seq(S) /\ Len(Append(q, x)) = Len(q) + 1
  OBVIOUS
<1> QED BY <1>1

LEMMA RankCrossing ==
  ASSUME TypeOK, ControlInv, RankInv, NEW p \in Players, AdvancePlayer(p)
  PROVE  RankInv'
<1>0. p \in DOMAIN players /\ DOMAIN players' = DOMAIN players
  BY DEF AdvancePlayer, ControlInv
<1>1. CASE UNCHANGED <<players, finishedOrder>>
  BY <1>1 DEF RankInv, Placed, Earned
<1>2. CASE ~UNCHANGED <<players, finishedOrder>> /\ ~Completes(players[p])
  <2>1. /\ finishedOrder' = finishedOrder /\ Racing(p)
        /\ players' = [players EXCEPT ![p] = Crossing(players[p])]
    BY <1>2 DEF AdvancePlayer
  <2>2. ~players[p].finished /\ players[p] \in PlayerState
    BY <1>0, <2>1 DEF Racing, TypeOK
  <2>3. ~Crossing(players[p]).finished /\ Crossing(players[p]).pos = players[p].pos
    BY <1>2 DEF Crossing
  <2>4. \A q \in DOMAIN players : /\ players'[q].finished = players[q].finished
                                  /\ players'[q].pos = players[q].pos
    <3>1. players'[p] = Crossing(players[p]) /\ \A q \in DOMAIN players \ {p} : players'[q] = players[q]
      BY <1>0, <2>1
    <3>2. players[p].finished = FALSE /\ Crossing(players[p]).finished = FALSE
      BY <2>2, <2>3, <1>2 DEF PlayerState, Crossing, Completes, OnStartLine
    <3> QED BY <2>3, <3>1, <3>2
  <2> QED BY <1>0, <2>1, <2>4, RankKept
<1>3. CASE ~UNCHANGED <<players, finishedOrder>> /\ Completes(players[p])
  <2> DEFINE n == Len(finishedOrder)
  <2>1. /\ finishedOrder' = Append(finishedOrder, p) /\ ~players[p].finished
        /\ players' = [players EXCEPT ![p] = Crossing(players[p])]
    BY <1>3 DEF AdvancePlayer, Racing
  <2>2. /\ n \in Nat /\ DOMAIN finishedOrder = 1..n /\ DOMAIN finishedOrder' = 1..(n + 1)
        /\ finishedOrder'[n + 1] = p /\ \A i \in 1..n : finishedOrder'[i] = finishedOrder[i]
    <3>1. finishedOrder \in Seq(Players)
      BY DEF TypeOK
    <3> QED BY <2>1, <3>1, AppendedLast
  <2>3. /\ players'[p].finished /\ players'[p].pos = n + 1
        /\ \A q \in DOMAIN players \ {p} : players'[q] = players[q]
    BY <1>0, <1>3, <2>1 DEF Crossing
  <2>4. ASSUME NEW q \in DOMAIN players PROVE Placed(q)'
    BY <2>2, <2>3, <2>4 DEF RankInv, Placed
  <2>5. ASSUME NEW i \in 1..(n + 1) PROVE Earned(i)'
    <3>1. CASE i = n + 1
      BY <1>0, <2>2, <2>3, <3>1 DEF Earned
    <3>2. CASE i \in 1..n
      <4>1. Earned(i) /\ finishedOrder'[i] = finishedOrder[i]
        BY <2>2, <3>2 DEF RankInv
      <4>2. finishedOrder[i] \notin Leavers => finishedOrder[i] # p
        BY <2>1, <4>1 DEF Earned
      <4> QED BY <1>0, <2>3, <4>1, <4>2 DEF Earned
    <3> QED BY <2>2, <3>1, <3>2
  <2> QED BY <1>0, <2>2, <2>4, <2>5 DEF RankInv
<1> QED BY <1>1, <1>2, <1>3 DEF AdvancePlayer

LEMMA RankStep == TypeOK /\ ControlInv /\ RankInv /\ [Next]_vars => RankInv'
<1> SUFFICES ASSUME TypeOK, ControlInv, RankInv, [Next]_vars PROVE RankInv'
  OBVIOUS
<1>1. ASSUME NEW p \in Players, players' = Added(p), UNCHANGED finishedOrder PROVE RankInv'
  <2>1. /\ DOMAIN players \subseteq DOMAIN players'
        /\ \A q \in DOMAIN players : players'[q] = players[q]
        /\ \A q \in DOMAIN players' \ DOMAIN players : ~players'[q].finished
    <3>1. ~NewPlayerState.finished
      BY DEF NewPlayerState
    <3> QED BY <1>1, <3>1, AddedType DEF TypeOK
  <2> QED BY <1>1, <2>1, RankKept
<1>2. CASE DrainLeave
  <2>1. Head(leaveMsg) \in Leavers
    BY <1>2, TailType, RaceAssumption DEF DrainLeave, TypeOK
  <2>2. /\ DOMAIN players' = DOMAIN players \ {Head(leaveMsg)} /\ finishedOrder' = finishedOrder
        /\ \A q \in DOMAIN players' : players'[q] = players[q]
    BY <1>2 DEF DrainLeave, Removed
  <2> QED BY <2>1, <2>2 DEF RankInv, Placed, Earned
<1>3. CASE DrainInput
  <2>1. DOMAIN players' = DOMAIN players /\ finishedOrder' = finishedOrder
    BY <1>3 DEF DrainInput
  <2>2. ASSUME NEW q \in DOMAIN players
        PROVE  players'[q].finished = players[q].finished /\ players'[q].pos = players[q].pos
    <3>1. players[q] \in PlayerState
      BY DEF TypeOK
    <3>2. players'[q] = players[q] \/ players'[q] = [players[q] EXCEPT !.seq = Head(inputCh).seq]
      BY <1>3 DEF DrainInput
    <3> QED BY <3>1, <3>2 DEF PlayerState
  <2> QED BY <2>1, <2>2, RankKept
<1>4. ASSUME NEW p \in Players, AdvancePlayer(p) PROVE RankInv'
  BY <1>4, RankCrossing
<1>5. CASE UNCHANGED <<players, finishedOrder>>
  BY <1>5 DEF RankInv, Placed, Earned
<1> QED BY <1>1, <1>2, <1>3, <1>4, <1>5, PlayersStepCases DEF PlayersStep

LEMMA RankHolds == Spec => []RankInv
<1>1. Init => RankInv
  BY DEF Init, RankInv
<1> QED BY <1>1, RankStep, TypeCorrect, ControlHolds, PTL DEF Spec

(* Positions are shared by nobody: a player who never leaves is listed     *)
(* exactly when its car has finished, once, where its FinishPos says.      *)
THEOREM RankingHolds == Spec => []Ranking
<1>1. RankInv => Ranking
  BY DEF RankInv, Ranking, Placed, Earned
<1> QED BY <1>1, RankHolds, PTL

-----------------------------------------------------------------------------
(* Why a race ends.  Between the test of the finish condition and the      *)
(* mutex of finishRace players may still be added, but none is removed and *)
(* none moves, so the finisher that was seen is among the results, and who *)
(* has not finished is new.                                                *)
FinishedOrNew == \A p \in DOMAIN players : Racing(p) => players[p] = NewPlayerState

Reason ==
  \/ cause = "cancelled" /\ cancelled
  \/ cause = "empty" /\ lastEmpty = "old"
  \/ /\ cause = "all finished" /\ started /\ FinishedOrNew
     /\ pc = "finish" => FinalResults # {}
     /\ pc \in Over => evtResults # {}

ReasonInv == pc \in Over \cup {"finish"} => Reason

(* A finished car is a result.                                             *)
LEMMA FinisherListed ==
  ASSUME RankInv, NEW p \in DOMAIN players, players[p].finished
  PROVE  FinalResults # {}
<1>1. players[p].pos \in DOMAIN finishedOrder /\ finishedOrder[players[p].pos] = p
  BY DEF RankInv, Placed
<1> QED BY <1>1 DEF FinalResults

LEMMA ResultsGrow ==
  ASSUME finishedOrder' = finishedOrder, DOMAIN players \subseteq DOMAIN players', FinalResults # {}
  PROVE  FinalResults' # {}
<1>1. PICK i \in DOMAIN finishedOrder : finishedOrder[i] \in DOMAIN players
  BY DEF FinalResults
<1>2. i \in {j \in DOMAIN finishedOrder' : finishedOrder'[j] \in DOMAIN players'}
  BY <1>1
<1> QED BY <1>2 DEF FinalResults

LEMMA NewOnesKept ==
  ASSUME players' = players PROVE FinishedOrNew' = FinishedOrNew
BY DEF FinishedOrNew, Racing

LEMMA ReasonStep == TypeOK /\ RankInv /\ ReasonInv /\ [Next]_vars => ReasonInv'
<1> SUFFICES ASSUME TypeOK, RankInv, ReasonInv, [Next]_vars PROVE ReasonInv'
  OBVIOUS
<1> USE DEF Over
<1>1. ASSUME NEW p \in Players, AddPlayer(p) PROVE ReasonInv'
  <2>1. DOMAIN players \subseteq DOMAIN players' /\ finishedOrder' = finishedOrder
    BY <1>1, AddedType DEF AddPlayer, TypeOK
  <2>2. FinalResults # {} => FinalResults' # {}
    BY <2>1, ResultsGrow
  <2>3. UNCHANGED <<control, locals, outcome, env>>
    BY <1>1 DEF AddPlayer
  <2>4. FinishedOrNew => FinishedOrNew'
    BY <1>1, AddedType DEF AddPlayer, TypeOK, FinishedOrNew, Racing
  <2> QED BY <2>2, <2>3, <2>4 DEF ReasonInv, Reason, control, locals, outcome, env
<1>2. CASE Top \/ Wait
  <2>1. pc' \in {"top", "joins"} \/ (pc' = "finish" /\ cause' = "cancelled" /\ cancelled')
    BY <1>2 DEF Top, Wait, Goto, CallFinish, env
  <2>2. CASE pc' \in {"top", "joins"}
    BY <2>2 DEF ReasonInv
  <2>3. CASE cause' = "cancelled" /\ cancelled'
    BY <2>3 DEF ReasonInv, Reason
  <2> QED BY <2>1, <2>2, <2>3
<1>3. CASE CheckEmpty
  BY <1>3 DEF CheckEmpty, Reap, Goto, CallFinish, ReasonInv, Reason
<1>4. CASE CheckFinish
  <2>1. CASE pc' = "finish"
    <3>1. /\ started /\ allPlayersFinished /\ cause' = "all finished"
          /\ UNCHANGED <<players, finishedOrder, started>>
      BY <1>4, <2>1 DEF CheckFinish, Goto, CallFinish, race, locals
    <3>2. PICK p \in DOMAIN players : players[p].finished
      BY <3>1 DEF allPlayersFinished, Empty, Racing
    <3>3. FinalResults' # {}
      BY <3>1, <3>2, FinisherListed, ResultsKept
    <3>4. FinishedOrNew'
      BY <3>1 DEF allPlayersFinished, FinishedOrNew, Racing
    <3> QED BY <2>1, <3>1, <3>3, <3>4 DEF ReasonInv, Reason
  <2> QED BY <1>4, <2>1 DEF CheckFinish, Goto, CallFinish, ReasonInv
<1>5. CASE FinishRace
  <2>1. evtResults' = FinalResults
    BY <1>5 DEF FinishRace
  <2>2. FinishedOrNew' = FinishedOrNew
    BY <1>5, NewOnesKept DEF FinishRace
  <2> QED BY <1>5, <2>1, <2>2 DEF FinishRace, Goto, ReasonInv, Reason, locals, env
<1>6. CASE OnFinish \/ CloseDone
  <2>1. FinishedOrNew' = FinishedOrNew
    BY <1>6, NewOnesKept DEF OnFinish, CloseDone, race
  <2> QED BY <1>6, <2>1 DEF OnFinish, CloseDone, Goto, ReasonInv, Reason, locals, env
<1>7. CASE DrainJoin \/ JoinsDone \/ DrainLeave \/ LeavesDone \/ BeginTick
  BY <1>7 DEF DrainJoin, JoinsDone, DrainLeave, LeavesDone, BeginTick, Goto, ReasonInv
<1>8. CASE DrainInput \/ InputsDone \/ EndTick \/ \E p \in Players : AdvancePlayer(p)
  BY <1>8 DEF DrainInput, InputsDone, EndTick, AdvancePlayer, Goto, ReasonInv
<1>9. CASE /\ UNCHANGED <<race, control, outcome, started>>
           /\ cancelled => cancelled'
           /\ lastEmpty = "old" => lastEmpty' = "old"
  <2>1. /\ UNCHANGED <<pc, cause, evtResults>>
        /\ FinalResults' = FinalResults /\ FinishedOrNew' = FinishedOrNew
    BY <1>9, ResultsKept, NewOnesKept DEF race, control, outcome
  <2> QED BY <1>9, <2>1 DEF ReasonInv, Reason
<1>10. CASE (\E p \in Players : \E s \in Seqs : ApplyInput(p, s)) \/ Channels
  <2>1. UNCHANGED <<race, control, locals, outcome, env>>
    BY <1>10 DEF ApplyInput, Channels, EnqueueJoin, EnqueueLeave, TakeSnapshot
  <2> QED BY <2>1, <1>9 DEF locals, env
<1>11. CASE Cancel \/ Time \/ UNCHANGED vars
  BY <1>11, <1>9 DEF Cancel, Time, CountdownElapses, ReapDelayElapses, vars, locals, env
<1> QED
  BY <1>1, <1>2, <1>3, <1>4, <1>5, <1>6, <1>7, <1>8, <1>10, <1>11 DEF Next, Run, Dispatcher

(* A race ends because it is cancelled, because it stood empty for the     *)
(* reap delay, or because its cars had finished: then somebody is in its   *)
(* results, and who has not finished was added after the test and never    *)
(* drove, although the test is made outside of finishRace.                 *)
THEOREM EndsForAReasonHolds == Spec => []EndsForAReason
<1>1. Init => ReasonInv
  BY DEF Init, ReasonInv, Over
<1>2. ControlInv /\ ReasonInv => EndsForAReason
  BY DEF ControlInv, ReasonInv, Reason, FinishedOrNew, Over, EndsForAReason
<1> QED BY <1>1, <1>2, ReasonStep, TypeCorrect, ControlHolds, RankHolds, PTL DEF Spec
=============================================================================

------------------------------ MODULE RaceLoop ------------------------------
(***************************************************************************)
(* One race of the game server: the goroutine Race.Run of                  *)
(* internal/race/manager.go, the Race value it shares with the other       *)
(* goroutines (internal/race/race.go), and what those goroutines do to it: *)
(* the dispatcher registers players and queues inputs, any holder of the   *)
(* Race may queue joins and leaves, the broadcaster takes snapshots, the   *)
(* process is told to stop, and time passes.                               *)
(*                                                                         *)
(* One step is one critical section of Race.mu, one channel operation or   *)
(* one branch of Run between two of them; pc names the next one.  A tick   *)
(* holds the mutex from BeginTick to EndTick.                              *)
(*                                                                         *)
(* Abstracted: where a car is.  Whether it lies inside the radius of its   *)
(* next waypoint is free in every tick, which covers every input and every *)
(* track.  The clock is two flags raised by time passing.  Events other    *)
(* than RaceFinishedEvt are left out: Run discards them at the end of the  *)
(* tick.  tickIdx only stamps snapshots and events.                        *)
(***************************************************************************)
EXTENDS Naturals, Sequences, FiniteSets

CONSTANTS
  Players,       \* player ids
  MaxPlayers,    \* Race.MaxPlayers
  MaxLaps,       \* Race.MaxLaps
  Waypoints,     \* len(Track.Waypoints)
  Seqs,          \* sequence numbers a client stamps on its inputs
  Joiners,       \* players for whom somebody calls EnqueueJoin
  Leavers,       \* players for whom somebody calls EnqueueLeave
  JoinCap, LeaveCap, InputCap, SnapshotCap,  \* capacities of the channels
  LeaveBound     \* bound: no leave is queued after this many finishes

ASSUME RaceAssumption ==
  /\ IsFiniteSet(Players)
  /\ MaxPlayers \in Nat \ {0}
  /\ MaxLaps \in Nat \ {0}
  /\ Waypoints \in Nat
  /\ Seqs \subseteq Nat
  /\ Joiners \subseteq Players
  /\ Leavers \subseteq Players
  /\ JoinCap \in Nat
  /\ LeaveCap \in Nat
  /\ InputCap \in Nat
  /\ SnapshotCap \in Nat
  /\ LeaveBound \in Nat

VARIABLES
  status,         \* Race.status
  players,        \* Race.players: a map from player id to PlayerState
  finishedOrder,  \* Race.finishedOrder
  joinMsg, leaveMsg, inputCh,  \* what waits in the three channels
  snapshotOut,    \* how many snapshots wait in SnapshotOut
  done,           \* Race.Done is closed
  pc,             \* where Run stands
  todo,           \* players advanceTickLocked has still to visit
  started,        \* local of Run
  lastEmpty,      \* local of Run: "zero", "set", or "old" (past the reap delay)
  countdownOver,  \* CountdownMillis have passed since StartRealTime
  cancelled,      \* the context of Run is cancelled
  cause,          \* which call of finishRace ended the race
  evtResults,     \* Results of the RaceFinishedEvt
  reported        \* history: the results each OnFinish call has read

race     == <<status, players, finishedOrder>>
channels == <<joinMsg, leaveMsg, inputCh, snapshotOut>>
control  == <<pc, cause>>
locals   == <<todo, started, lastEmpty>>
outcome  == <<done, evtResults, reported>>
env      == <<countdownOver, cancelled>>
vars     == <<race, channels, control, locals, outcome, env>>

Labels == {"top", "joins", "leaves", "lock", "inputs", "advance", "reap",
           "check", "wait", "finish", "callback", "close", "returned"}

(* PlayerState without the kinematics.  seq is LastInputTick; passed       *)
(* counts the CheckpointPassedEvt emitted for the player.                  *)
PlayerState == [lap : Nat, next : Nat, seq : Nat, passed : Nat,
                finished : BOOLEAN, pos : Nat]

Result == [player : Players, position : Nat]

lenOr1 == IF Waypoints = 0 THEN 1 ELSE Waypoints

TypeOK ==
  /\ status \in {"Pending", "Starting", "InProgress", "Finished"}
  /\ DOMAIN players \subseteq Players
  /\ players \in [DOMAIN players -> PlayerState]
  /\ finishedOrder \in Seq(Players)
  /\ joinMsg \in Seq(Joiners) /\ Len(joinMsg) <= JoinCap
  /\ leaveMsg \in Seq(Leavers) /\ Len(leaveMsg) <= LeaveCap
  /\ inputCh \in Seq([player : Players, seq : Seqs]) /\ Len(inputCh) <= InputCap
  /\ snapshotOut \in 0..SnapshotCap
  /\ pc \in Labels
  /\ cause \in {"none", "cancelled", "empty", "all finished"}
  /\ todo \subseteq Players
  /\ started \in BOOLEAN
  /\ lastEmpty \in {"zero", "set", "old"}
  /\ done \in BOOLEAN
  /\ evtResults \subseteq Result
  /\ reported \in Seq(SUBSET Result)
  /\ countdownOver \in BOOLEAN
  /\ cancelled \in BOOLEAN

-----------------------------------------------------------------------------
(* What the mutex protects.  A tick keeps it from BeginTick to EndTick.    *)

Locked == pc \in {"inputs", "advance"}

(* A fresh PlayerState heads for waypoint 1.                               *)
NewPlayerState ==
  [lap |-> 0, next |-> 1 % lenOr1, seq |-> 0, passed |-> 0, finished |-> FALSE, pos |-> 0]

Init ==
  /\ status = "Pending" /\ players = [p \in {} |-> NewPlayerState] /\ finishedOrder = <<>>
  /\ joinMsg = <<>> /\ leaveMsg = <<>> /\ inputCh = <<>> /\ snapshotOut = 0
  /\ pc = "top" /\ cause = "none"
  /\ todo = {} /\ started = FALSE /\ lastEmpty = "zero"
  /\ done = FALSE /\ evtResults = {} /\ reported = <<>>
  /\ countdownOver = FALSE /\ cancelled = FALSE

(* len(r.players) = 0                                                      *)
Empty == DOMAIN players = {}

(* AddPlayer refuses when the race is over or full.                        *)
FullMutant == status = "Finished" \/ Cardinality(DOMAIN players) > MaxPlayers
OpenMutant == Cardinality(DOMAIN players) >= MaxPlayers
Refused    == status = "Finished" \/ Cardinality(DOMAIN players) >= MaxPlayers

Added(p) ==
  IF Refused \/ p \in DOMAIN players
  THEN players
  ELSE [q \in DOMAIN players \cup {p} |-> IF q = p THEN NewPlayerState ELSE players[q]]

(* RemovePlayer; finishedOrder keeps the player's entry.                   *)
Removed(p) == [q \in DOMAIN players \ {p} |-> players[q]]

(* FinalResults and finalResultsLocked: the crossing order without those   *)
(* who are no longer in the race, whose positions stay vacant.             *)
FinalResults ==
  {[player |-> finishedOrder[i], position |-> i] :
      i \in {j \in DOMAIN finishedOrder : finishedOrder[j] \in DOMAIN players}}

(* A finished player obeys no input and moves no more.                     *)
RacingMutant(p) == TRUE
Racing(p) == ~players[p].finished

AnyFinishedMutant == \E p \in DOMAIN players : ~Racing(p)
allPlayersFinished == ~Empty /\ \A p \in DOMAIN players : ~Racing(p)

-----------------------------------------------------------------------------
(* The other goroutines.                                                   *)

(* RegisterPlayer, on the dispatcher's goroutine, adds a player directly.  *)
AddPlayer(p) ==
  /\ ~Locked
  /\ players' = Added(p)
  /\ UNCHANGED <<status, finishedOrder, channels, control, locals, outcome, env>>

(* Queuing never blocks: a message that finds its channel full is dropped. *)
OfferMutant(ch, cap, m) == IF Len(ch) <= cap THEN Append(ch, m) ELSE ch
Offer(ch, cap, m) == IF Len(ch) < cap THEN Append(ch, m) ELSE ch

EnqueueJoin(p) ==
  /\ joinMsg' = Offer(joinMsg, JoinCap, p)
  /\ UNCHANGED <<race, leaveMsg, inputCh, snapshotOut, control, locals, outcome, env>>

(* Mutant: the caller removes the player itself.                           *)
EnqueueLeaveMutant(p) ==
  /\ ~Locked /\ Len(finishedOrder) < LeaveBound
  /\ players' = Removed(p)
  /\ UNCHANGED <<status, finishedOrder, channels, control, locals, outcome, env>>

EnqueueLeave(p) ==
  /\ Len(finishedOrder) < LeaveBound
  /\ leaveMsg' = Offer(leaveMsg, LeaveCap, p)
  /\ UNCHANGED <<race, joinMsg, inputCh, snapshotOut, control, locals, outcome, env>>

(* Datagrams arrive in any order, so any sequence number may come next.    *)
ApplyInput(p, s) ==
  /\ inputCh' = Offer(inputCh, InputCap, [player |-> p, seq |-> s])
  /\ UNCHANGED <<race, joinMsg, leaveMsg, snapshotOut, control, locals, outcome, env>>

(* The broadcaster receives a snapshot.                                    *)
TakeSnapshot ==
  /\ snapshotOut > 0
  /\ snapshotOut' = snapshotOut - 1
  /\ UNCHANGED <<race, joinMsg, leaveMsg, inputCh, control, locals, outcome, env>>

Cancel ==
  /\ ~cancelled
  /\ cancelled' = TRUE
  /\ UNCHANGED <<race, channels, control, locals, outcome, countdownOver>>

CountdownElapses ==
  /\ status = "Starting" /\ ~countdownOver
  /\ countdownOver' = TRUE
  /\ UNCHANGED <<race, channels, control, locals, outcome, cancelled>>

ReapDelayElapses ==
  /\ lastEmpty = "set"
  /\ lastEmpty' = "old"
  /\ UNCHANGED <<race, channels, control, todo, started, outcome, env>>

-----------------------------------------------------------------------------
(* The goroutine Run.                                                      *)

Goto(from, to) == pc = from /\ pc' = to /\ cause' = cause

(* A call of finishRace, which takes the mutex in a step of its own.       *)
CallFinish(from, why) == pc = from /\ pc' = "finish" /\ cause' = why

(* The poll at the head of the loop.  Its Done case is never taken: Done   *)
(* is closed by Run itself, right before it returns.                       *)
Top ==
  /\ \/ cancelled  /\ CallFinish("top", "cancelled")
     \/ ~cancelled /\ Goto("top", "joins")
  /\ UNCHANGED <<race, channels, locals, outcome, env>>

DrainJoin ==
  /\ joinMsg # <<>>
  /\ Goto("joins", "joins")
  /\ joinMsg' = Tail(joinMsg)
  /\ players' = Added(Head(joinMsg))
  /\ UNCHANGED <<status, finishedOrder, leaveMsg, inputCh, snapshotOut, locals, outcome, env>>

JoinsDone ==
  /\ joinMsg = <<>>
  /\ Goto("joins", "leaves")
  /\ UNCHANGED <<race, channels, locals, outcome, env>>

DrainLeave ==
  /\ leaveMsg # <<>>
  /\ Goto("leaves", "leaves")
  /\ leaveMsg' = Tail(leaveMsg)
  /\ players' = Removed(Head(leaveMsg))
  /\ UNCHANGED <<status, finishedOrder, joinMsg, inputCh, snapshotOut, locals, outcome, env>>

LeavesDone ==
  /\ leaveMsg = <<>>
  /\ Goto("leaves", "lock")
  /\ UNCHANGED <<race, channels, locals, outcome, env>>

(* The mutex is taken and the status moves on.  One tick does not do both: *)
(* the countdown is too young in the tick that starts it.                  *)
CountdownStarts == status = "Pending" /\ ~Empty
RaceStarts      == status = "Starting" /\ countdownOver

StartedMutant == started
Started == started \/ RaceStarts

BeginTick ==
  /\ Goto("lock", "inputs")
  /\ \/ CountdownStarts /\ status' = "Starting"
     \/ RaceStarts /\ status' = "InProgress"
     \/ ~CountdownStarts /\ ~RaceStarts /\ UNCHANGED status
  /\ started' = Started
  /\ UNCHANGED <<players, finishedOrder, channels, todo, lastEmpty, outcome, env>>

(* applyInputLocked: unknown and finished players are ignored, the rest    *)
(* keep the input that was taken from the channel last.                    *)
DrainInput ==
  /\ inputCh # <<>>
  /\ Goto("inputs", "inputs")
  /\ inputCh' = Tail(inputCh)
  /\ LET m == Head(inputCh)
     IN  players' = [p \in DOMAIN players |->
                       IF p = m.player /\ Racing(p)
                       THEN [players[p] EXCEPT !.seq = m.seq] ELSE players[p]]
  /\ UNCHANGED <<status, finishedOrder, joinMsg, leaveMsg, snapshotOut, locals, outcome, env>>

(* Cars only advance in a race that is in progress.                        *)
AdvancingMutant == IF status \in {"Starting", "InProgress"} THEN DOMAIN players ELSE {}
Advancing == IF status = "InProgress" THEN DOMAIN players ELSE {}

InputsDone ==
  /\ inputCh = <<>>
  /\ Goto("inputs", "advance")
  /\ todo' = Advancing
  /\ UNCHANGED <<race, channels, started, lastEmpty, outcome, env>>

(* The player inside the radius of its next waypoint: the pointer moves    *)
(* on; the start line opens the first lap or completes one, and completing *)
(* lap MaxLaps finishes.                                                   *)
OnStartLine(s) == s.next % lenOr1 = 0

CompletesMutant(s) == s.lap > 0 /\ s.lap + 1 >= MaxLaps
Completes(s) == OnStartLine(s) /\ s.lap > 0 /\ s.lap + 1 >= MaxLaps

(* The mutant does not mark the finisher as finished.                      *)
CrossingMutant(s) ==
  [lap |-> IF OnStartLine(s) THEN s.lap + 1 ELSE s.lap,
   next |-> ((s.next % lenOr1) + 1) % lenOr1,
   passed |-> s.passed + 1, seq |-> s.seq, finished |-> FALSE,
   pos |-> IF Completes(s) THEN Len(finishedOrder) + 1 ELSE s.pos]

Crossing(s) ==
  [lap |-> IF OnStartLine(s) THEN s.lap + 1 ELSE s.lap,
   next |-> ((s.next % lenOr1) + 1) % lenOr1,
   passed |-> s.passed + 1, seq |-> s.seq, finished |-> Completes(s),
   pos |-> IF Completes(s) THEN Len(finishedOrder) + 1 ELSE s.pos]

(* One iteration of advanceTickLocked, in the random order of a Go map:    *)
(* the player is finished or out of reach, or it passes its waypoint.      *)
AdvancePlayer(p) ==
  /\ Goto("advance", "advance")
  /\ p \in todo
  /\ todo' = todo \ {p}
  /\ \/ UNCHANGED <<players, finishedOrder>>
     \/ /\ Racing(p) /\ Waypoints > 0
        /\ players' = [players EXCEPT ![p] = Crossing(players[p])]
        /\ finishedOrder' = IF Completes(players[p])
                            THEN Append(finishedOrder, p) ELSE finishedOrder
  /\ UNCHANGED <<status, channels, started, lastEmpty, outcome, env>>

(* How many snapshots wait after the send of EndTick, which is non-blocking *)
(* (the mutant blocks: no outcome is possible when the channel is full).   *)
SentMutant == IF status \notin {"Starting", "InProgress"} THEN {snapshotOut}
              ELSE {n \in 1..SnapshotCap : n = snapshotOut + 1}
Sent == IF status \in {"Starting", "InProgress"} /\ snapshotOut < SnapshotCap
        THEN {snapshotOut + 1} ELSE {snapshotOut}

(* The snapshot is built, the mutex released, the snapshot offered.        *)
EndTick ==
  /\ todo = {}
  /\ Goto("advance", "reap")
  /\ snapshotOut' \in Sent
  /\ UNCHANGED <<race, joinMsg, leaveMsg, inputCh, locals, outcome, env>>

(* The empty-race reap: one reading of len(players), then the decision.    *)
ReapMutant == Empty /\ started /\ lastEmpty = "old"
Reap == Empty /\ lastEmpty = "old"

CheckEmpty ==
  /\ \/ Reap  /\ CallFinish("reap", "empty") /\ UNCHANGED lastEmpty
     \/ ~Reap /\ Goto("reap", "check")
              /\ lastEmpty' = IF ~Empty THEN "zero"
                              ELSE IF lastEmpty = "zero" THEN "set" ELSE lastEmpty
  /\ UNCHANGED <<race, channels, todo, started, outcome, env>>

(* The finish condition, read under a lock that is released again before   *)
(* finishRace takes it.                                                    *)
CheckFinish ==
  /\ \/ started /\ allPlayersFinished /\ CallFinish("check", "all finished")
     \/ ~(started /\ allPlayersFinished) /\ Goto("check", "wait")
  /\ UNCHANGED <<race, channels, locals, outcome, env>>

(* The end of the iteration waits for the ticker or for the context.       *)
Wait ==
  /\ \/ Goto("wait", "top")
     \/ cancelled /\ CallFinish("wait", "cancelled")
  /\ UNCHANGED <<race, channels, locals, outcome, env>>

(* finishRace in its three parts: under the mutex, the callback without    *)
(* the mutex, closing Done.  Its early return for a race that is already   *)
(* finished is never taken: Run, the only caller, returns after one call.  *)
FinishRace ==
  /\ Goto("finish", "callback")
  /\ status' = "Finished"
  /\ evtResults' = FinalResults
  /\ UNCHANGED <<players, finishedOrder, channels, locals, done, reported, env>>

(* The callback starts by asking the race for its results a second time.   *)
OnFinish ==
  /\ Goto("callback", "close")
  /\ reported' = Append(reported, FinalResults)
  /\ UNCHANGED <<race, channels, locals, done, evtResults, env>>

CloseDone ==
  /\ Goto("close", "returned")
  /\ done' = TRUE
  /\ UNCHANGED <<race, channels, locals, evtResults, reported, env>>

-----------------------------------------------------------------------------
Run ==
  \/ Top \/ DrainJoin \/ JoinsDone \/ DrainLeave \/ LeavesDone
  \/ BeginTick \/ DrainInput \/ InputsDone \/ (\E p \in Players : AdvancePlayer(p))
  \/ EndTick \/ CheckEmpty \/ CheckFinish \/ Wait
  \/ FinishRace \/ OnFinish \/ CloseDone

Dispatcher ==
  \E p \in Players : AddPlayer(p) \/ \E s \in Seqs : ApplyInput(p, s)

Channels ==
  \/ \E p \in Joiners : EnqueueJoin(p)
  \/ \E p \in Leavers : EnqueueLeave(p)
  \/ TakeSnapshot

Time == CountdownElapses \/ ReapDelayElapses

Next == Run \/ Dispatcher \/ Channels \/ Cancel \/ Time

Spec == Init /\ [][Next]_vars

(* Fairness.  Run is a goroutine of its own and the callback returns (it   *)
(* makes at most two bounded attempts to persist).  Time passes.  Nothing  *)
(* is assumed of clients, broadcaster or dispatcher.  A drain ends when it *)
(* finds its channel empty: taking a message is faster than the arrival of *)
(* a datagram, so no drain is kept going for ever.                         *)
Fairness ==
  /\ WF_vars(Run)
  /\ SF_vars(JoinsDone) /\ SF_vars(LeavesDone) /\ SF_vars(InputsDone)
  /\ WF_vars(CountdownElapses) /\ WF_vars(ReapDelayElapses)

FairSpec == Spec /\ Fairness

-----------------------------------------------------------------------------
(* Safety.                                                                 *)

(* Two goroutines add players, the dispatcher directly and Run on behalf   *)
(* of JoinMsg; together they never seat more than MaxPlayers (AddPlayer    *)
(* tests and inserts in one critical section).                             *)
Capacity == Cardinality(DOMAIN players) <= MaxPlayers

(* The ranking: a player who never leaves is listed in finishedOrder       *)
(* exactly when its car has finished, once, at the index its FinishPos     *)
(* names, so positions are shared by nobody (advanceTickLocked).           *)
Ranking ==
  /\ \A i, j \in DOMAIN finishedOrder :
        finishedOrder[i] = finishedOrder[j] /\ finishedOrder[i] \notin Leavers => i = j
  /\ \A p \in DOMAIN players \ Leavers :
        players[p].finished <=> \E i \in DOMAIN finishedOrder :
                                   finishedOrder[i] = p /\ players[p].pos = i
  /\ \A i \in DOMAIN finishedOrder :
        finishedOrder[i] \notin Leavers => finishedOrder[i] \in DOMAIN players

(* Laps are earned: the lap counter of every car agrees with the number    *)
(* of waypoints it has passed one after the other, nobody finishes before  *)
(* having gone round MaxLaps times, and nobody has to go round more than   *)
(* once more (advanceTickLocked).  The loop more is no slack of the model: *)
(* as the first visit to the start line opens lap one and MaxLaps is       *)
(* compared only when a lap closes, a race of one lap takes two loops,     *)
(* where comment, test and specs have one (README, last part).             *)
LapAccounting ==
  \A p \in DOMAIN players :
    LET s == players[p] IN
    /\ s.passed = (s.lap * lenOr1) + ((s.next + lenOr1 - 1) % lenOr1)
    /\ s.finished => s.passed >= MaxLaps * lenOr1
    /\ s.passed >= (MaxLaps + 1) * lenOr1 => s.finished

(* A race that ended is frozen: whatever is still queued or still calls    *)
(* in, its players, inputs included, its ranking and its results keep      *)
(* their values, so the callback, which reads them without the mutex of    *)
(* finishRace, reads what the race ended with.                             *)
FrozenRace ==
  [][status = "Finished" => UNCHANGED <<status, players, finishedOrder, evtResults>>]_vars

(* A car that finished is parked: inputs that were queued before it crossed *)
(* the line, and every later tick, leave its state alone.                  *)
ParkedCar ==
  [][\A p \in DOMAIN players \cap DOMAIN players' :
        players[p].finished => players'[p] = players[p]]_vars

(* No jump start: a car passes a waypoint only once the countdown is over  *)
(* and before the race ends, however early inputs arrive (Run).            *)
NoJumpStart ==
  [][\A p \in DOMAIN players \cap DOMAIN players' :
        players'[p].passed # players[p].passed
          => countdownOver /\ status = "InProgress" /\ ~done]_vars

(* A race ends for one of three reasons: it is cancelled, it stood empty   *)
(* for the whole reap delay, or its cars had finished.  Then somebody is   *)
(* in its results, and whoever had not finished was added between the test *)
(* and finishRace, which lock the mutex separately, and never drove.  A    *)
(* race everybody left is reaped, it does not finish (allPlayersFinished). *)
EndsForAReason ==
  status = "Finished" =>
    \/ cause = "cancelled" /\ cancelled
    \/ cause = "empty" /\ lastEmpty = "old"
    \/ /\ cause = "all finished" /\ started /\ evtResults # {}
       /\ \A p \in DOMAIN players : Racing(p) => players[p] = NewPlayerState

(* What the race promises, with the loop left out: see RaceLifecycle.  The *)
(* callback computes the results again, after the mutex was released; they *)
(* are those of the event, it is called once, Done closes only after it.   *)
Lifecycle == INSTANCE RaceLifecycle WITH
  phase <- status, members <- DOMAIN players, order <- finishedOrder, closed <- done

ImplementsLifecycle == Lifecycle!Spec

(* What GameServer knows of the race: see RaceSeats.                       *)
Seats == INSTANCE RaceSeats WITH
  members <- DOMAIN players,
  phase <- IF done THEN "closed" ELSE IF status = "Finished" THEN "finished" ELSE "open"

ImplementsSeats == Seats!Spec

-----------------------------------------------------------------------------
(* Liveness, under FairSpec.                                               *)

(* A cancelled race ends: its callback runs and Done closes, whatever the  *)
(* channels hold and though nobody takes a snapshot.                       *)
ShutdownCompletes == cancelled ~> done

(* A race whose players have all finished ends, unless somebody unfinished *)
(* joins it again and again.                                               *)
FinishCompletes == <>[](~Empty /\ allPlayersFinished) => <>done

(* A race everybody left, or nobody ever joined, is reaped.                *)
EmptyRaceReaped == <>[](Empty) => <>done

-----------------------------------------------------------------------------
(* What the documents say and the code does not do.                        *)

(* docs/frontend-handoff.md: out-of-order inputs are discarded.            *)
InputsInOrder ==
  [][\A p \in DOMAIN players \cap DOMAIN players' :
        players'[p].seq >= players[p].seq]_vars
=============================================================================

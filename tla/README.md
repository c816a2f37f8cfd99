# The racing game backend in TLA+

This directory specifies the stateful part of the racing game backend: the race
loop of the game server and the server around it, its socket, the assignment of
players to matches, the writing of results and the readers of them, and the API
server with its accounts. Modules are translated from the Go source;
paths below are relative to the repository. Where a document and the code
disagree the modules say what the code does, and a run shows the disagreement.

## The system

Two programs share one Postgres. The **API** (`cmd/api`) answers HTTP requests,
each on a goroutine of its own; the **game server** (`cmd/game-server`) runs
races and talks UDP with the players.

    client --HTTP--> matchmaking.Service.Join --INSERT--> matchmaking_assignments
       |  <-- game token --                                     ^
       |                                                        | SELECT, UPDATE
       +--UDP--> UDPServer.Serve -> Dispatcher.handleJoin -> VerifyAndConsume
                                        |-> Manager.RegisterPlayer -> Race.AddPlayer
                                        |-> SessionRegistry.BindAddr, SetRace
                                    handleInput -> Race.InputCh
                 Race.Run  (one goroutine per race, 30 ticks a second)
                   |-> SnapshotOut -> Broadcaster.Run -> UDP, to the Subscriptions
                   |-> OnFinish -> results.Writer.PersistWithRetry -> Postgres
                 broadcasterPool.watch (every 500 ms): spawn, CleanupFinished
                 followSubscriptions (every 200 ms): sessions -> Subscriptions
    client --HTTP--> auth.Service: Register, Login, Guest  --> users, players
    client --HTTP--> leaderboard, race history  (read what the writer committed)

| component | state it keeps | operations | what makes it correct |
| --- | --- | --- | --- |
| race loop (`internal/race/race.go`, `manager.go`) | status, players, crossing order, four channels, `Done` | `Run`, `AddPlayer`, `EnqueueJoin`, `EnqueueLeave`, `ApplyInput` | no more players than seats; the ranking is the order of crossing; one result list, frozen once given; every race ends that should |
| race manager (`manager.go`) | `races`, `byMatch` | `RegisterPlayer`, `NewRace`, `ByMatch`, `List`, `CleanupFinished` | one race per match; a live race is found |
| dispatcher, session registry (`internal/networking/dispatcher.go`) | address to player, player to address and race | `handleJoin`, `handleInput`, `BindAddr`, `SetRace`, `RacePlayers` | a session names a race that seated the player |
| broadcaster pool (`cmd/game-server/main.go`, `broadcast.go`) | known races, one table of subscriptions per race | `watch`, `spawn`, `followSubscriptions`, `Broadcaster.Run` | a seated player gets the snapshots of its race, and nobody else does |
| matchmaking (`internal/matchmaking`) | `matchmaking_assignments`, connections in use | `Join`, `VerifyAndConsume` | a bound on overbooking; a token is used once; every join is answered |
| results writer (`internal/results/writer.go`) | the rows of a race, one transaction | `PersistRaceFinish`, `PersistWithRetry` | all or nothing; a retry does no harm; the callback returns |
| UDP server, framing (`server.go`, `internal/protoframing`) | the socket, a wait group | `Serve`, `Close`, `Decode`, `Encode` | nothing leaves after `Close`; the server stops under a flood; a client that drives has a seat |
| accounts (`internal/auth`) | `users`, `players` | `Register`, `Login`, `Guest` | a user has its player; one user per email; a token names an account that is there |
| API server (`cmd/api`, `internal/config`, `internal/database`) | the pool, requests in flight | `Load`, `New`, `Shutdown`, `Close` | requests are answered on their merits; it stops when told to |
| leaderboard, race history | none (queries) | `Top`, `ListByPlayer`, `GetRace` | lap times that never get worse; pages that miss and repeat nothing; a race is shown whole |
| catalogue, garage | none | one SELECT each | |

What is hard about it: the dispatcher adds players to a race while `Run` is
between two of its own critical sections; the finish callback talks to a
database that may fail, from the goroutine that still has to close `Done`; two
tickers copy state between registries while players join, move and rejoin;
handlers of the API decide on counts that other handlers are changing; and any
statement may be lost, carried out without an answer, or cut short by a
shutdown. The list of hazards in `PROJECT.json` names the lines.

## Modules

| module | models | checked by |
| --- | --- | --- |
| `RaceLifecycle` | abstract: what one race promises to those who wait for its results | refined by `RaceLoop` |
| `RaceSeats` | abstract: a race as the rest of the game server sees it | refined by `RaceLoop` and by every race of `GameServer` |
| `GameTokens` | abstract: what game tokens promise | refined by `Matchmaking` and `GameServer` |
| `RaceLoop` | `Race.Run` and everybody who touches a race | `MCRaceLoop`, three runs |
| `RaceLoopProofs` | theorems about `RaceLoop` | tlapm |
| `GameServer` | dispatcher, manager, sessions, broadcaster pool | `MCGameServer`, two runs |
| `UdpServer` | the socket: read loop, `Close`, frames, broadcaster, test client | `MCUdpServer`, two runs |
| `Matchmaking` | `/matchmaking/join`, the table, the tokens, the pool | `MCMatchmaking`, three runs |
| `ResultsWriter` | the `OnFinish` callback and the writer | as part of `RaceHistory` |
| `RaceHistory` | `ResultsWriter` together with the readers of its rows: race history, leaderboard | `MCRaceHistory`, one run |
| `AccountStore` | abstract: what the accounts promise to a client | refined by `Accounts` |
| `Accounts` | `cmd/api` from start to exit, registration, login, guests, the profile | `MCAccounts`, one run |
| `GameServerProofs` | theorems about `GameServer` | tlapm |
| `MatchmakingProofs` | theorems about `Matchmaking` | tlapm |
| `ResultsWriterProofs` | theorems about `ResultsWriter` | tlapm |
| `RaceHistoryProofs` | theorems about `RaceHistory`, on top of those about `ResultsWriter` | tlapm |
| `UdpServerProofs` | theorems about `UdpServer` | tlapm |
| `AccountsProofs` | theorems about `Accounts` | tlapm |

Each `MC` module only extends its specification and names the sets the `.cfg`
files assign. Operators whose name ends in `Mutant` are plausible bugs; no
specification uses them. `PROJECT.json` says which definition each would
replace and which property then fails.

The modules meet at these places. `RaceHistory` extends `ResultsWriter`: its
next-state relation is that of the writers and of the readers over one database.
`UdpServer` is the goroutine of the socket whose handling of one join `GameServer`
spells out; there a join is one step, a seat or none. `RaceLoop` assumes that the
callback returns; `ResultsWriter!CallbackReturns` is that promise.

`GameServer` leaves out the inside of a race and the statements behind a token.
What it has in their place is tied to the modules that have the detail by two
contracts, each implemented from both sides. A race is `RaceSeats`: a phase (open,
finished, closed) and the players who have a seat. `RaceLoop` implements it
(`ImplementsSeats`), with every `AddPlayer`, drain of a channel and end of `Run`, and
each element of `GameServer`'s `race` takes only steps of it (`Seats(i)`, one instance
per race). So whatever `Run` does is covered by `RaceEnds` and `RaceCloses`, and
`GameServer` seats nobody `RaceLoop` would not. A token is `GameTokens`: held, fresh,
admitted. In `Matchmaking` a token is fresh while a row of it is not consumed
(`ImplementsTokens`), and the two statements of `VerifyAndConsume` amount to one step
`Admit`; in `GameServer` that step is `Verify`. `GameServer` has every ticket issued at
the start and none expire, which the contract allows.

### RaceLoop

`pc` follows `Run`: `top` (the select that looks at the context), `joins`,
`leaves`, `lock`, then a tick under the mutex, `inputs` and `advance`, then
`reap`, `check`, `wait`; a race that ends goes through `finish`, `callback`,
`close` to `returned`. Every critical section of `Race.mu` and every channel
operation is one step, so the dispatcher's `AddPlayer` may come between any two
of them except during a tick. `players` is the map of the code: for each id the
lap, the next checkpoint, the last input's number, whether the car has passed the
first waypoint, finished, and where. `finishedOrder` outlives a player who
leaves, as in the code.

Abstracted: the position of a car. Whether it is inside the radius of its next
waypoint is free in every tick, which covers all inputs and tracks (and physics
is left out). The countdown and the reap delay are flags that time raises.
Events other than `RaceFinishedEvt` are discarded by the code at the end of each
tick and left out, and so is the tick number. Two branches of the code can not be
reached, the `Done` case of the first select and the early return of
`finishRace`, and have no action.

### GameServer

`call` is the `JoinRaceRequest` the socket's goroutine works on: verify, look the
match up, create a race, add the player, bind the address, set the race. The
other goroutines are `watch` (list, spawn each, clean up under `Manager.mu`) and
one `Follow` per race. `race` holds every race ever made, since sessions and
goroutines keep pointers to races the manager has forgotten; 0 is the nil
pointer. The shortcomings of the code are in the actions: `BindAddr` leaves a
bound address alone and its result is not used, `Subscriptions.Add` keeps the
first address, `CleanupFinished` leaves `byMatch` alone, and `AddPlayer` on nil
ends the process (`up`). A player who comes back from a second address keeps
getting its snapshots at the first: `SnapshotsStayInRace` only says that they go
to nobody else.

### Matchmaking

One step is one SQL statement, or the code between two. `busy` counts connections
kept by open result sets: the first query of `findOrCreateMatch` keeps its own
until the function returns. Each handler has its own clock readings (`at` for the
queries, another one for the token). A token is the tuple it is computed from,
with the expiry in whole seconds, so two tokens for one player, match and second
are equal, as they are in the code. Statements fail before or after they were
carried out, and clients give up at any step that touches the database. A first
query that fails while its rows are read is not told from one that finds nothing,
as the code never asks `rows.Err()`: `PickNone` may mint a match though one is
pending.

### ResultsWriter

Each finished race has one goroutine with at most two attempts, each a
transaction over the races row and two upserts per player. A statement fails, a
commit is carried out without its acknowledgement, the context ends, the process
stops (Postgres rolls back). `main` does not wait for writers.

### RaceHistory

`visit` is a client that reads its history page by page and passes the cursor
back, `detail` a request for one race between its two statements, `board` the
leaderboard served last. Statements see what is committed when they run. The
instance has a race that finished between two old ones and is committed last, and
one that has no results: the cases in which a page taken by time, over rows that
arrive in another order, could miss or repeat a race. `PagesPartition` leaves out
one thing the code does not give: of several races of one player that finished in
the same instant, a page break loses some, as the cursor is the instant alone
(`Alone`).

### UdpServer

`serve` is the read loop, `closer` a goroutine in `Close`, `bcast` the broadcaster
of one race. The network is a set of datagrams: sending adds, losing removes, and
receiving may leave a copy, which gives loss, duplication and reordering. A frame
is the length it declares and the bytes that follow; a datagram longer than the
buffer of 2048 bytes is cut off and its frame is short, so a join that large is
never answered. Whether a payload is a join, an input or nothing is decided as in
`Handle`, by the fields that are not zero. `client` is `cmd/udp-client`, which
takes the first datagram it reads for the reply to its join.

### Accounts

`proc` is `main`: loading, connecting, serving, draining, closing, exited. Every
client has a request in flight on a goroutine of its own, at one of its SQL
statements; a transaction holds a connection of the pool from `BEGIN` to its end,
and an insert of an email waits for an open transaction that inserted the same
one. A hash stands for the first 72 bytes of a password (`Significant`), which is
all bcrypt compares: `VerifyPassword` accepts every password that begins with
them, while `HashPassword` refuses longer ones. Statements fail before or after
they were carried out. The environment is
the set of facts `Load` asks about. `drained` says whether `Shutdown` saw every
request through, and `failed` whether a statement of a request failed: both are
history, for `AnsweredOnMerits`.

`AccountStore` is the contract of the same: an account is a user joined with its
player, created in one step and never changed, and a token is that of the account
whose email was sent, with a password of the same hash, or of a guest made for
the same client.
`ImplementsStore` maps the join of the two tables to its accounts and the fields of
a request to what the client has sent.

## Runs

| run | bounds | shows |
| --- | --- | --- |
| `race_safety` | 3 players, 2 seats, 3 waypoints, 2 laps, channels of 1, 2 leaves | `Capacity`, `Ranking`, `LapAccounting`, `EndsForAReason`, `FrozenRace`, `ParkedCar`, `NoJumpStart`, `ImplementsLifecycle` |
| `race_liveness` | 2 players (one through the channels), 1 waypoint, 1 leave | `ShutdownCompletes`, `FinishCompletes`, `EmptyRaceReaped` |
| `race_input_order` | as deployed, two sequence numbers | **violated**: an older input replaces a newer one |
| `game_server` | 2 players, 2 matches, 3 addresses, 4 tickets | `OneRacePerMatch`, `SeatedSessions`, `SnapshotsStayInRace`, `LiveRacesFound`, `KeepsContracts`, `Subscribed` |
| `late_join` | the same | **violated**: a token used after its race was cleaned up ends the process |
| `udp_server` | 2 clients, one join of exactly the buffer and one of a byte more, 2 datagrams on the way to the server, 1 snapshot waiting | `JoinedIsSeated`, `NothingAfterClose`, `ServerStops` |
| `inputs_queued` | 1 client | **violated**: an input that lets go of everything is dropped as unknown |
| `matchmaking` | 1 player, 2 handlers, 1 verifier, matches of 2, 3 connections, 2 seconds, 4 joins | `OverbookingBounded`, `SingleUse`, `ImplementsTokens`, `JoinAnswered` |
| `match_cap` | 3 players, 1 handler | **violated**: a match of 2 is assigned to 3 players, one after the other |
| `join_pool` | 2 handlers, 2 connections | **violated**: two joins wait for each other's connection |
| `results_and_readers` | 4 races: two old ones, one to write, one without results; 2 players, 2 failures, pages of 1 and 2, the best two laps | `AllOrNothing`, `OneFailureMadeUpFor`, `StoredStays`, `CallbackReturns`, `PagesPartition`, `DetailIsWhole`, `BoardNeverWorse` |
| `accounts` | 2 clients, 2 requests each, one email in two spellings and one that does not parse, a password of 72 bytes, one of a byte more that begins with it and another one, 2 connections, 2 failures | `AccountsWhole`, `AnsweredOnMerits`, `ImplementsStore`, `ShutdownEnds` |

Every run that passes, except `race_liveness` and `game_server`, also checks the
type invariant of its module (`HistoryTypeOK` contains that of `ResultsWriter`); that
of `GameServer` is proved (`TypeCorrect`). The findings in
`PROJECT.json` quote what each violated property was taken from.

Why these bounds are enough:

- `race_safety`: three players are the fewest with which two goroutines compete
  for the last of two seats; three waypoints distinguish the start line, a middle
  checkpoint and the last; channels of capacity one are full after one message,
  so drops happen; two leaves let a player finish, leave and come back. Two laps
  take as many loops as the one lap of the deployed server, and
  tell a lap that counts from the last one.
- `game_server`: four tickets let one player join, come back from another
  address and move on to another match while the second fills the race; the
  second may send from the first one's address, already bound; races may end
  after any step.
- `matchmaking`: two handlers are the fewest that overbook, four joins fill a
  match of two and start a second; with a lifetime of one second tokens expire
  within the two seconds of the clock. A player joins again and again, which
  gives more equal tokens than several players would.
- `results_and_readers`: two failures are one per attempt, all that can happen;
  a page of one race makes a break between any two, a limit of three is clamped
  to two; two entries let the writer stop between them.
- `udp_server`: two clients are the fewest of which one has a seat and the other
  has not while snapshots are sent; the two join sizes are the last that fits and
  the first that does not.
- `accounts`: two clients are the fewest that register one email together, and two
  connections the fewest with which one of them waits for the other's insert, its
  own connection in hand; 73 bytes are the first that bcrypt refuses to hash, and
  the first of which it reads only a part when it compares.

The clock's `Horizon`, `JoinBound`, `LeaveBound`, `FaultBound`, `AskBound`,
`WayBound` and the finite set `Tickets` are bounds of the models and not of the
code. Only the three runs of `MCRaceLoop` check for deadlock: in the other models
clients owe nothing more once the bounds are used up, a race returns, a process
stops.

## Fairness

- `RaceLoop`: weak fairness of `Run`, whose ticker never stops; strong fairness of
  the ends of the three drain loops, since taking a message from a channel is
  faster than the arrival of the next datagram, so no loop is kept going for
  ever; weak fairness of time. Nothing is assumed of players, of the broadcaster
  or of cancellation. The callback is assumed to return.
- `GameServer`: weak fairness of the dispatcher's steps, of `watch` and of each
  follower, which are goroutines driven by a socket and by tickers. Nothing of
  clients or races.
- `Matchmaking`: strong fairness of each handler, since pgxpool hands out
  connections in the order of the requests. Clients and failures owe nothing.
- `ResultsWriter`, `RaceHistory`: weak fairness of each writer: a statement
  returns, with a result or an error. Nothing of readers.
- `UdpServer`: weak fairness of the read loop, whose read returns after 500 ms at
  the latest, and of `main` after it. Nothing of clients, network, broadcaster;
  datagrams may arrive at every read.
- `Accounts`: weak fairness of each handler, of the end of `Shutdown`, which has a
  deadline of ten seconds, and of the exit. Nobody needs to stop the server.

## What is proved

tlapm checks these for every value of the constants, from the named assumption
of each module alone: `RaceAssumption`, `GameServerAssumption`,
`MatchmakingAssumption`, `ResultsAssumption`, `HistoryAssumption`,
`UdpAssumption` and `AccountsAssumption` say that players, races or handlers are
finitely many, capacities and sizes are naturals, results are positions, an old
race is one the writer would have written, an input is the spelling of one
address at most, and what bcrypt reads of a password is a password. Every safety
invariant and every action property that a passing run checks is the statement of
a theorem.

| theorem | says |
| --- | --- |
| `RaceLoopProofs!TypeCorrect` | `Spec => []TypeOK`, the capacities of the channels included |
| `RaceLoopProofs!CapacityHolds` | two goroutines that add players never seat more than `MaxPlayers` |
| `RaceLoopProofs!FrozenRaceHolds` | after the status is Finished no step changes players, crossing order or results |
| `RaceLoopProofs!LifecycleImplemented` | `RaceLoop` implements `RaceLifecycle` |
| `RaceLoopProofs!SeatsImplemented` | `RaceLoop` implements `RaceSeats` (proved only) |
| `RaceLoopProofs!ParkedCarHolds` | a car that finished keeps its state through queued inputs and later ticks |
| `RaceLoopProofs!NoJumpStartHolds` | cars pass waypoints only while the race is in progress |
| `RaceLoopProofs!LapAccountingHolds` | laps are earned, and a car finishes after `MaxLaps` loops or one later, for any number of waypoints and laps |
| `RaceLoopProofs!RankingHolds` | positions are those of the crossing order and nobody shares one |
| `RaceLoopProofs!EndsForAReasonHolds` | a race ends cancelled, empty, or with somebody in its results and nobody unfinished but players added after the test, who never drove |
| `GameServerProofs!TypeCorrect` | `Spec => []TypeOK`: every race id kept anywhere is that of a race |
| `GameServerProofs!OneRacePerMatchHolds` | one race per match |
| `GameServerProofs!LiveRacesFoundHolds` | a race that can be joined is found through its match |
| `GameServerProofs!SeatedSessionsHolds` | a session names a race that seated its player |
| `GameServerProofs!SnapshotsStayInRaceHolds` | subscriptions of a race are addresses of its players |
| `GameServerProofs!ContractsKept` | the server works on `GameTokens`, and each of its races is a `RaceSeats` |
| `MatchmakingProofs!TypeCorrect` | `Spec => []TypeOK`: the pool lends what it has and gets back what it lent |
| `MatchmakingProofs!TokenBackedHolds` | a token in a client's hands has its row (proved only: the run checks the refinement, which says more) |
| `MatchmakingProofs!TokensImplemented` | with one verifier, `Matchmaking` implements `GameTokens` |
| `MatchmakingProofs!SingleUseHolds` | with one verifier, a token is accepted no more often than it was assigned |
| `MatchmakingProofs!OverbookingBoundedHolds` | a match is overbooked by fewer places than there are handlers |
| `ResultsWriterProofs!TypeCorrect` | `Spec => []TypeOK` |
| `ResultsWriterProofs!AllOrNothingHolds` | a race is committed whole or not at all |
| `ResultsWriterProofs!LoggedOkIsStoredHolds` | what is logged as persisted is stored (proved only, no run repeats it) |
| `ResultsWriterProofs!StoredStaysHolds` | nothing changes a committed race |
| `ResultsWriterProofs!OneFailureMadeUpForHolds` | one failure, a lost acknowledgement included, keeps no race out of the database |
| `RaceHistoryProofs!SysTypeCorrect` | `SysSpec => []HistoryTypeOK` |
| `RaceHistoryProofs!SysAllOrNothing`, `SysOneFailureMadeUpFor`, `SysStoredStays` | the same of writers and readers together, from a database with old races |
| `RaceHistoryProofs!DetailIsWholeHolds` | a race read by two statements is shown whole |
| `RaceHistoryProofs!PagesPartitionHolds` | pages miss and repeat nothing, whatever is committed between them |
| `RaceHistoryProofs!BoardNeverWorseHolds` | the k-th best lap never gets worse and never goes missing |
| `UdpServerProofs!TypeCorrect` | `Spec => []TypeOK` |
| `UdpServerProofs!JoinedIsSeatedHolds` | a client drives only if it has a seat, whatever the network does |
| `UdpServerProofs!NothingAfterCloseHolds` | nothing leaves the socket after `Close` has returned |
| `AccountsProofs!TypeCorrect` | `Spec => []TypeOK` |
| `AccountsProofs!AccountsWholeHolds` | a user has one player, a player its user, an email one account |
| `AccountsProofs!TokensAreAccountsHolds` | what was answered with 200 is in the database under the email and the hash of the password that were sent (proved only: the runs check the refinement, which says more of tokens) |
| `AccountsProofs!StoreImplemented` | `Accounts` implements `AccountStore` |
| `AccountsProofs!AnsweredOnMeritsHolds` | a request of the right client whose statements all succeed is not refused, while the server stops included |

The argument for `RaceLoop`. `TypeOK` is inductive. `Capacity` is inductive given
`TypeOK`: the only step that enlarges `players` tests the size in the same
critical section. For `FrozenRace` and the refinement the status alone is not
enough, since a tick changes players without looking at it again; what is needed
is a control invariant (`ControlHolds`): the status is Finished exactly when `pc`
is past the `finish` step, the results and the report exist from then on, and
`Done` is closed only at the end. With it every action either happens before the
end or leaves the frozen part alone, and each step maps to a step of
`RaceLifecycle` or to a stutter: `AddPlayer` and `DrainJoin` take a free seat,
`DrainLeave` gives one up, and `FinishRace` ends the race with exactly those of the
crossing order who still have a seat. `SeatsImplemented` then needs no look at the code again: every step
of `RaceLifecycle` is one of `RaceSeats` with the countdown, the order and the results
forgotten, and `Done` closes only after the end. `PlayersStepCases` lists how a step may change
`players`, and `PlayerStep` what that means for one player who stays: its last
input's number, a waypoint, or nothing. `ParkedCar` and `NoJumpStart` follow from
that and `ControlInv`. `LapAccounting` needs `LapInv`, an equation between the
waypoints passed, the lap and the pointer with remainders by the length of the
track; `CrossingCounted` is one step round it, and `Loops` turns laps into loops.
`Ranking` looks at players who never leave
and is not inductive, as a player who leaves keeps its place in the crossing
order: `RankInv` says that a finished car stands where its `FinishPos` says,
and that an entry is that of a finished car unless its player may have left. For `EndsForAReason`,
`Reason` says that the finisher seen by the test is still among the players when
`finishRace` takes the mutex, since only `Run` removes players, and that who has
not finished by then is new (`FinishedOrNew`).

The argument for `GameServer`. What is added to each property is what the call in
progress knows. `OneRacePerMatch` needs `Indexed`: every race is the one `byMatch`
has for its match, and while a call is about to create a race there is none,
because the goroutine of the socket is the only one that writes `byMatch`.
`LiveRacesFound` adds that open races are in `active`. `SeatedSessions` needs
`Seated`: between `AddPlayer` and `SetRace` the player has its seat already, and
seats are never given up. For `SnapshotsStayInRace`, the address of a session is
bound to its player for ever (`Bound`), so what a follower copies late is still
right. It is `BindAddr`'s refusal of a bound address that gives this. For
`ContractsKept`, each step concerns one ticket or one race (`OneRaceSteps`): `Verify`
admits, `NewRace` makes a race with free seats, `AddPlayer` finds the race open and
not full in the step in which it takes the seat.

The argument for `Matchmaking`. `TypeOK` is not inductive alone: that `busy` does
not fall below zero needs `BusyInv` (`busy` is the number of handlers about to
count) and that match ids are known needs `KnownInv` (matches are minted before a
row or a handler names them; a handler's clock reading is not ahead of the
clock). `OverbookingBounded` is then inductive. A handler that counts finds, at an
earlier time, fewer than `MaxPlayersPerMatch` rows; fewer still are active now
(`RoomForAll`), and no more handlers than there are can be deciding. A minted
match has no rows. Every other step only moves a place from the deciding handlers
to the table, or frees one. `SingleUse` rests on `SpentInv`: a token is accepted at
most as often as it has consumed rows, and while the verifier is between its two
statements one of the token's rows is not consumed. With two verifiers the second
half fails, and TLC finds `SingleUse` violated; the hypothesis of the theorem is
that there are no two. `TokensImplemented` needs the same: by `SpentInv` a token that
was checked is still fresh when it is consumed, so the UPDATE that flips all its
rows is an `Admit`, and by `HeldInv` it is in a client's hands. An INSERT is an `Issue`,
also when the acknowledgement is lost and nobody gets the token or when the token
is there already; a failed UPDATE that was carried out is a `Lose`.

The argument for `ResultsWriter`. `ProgressInv` says what an open transaction holds
at each statement: nothing or the whole race before the loop, the entries already
visited during it, the whole race before the commit. Types and progress are proved
together, since an entry is a result of its race only because the loop visits no
other. The committed rows are then nothing or the whole race, and a commit puts
the whole race there.

The argument for `UdpServer`. `JoinedIsSeated` looks at a client alone and is not
inductive: `SeatInv` follows an answer ok, and a snapshot, from the decision to
send it (`serve`, the subscriptions, the list of a publish) over the network to the
client, and says that its addressee is seated all the way; seats are never given
up (`SeatsStay`), so age and order of the datagrams do not matter. For
`NothingAfterClose`, `CloseInv` says that `Close` has closed the socket before it
waits and that it waits for the read loop, which could otherwise still answer.

For `OneFailureMadeUpFor`, `FailuresInv` counts: a race that waits for its retry, or
is in it, has met one failure, and one that gave up two, unless it was cancelled.

The argument for `RaceHistory`. A reader's step leaves the variables of
`ResultsWriter` alone (`WritersStep`), so its invariants carry over, and they hold
of a database with old races too (`WritersInit`). `DetailIsWhole` follows from
`DetailInv`: a race whose row was read is stored, and stays as it is until its
results are read. `PagesPartition` needs `PagesInv`: the pages are in order of time
(`InOrder`), the cursor is not later than anything listed (`CursorBehind`), and what
was there at the first page is listed or before the cursor (`Begun`); a race
committed later falls on some page or behind the cursor, and disturbs neither.
`BoardNeverWorse` compares answers from different times. `BoardInv` says that each
entry served is a different player who has by now a lap at least as good, so k
players have one as good as the k-th entry; among the first k of the new answer,
or before them, one of these must be (`OneLeftOut`, a pigeonhole).

The argument for `Accounts`. Every request's step is one of four outcomes (`Going`,
`Committing`, `Issuing`, `Answering`), which `HandleOutcome` shows once and the
parts of the invariant are then proved over. `Rows` makes `AccountsWhole`
inductive: players are exactly the users' own (`Paired`), and an id or email that an
open transaction has inserted is no other's, neither in a row nor in another
transaction (`IdsAhead`, `EmailsAhead`; this is where the wait of the unique index
is used). `Progress` says what a request has found or written at each statement, and gives
`TokensAreAccounts`. `AnsweredOnMerits` needs that what a client is entitled to
when it asks is still there when its statement runs (`Merits`: rows are only added),
that a server that answers can sign
(`Server`, from the checks of `Load`), and that a pool closed in good order finds no
request half done. In the refinement (`StoreImplemented`) a commit is the
creation of an account, also one whose acknowledgement is lost; that the account is
new to the store is `IdsAhead` and `EmailsAhead`, that the token handed out is its
own is `Progress` with `Paired`, and every other statement is a stutter.

`HistoryTypeOK`, `DetailInv`, `PagesInv`, `BoardInv` and the invariant of `Accounts`
were checked by TLC on the instances of the runs before they were proved.

Only model-checked: all liveness properties, `ShutdownCompletes`, `FinishCompletes`,
`EmptyRaceReaped`, `Subscribed`, `JoinAnswered`, `CallbackReturns`, `ServerStops` and
`ShutdownEnds`, which are out of the prover's reach.

## Where documents and code part

Shown by a run, and quoted in `PROJECT.json`: inputs out of order
(`race_input_order`), inputs that let go of everything (`inputs_queued`), a token
used after its race (`late_join`), the cap of a match (`match_cap`), and the
second connection of a join (`join_pool`). Met while modelling, in the models as
the code has them, and not the subject of a run:

- `allPlayersFinished` and `finishRace` are two critical sections. A player whom
  the dispatcher adds in between is answered ok=true by a race that finishes at
  once, although `specs/20_race_loop_DONE.md:99` has it finish when all players
  have (`RaceLoop!CheckFinish`).
- The same line lets a race end when `FinishTime` elapses; the code has no such
  limit, so a player out of reach of the next waypoint keeps a race open.
- `handleJoin` ignores the result of `BindAddr`. A second player on a bound
  address is told ok=true and has no session (`GameServer!BindAddr`, `SetRace`).
- `followSubscriptions` says that it drops a player who leaves; it never does.
- A full last page of a history has a cursor that leads to an empty page, where
  `docs/openapi.yaml` has null; the comment of `ListByPlayer` says `<=` the cursor
  where the query has `<`.
- `GET /races/{id}` answers 500 for a race that is not there: the handler compares
  with `ErrNotFound`, and `GetRace` returns `pgx.ErrNoRows` (`RaceHistory!AskRace`).
- `achieved_at` on the leaderboard is the time of the player's first result on the
  track and not that of the best lap.
- A race of one lap, the one deployed (`cmd/game-server/main.go:58`), takes two
  loops. A car starts heading for waypoint 1; its first visit to the start line, a
  whole loop later, only opens lap one, and `MaxLaps` is compared when a lap closes,
  at the next visit. The comment at `manager.go:372-374` has a lap closed at the line
  after one other checkpoint, `race_test.go:57-58` says that the player needs four
  waypoints, and `specs/20_race_loop_DONE.md:169` and
  `specs/21_post_race_results_and_leaderboard_DONE.md:162` have players complete one lap.
  A race of more laps takes as many loops as laps. `LapAccounting` therefore gives a car
  `MaxLaps` loops or one more (`RaceLoop!Completes`).
- `docs/openapi.yaml:275-276` says that the `limit` of a history is unclamped;
  `ListByPlayer` clamps it to 100, as its own comment says
  (`internal/racehistory/repo.go:61-68`, `RaceHistory!Clamped`).
- bcrypt compares no more than 72 bytes, and `Login` checks no length: a longer
  password is accepted if it begins with the stored one, while
  `validatePassword` and the comment of `HashPassword` speak of up to 128 bytes
  (`Accounts!Significant`).
- `findOrCreateMatch` does not ask `rows.Err()`: a query that fails while it runs
  creates a match, where `docs/openapi.yaml:247-249` has one created only if every
  existing match is full (`Matchmaking!PickNone`).
- Passwords of 73 to 128 bytes pass `validatePassword` and are refused by bcrypt,
  which is answered with 500 (`Accounts!Hashable`).
- A login while Postgres does not answer is a 401, as for a wrong password
  (`Accounts!AfterError`), and a profile is then a 404.
- `GAME_TOKEN_SECRET` is said to be required outside development; its default
  makes the check of `Load` dead code.
- The API never tries Postgres again when it was not there at the start.
- `udp-client -mode ping` waits for a PONG no server sends (`UdpServer!Frame`), and
  its player mode waits for the reply to its join without a deadline.

## Not modelled

Physics and positions: floating-point arithmetic whose only effect on the rest is
whether a car is near its waypoint, which `RaceLoop` leaves free. The catalogue
and the garage: one SELECT each over rows nothing writes. Signatures, the expiry
of a JWT, base64: library code. The generated messages, deployment. Two callers of
`UDPServer.Close` at once: `main` calls it once. `PROJECT.json` gives the reason
for each component. A restart of the game server loses every race in memory;
nothing survives that a model could relate, except the rows `ResultsWriter`
accounts for.

## Plan

Every component with state of its own has a module, every safety property a
proof, and the modules that leave out what another one has are tied to it by an
abstract specification that both implement. What could be added:

1. The same for `UdpServer`, whose join is one step: a contract of the seat a join
   gives, implemented by `GameServer`.
2. Expiry in `GameServer`: its tickets do not expire, which allows it more joins
   than the code does.

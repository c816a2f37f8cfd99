----------------------------- MODULE GameServer -----------------------------
(***************************************************************************)
(* The game server around its races: the dispatcher that turns a           *)
(* JoinRaceRequest into a seat (internal/networking/dispatcher.go), the    *)
(* race manager (internal/race/manager.go), the session registry, and the  *)
(* broadcaster pool with its watch and follow goroutines                   *)
(* (cmd/game-server/main.go, internal/networking/broadcast.go).            *)
(*                                                                         *)
(* One step is one critical section.  CleanupFinished keeps Manager.mu     *)
(* while it asks one race after the other; a race that nobody made, 0, is  *)
(* the nil pointer.                                                        *)
(*                                                                         *)
(* Abstracted: a race is what the rest of the server sees of RaceLoop, its *)
(* players and whether it is over; it may end at any time.  A token is a   *)
(* ticket for a match that is used up in one step: one goroutine reads the *)
(* socket, and Matchmaking models the statements.  The contracts below say *)
(* that these are the races and the tokens those modules provide.          *)
(* Inputs and snapshots carry no state: the properties are about where     *)
(* they would go.                                                          *)
(***************************************************************************)
EXTENDS Naturals, Sequences, FiniteSets

CONSTANTS
  Players,
  Matches,
  Addrs,       \* UDP addresses
  Tickets,     \* the tokens clients hold: [match, player, issue]
  Origin,      \* the addresses from which a client may present a ticket
  MaxPlayers   \* Race.MaxPlayers

ASSUME GameServerAssumption ==
  /\ IsFiniteSet(Players)
  /\ Tickets \subseteq [match : Matches, player : Players, issue : Nat]
  /\ Origin \in [Tickets -> SUBSET Addrs]
  /\ MaxPlayers \in Nat \ {0}

VARIABLES
  up,       \* the process is running
  fresh,    \* tickets not yet consumed
  race,     \* every race ever made; a race id is an index
  active,   \* Manager.races
  byMatch,  \* Manager.byMatch, a map from match to race id
  call,     \* the JoinRaceRequest the dispatcher is working on
  addr,     \* SessionRegistry.addr, a map from address to player
  session,  \* SessionRegistry.player, a map from player to address and race
  known,    \* broadcasterPool.known
  subs,     \* Subscriptions of each race, a map from player to address
  watch     \* the watch goroutine: what it does, which races are left

manager     == <<active, byMatch>>
sessions    == <<addr, session>>
broadcaster == <<known, subs, watch>>
vars == <<up, fresh, race, manager, call, sessions, broadcaster>>

RaceIds == DOMAIN race
Nil     == 0
Race    == [match : Matches, phase : {"open", "finished", "closed"}, members : SUBSET Players]
Maps(S, T) == UNION {[D -> T] : D \in SUBSET S}
NoEntry == [x \in {} |-> x]
NoCall  == [pc |-> "idle"]

TypeOK ==
  /\ up \in BOOLEAN
  /\ fresh \subseteq Tickets
  /\ race \in Seq(Race)
  /\ active \subseteq RaceIds
  /\ byMatch \in Maps(Matches, RaceIds)
  /\ call \in {NoCall} \cup [pc : {"lookup", "create", "add", "bind", "set"},
                             ticket : Tickets, from : Addrs, race : RaceIds \cup {Nil}]
  /\ addr \in Maps(Addrs, Players)
  /\ session \in Maps(Players, [key : Addrs, race : RaceIds \cup {Nil}])
  /\ known \subseteq RaceIds
  /\ subs \in Seq(Maps(Players, Addrs)) /\ Len(subs) = Len(race)
  /\ watch \in [pc : {"idle", "spawn", "clean"}, todo : SUBSET RaceIds]

Init ==
  /\ up = TRUE /\ fresh = Tickets /\ race = <<>>
  /\ active = {} /\ byMatch = NoEntry
  /\ call = NoCall
  /\ addr = NoEntry /\ session = NoEntry
  /\ known = {} /\ subs = <<>> /\ watch = [pc |-> "idle", todo |-> {}]

With(map, key, value) ==
  [k \in DOMAIN map \cup {key} |-> IF k = key THEN value ELSE map[k]]

-----------------------------------------------------------------------------
(* Dispatcher.handleJoin and Manager.RegisterPlayer, on the goroutine that *)
(* reads the socket.                                                       *)

ManagerLocked == watch.pc = "clean"

Proceed(from, to) == up /\ call.pc = from /\ call' = [call EXCEPT !.pc = to]
Answer(from)      == up /\ call.pc = from /\ call' = NoCall

(* A datagram arrives and its token is consumed, whatever comes of it.     *)
Verify(t, a) ==
  /\ up /\ call = NoCall
  /\ t \in fresh /\ a \in Origin[t]
  /\ fresh' = fresh \ {t}
  /\ call' = [pc |-> "lookup", ticket |-> t, from |-> a, race |-> Nil]
  /\ UNCHANGED <<up, race, manager, sessions, broadcaster>>

(* ByMatch: a match whose race was cleaned up is found, with a nil race.   *)
ByMatch(m) == IF byMatch[m] \in active THEN byMatch[m] ELSE Nil

LookupFound ==
  /\ ~ManagerLocked
  /\ up /\ call.pc = "lookup" /\ call.ticket.match \in DOMAIN byMatch
  /\ call' = [call EXCEPT !.pc = "add", !.race = ByMatch(call.ticket.match)]
  /\ UNCHANGED <<up, fresh, race, manager, sessions, broadcaster>>

LookupMissing ==
  /\ ~ManagerLocked
  /\ Proceed("lookup", "create") /\ call.ticket.match \notin DOMAIN byMatch
  /\ UNCHANGED <<up, fresh, race, manager, sessions, broadcaster>>

(* NewRace.                                                                *)
NewId == Len(race) + 1

RecordedMutant(m, i) == byMatch
Recorded(m, i) == With(byMatch, m, i)

NewRace ==
  /\ ~ManagerLocked
  /\ up /\ call.pc = "create"
  /\ race' = Append(race, [match |-> call.ticket.match, phase |-> "open", members |-> {}])
  /\ active' = active \cup {NewId}
  /\ byMatch' = Recorded(call.ticket.match, NewId)
  /\ subs' = Append(subs, NoEntry)
  /\ call' = [call EXCEPT !.pc = "add", !.race = NewId]
  /\ UNCHANGED <<up, fresh, sessions, known, watch>>

(* AddPlayer.  A full race refuses its own players too: the capacity is    *)
(* tested before the membership.                                           *)
LateMutant(i) == race[i].phase = "closed" \/ Cardinality(race[i].members) >= MaxPlayers
Refused(i) == race[i].phase # "open" \/ Cardinality(race[i].members) >= MaxPlayers

AddPlayer ==
  /\ call.pc = "add" /\ call.race # Nil /\ ~Refused(call.race)
  /\ Proceed("add", "bind")
  /\ race' = [race EXCEPT ![call.race].members = @ \cup {call.ticket.player}]
  /\ UNCHANGED <<up, fresh, manager, sessions, broadcaster>>

(* The join is refused; the token stays consumed.                          *)
RefuseMutant ==
  /\ call.pc = "add" /\ call.race # Nil /\ Refused(call.race)
  /\ Proceed("add", "bind")
  /\ UNCHANGED <<up, fresh, race, manager, sessions, broadcaster>>

Refuse ==
  /\ call.pc = "add" /\ call.race # Nil /\ Refused(call.race)
  /\ Answer("add")
  /\ UNCHANGED <<up, fresh, race, manager, sessions, broadcaster>>

(* AddPlayer on a nil race takes the mutex of nothing: the process dies.   *)
Crash ==
  /\ up /\ call.pc = "add" /\ call.race = Nil
  /\ up' = FALSE
  /\ UNCHANGED <<fresh, race, manager, call, sessions, broadcaster>>

(* An address keeps the player it was bound to first.  The mutant gives it *)
(* to whoever sends from it.                                               *)
ClaimedMutant(a) == a \in DOMAIN addr /\ addr[a] = call.ticket.player
Claimed(a) == a \in DOMAIN addr

(* BindAddr leaves both maps alone when the address is bound, to whomever; *)
(* its result is ignored.                                                  *)
BindAddr ==
  /\ Proceed("bind", "set")
  /\ LET p == call.ticket.player  a == call.from IN
     \/ Claimed(a) /\ UNCHANGED sessions
     \/ /\ ~Claimed(a)
        /\ addr' = With(addr, a, p)
        /\ session' = With(session, p,
             [key |-> a, race |-> IF p \in DOMAIN session THEN session[p].race ELSE Nil])
  /\ UNCHANGED <<up, fresh, race, manager, broadcaster>>

(* SetRace does nothing for a player without an address; the answer is     *)
(* ok=true in any case.                                                    *)
SetRace ==
  /\ Answer("set")
  /\ session' = [p \in DOMAIN session |->
                   IF p = call.ticket.player
                   THEN [session[p] EXCEPT !.race = call.race] ELSE session[p]]
  /\ UNCHANGED <<up, fresh, race, manager, addr, broadcaster>>

-----------------------------------------------------------------------------
(* A race, as RaceLifecycle has it: it ends, and Done closes some time     *)
(* after.                                                                  *)

RaceEnds(i) ==
  /\ up /\ race[i].phase = "open"
  /\ race' = [race EXCEPT ![i].phase = "finished"]
  /\ UNCHANGED <<up, fresh, manager, call, sessions, broadcaster>>

RaceCloses(i) ==
  /\ up /\ race[i].phase = "finished"
  /\ race' = [race EXCEPT ![i].phase = "closed"]
  /\ UNCHANGED <<up, fresh, manager, call, sessions, broadcaster>>

-----------------------------------------------------------------------------
(* The broadcaster pool.  watch lists the races, spawns a broadcaster and  *)
(* a follower for each it does not know, and cleans up.                    *)

ListRaces ==
  /\ up /\ watch.pc = "idle"
  /\ watch' = [pc |-> "spawn", todo |-> active]
  /\ UNCHANGED <<up, fresh, race, manager, call, sessions, known, subs>>

Spawn(i) ==
  /\ up /\ watch.pc = "spawn" /\ i \in watch.todo
  /\ known' = known \cup {i}
  /\ watch' = [watch EXCEPT !.todo = @ \ {i}]
  /\ UNCHANGED <<up, fresh, race, manager, call, sessions, subs>>

StartCleanup ==
  /\ up /\ watch.pc = "spawn" /\ watch.todo = {}
  /\ watch' = [pc |-> "clean", todo |-> active]
  /\ UNCHANGED <<up, fresh, race, manager, call, sessions, known, subs>>

OverMutant(i) == race[i].members # {}
Over(i) == race[i].phase # "open"

CleanupFinished(i) ==
  /\ up /\ watch.pc = "clean" /\ i \in watch.todo
  /\ active' = IF Over(i) THEN active \ {i} ELSE active
  /\ watch' = [watch EXCEPT !.todo = @ \ {i}]
  /\ UNCHANGED <<up, fresh, race, byMatch, call, sessions, known, subs>>

CleanupDone ==
  /\ up /\ watch.pc = "clean" /\ watch.todo = {}
  /\ watch' = [pc |-> "idle", todo |-> {}]
  /\ UNCHANGED <<up, fresh, race, manager, call, sessions, known, subs>>

(* RacePlayers, and Subscriptions.Add for each: an address once added is   *)
(* never replaced.                                                         *)
OnceMutant(i) ==
  {p \in DOMAIN session : session[p].race = i /\ subs[i] = NoEntry}
RacePlayers(i) == {p \in DOMAIN session : session[p].race = i}

Follow(i) ==
  /\ up /\ i \in known /\ race[i].phase # "closed"
  /\ subs' = [subs EXCEPT ![i] =
                [p \in DOMAIN @ \cup RacePlayers(i) |->
                   IF p \in DOMAIN @ THEN @[p] ELSE session[p].key]]
  /\ UNCHANGED <<up, fresh, race, manager, call, sessions, known, watch>>

-----------------------------------------------------------------------------
Dispatcher ==
  \/ LookupFound \/ LookupMissing \/ NewRace \/ AddPlayer \/ Refuse \/ Crash
  \/ BindAddr \/ SetRace

Watch ==
  \/ ListRaces \/ StartCleanup \/ CleanupDone
  \/ \E i \in RaceIds : Spawn(i) \/ CleanupFinished(i)

Next ==
  \/ \E t \in Tickets : \E a \in Addrs : Verify(t, a)
  \/ Dispatcher \/ Watch
  \/ \E i \in RaceIds : RaceEnds(i) \/ RaceCloses(i) \/ Follow(i)

Spec == Init /\ [][Next]_vars

(* Fairness.  The socket's goroutine finishes what it began, and watch and *)
(* the followers are driven by tickers.  Clients owe nothing, nor do races.*)
FairSpec ==
  /\ Spec
  /\ WF_vars(Dispatcher) /\ WF_vars(Watch)
  /\ \A m \in Matches : WF_vars(\E i \in RaceIds : race[i].match = m /\ Follow(i))

-----------------------------------------------------------------------------
(* Safety.                                                                 *)

(* The players of a match meet in one race: RegisterPlayer looks the match *)
(* up and makes the race in two critical sections, and later cleans up,    *)
(* but makes no second race for a match.                                   *)
OneRacePerMatch ==
  \A i, j \in RaceIds : race[i].match = race[j].match => i = j

(* Inputs are routed by the session alone: the race a session names is one *)
(* that seated the player (handleJoin, handleInput).                       *)
SeatedSessions ==
  \A p \in DOMAIN session :
    session[p].race # Nil => p \in race[session[p].race].members

(* Snapshots of a race only go to addresses that belong to players of that *)
(* race, though they are copied from the registry on a ticker while        *)
(* players join, change address and change race (followSubscriptions).     *)
SnapshotsStayInRace ==
  \A i \in RaceIds : \A p \in DOMAIN subs[i] :
    p \in race[i].members /\ subs[i][p] \in DOMAIN addr /\ addr[subs[i][p]] = p

(* CleanupFinished forgets no race that can still be joined: every race    *)
(* that is not over is in the manager, found by its match.                 *)
LiveRacesFound ==
  \A i \in RaceIds : race[i].phase = "open" =>
    /\ i \in active
    /\ race[i].match \in DOMAIN byMatch /\ ByMatch(race[i].match) = i

-----------------------------------------------------------------------------
(* The contracts with Matchmaking and RaceLoop.  Every token a client will *)
(* present is issued before, and nobody calls EnqueueLeave.                *)

GameTokens == INSTANCE GameTokens WITH
  Tokens <- Tickets, held <- Tickets, admitted <- [t \in Tickets \ fresh |-> 1]

Seats(i) == INSTANCE RaceSeats WITH
  Leavers <- {}, phase <- race[i].phase, members <- race[i].members

SeatsKept ==
  \A i \in RaceIds' : IF i \in RaceIds THEN [Seats(i)!Next]_(race[i]) ELSE Seats(i)!Init'

(* A ticket seats nobody twice, however the joins, the refusals and the    *)
(* crash interleave, and every race of the server goes through what        *)
(* RaceLoop provides and nothing else: nobody is seated beyond its         *)
(* capacity or after its end, and nobody it ends with is forgotten.        *)
KeepsContracts == GameTokens!Spec /\ [][SeatsKept]_vars

-----------------------------------------------------------------------------
(* Liveness, under FairSpec.                                               *)

(* A player with a session in a race gets its snapshots: watch meets the   *)
(* race and its follower picks the player up, unless the race ends or the  *)
(* player goes elsewhere first.                                            *)
Racing(p, m) ==
  /\ up /\ p \in DOMAIN session /\ session[p].race # Nil
  /\ race[session[p].race].match = m /\ race[session[p].race].phase = "open"

Subscribed ==
  \A p \in Players, m \in Matches :
    Racing(p, m) ~> ~Racing(p, m) \/ p \in DOMAIN subs[session[p].race]

-----------------------------------------------------------------------------
(* What the comments say and the code does not do.                         *)

(* manager.go: RegisterPlayer routes a JoinRaceRequest to the right race,  *)
(* or answers that it could not.  A token used after its match's race was  *)
(* cleaned up brings the process down instead.                             *)
JoinIsAnswered == up
=============================================================================

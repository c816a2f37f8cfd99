-------------------------- MODULE GameServerProofs --------------------------
(***************************************************************************)
(* Theorems about GameServer, for any players, matches, addresses and      *)
(* tickets, any capacity and any number of races.                          *)
(***************************************************************************)
EXTENDS GameServer, FiniteSetTheorems, SequenceTheorems, TLAPS

(* Maps, as the server's Go maps are modelled.                             *)
LEMMA MapsMembers ==
  ASSUME NEW S, NEW T, NEW f
  PROVE  f \in Maps(S, T) <=> DOMAIN f \subseteq S /\ f \in [DOMAIN f -> T]
BY DEF Maps

LEMMA NoEntryMap ==
  ASSUME NEW S, NEW T
  PROVE  NoEntry \in Maps(S, T) /\ DOMAIN NoEntry = {}
BY DEF NoEntry, Maps

LEMMA WithMap ==
  ASSUME NEW S, NEW T, NEW f \in Maps(S, T), NEW k \in S, NEW v \in T
  PROVE  /\ With(f, k, v) \in Maps(S, T)
         /\ DOMAIN With(f, k, v) = DOMAIN f \cup {k}
         /\ With(f, k, v)[k] = v
         /\ \A j \in DOMAIN f \ {k} : With(f, k, v)[j] = f[j]
<1>1. DOMAIN f \subseteq S /\ f \in [DOMAIN f -> T]
  BY MapsMembers
<1>2. /\ DOMAIN With(f, k, v) = DOMAIN f \cup {k}
      /\ With(f, k, v) \in [DOMAIN f \cup {k} -> T]
      /\ With(f, k, v)[k] = v
      /\ \A j \in DOMAIN f \ {k} : With(f, k, v)[j] = f[j]
  BY <1>1 DEF With
<1> QED BY <1>1, <1>2, MapsMembers

LEMMA WithType ==
  ASSUME NEW S, NEW T, NEW f \in Maps(S, T), NEW k \in S, NEW v \in T
  PROVE  With(f, k, v) \in Maps(S, T)
BY WithMap

(* A map into a smaller set is one into a larger set.                      *)
LEMMA MapsGrow ==
  ASSUME NEW S, NEW T, NEW U, T \subseteq U, NEW f \in Maps(S, T)
  PROVE  f \in Maps(S, U)
BY MapsMembers

LEMMA RacesTyped ==
  ASSUME race \in Seq(Race)
  PROVE  /\ Len(race) \in Nat /\ RaceIds = 1..Len(race) /\ Nil \notin RaceIds
         /\ \A i \in RaceIds : race[i] \in Race
BY DEF RaceIds, Nil

-----------------------------------------------------------------------------
(* How a step changes the races: it makes one, or seats players in one, or *)
(* ends one.  No race is forgotten, changes its match or loses a player.   *)
RaceStep ==
  /\ RaceIds \subseteq RaceIds'
  /\ \A i \in RaceIds : /\ race'[i].match = race[i].match
                        /\ race[i].members \subseteq race'[i].members
                        /\ race'[i].phase = "open" => race[i].phase = "open"

LEMMA RaceExcept ==
  ASSUME race \in Seq(Race), NEW i \in RaceIds, NEW r \in Race, race' = [race EXCEPT ![i] = r],
         r.match = race[i].match, race[i].members \subseteq r.members,
         r.phase = "open" => race[i].phase = "open"
  PROVE  /\ race' \in Seq(Race) /\ Len(race') = Len(race) /\ RaceIds' = RaceIds /\ RaceStep
         /\ race'[i] = r
         /\ \A j \in RaceIds \ {i} : race'[j] = race[j]
<1>1. i \in 1..Len(race) /\ RaceIds = 1..Len(race)
  BY RacesTyped
<1>2. /\ race' \in Seq(Race) /\ Len(race') = Len(race)
      /\ \A j \in 1..Len(race) : race'[j] = IF j = i THEN r ELSE race[j]
  BY <1>1, ExceptSeq
<1>3. RaceIds' = RaceIds
  BY <1>1, <1>2 DEF RaceIds
<1> QED BY <1>1, <1>2, <1>3 DEF RaceStep

LEMMA RaceAppended ==
  ASSUME race \in Seq(Race), NEW r \in Race, race' = Append(race, r)
  PROVE  /\ race' \in Seq(Race) /\ RaceStep
         /\ NewId \notin RaceIds /\ RaceIds' = RaceIds \cup {NewId}
         /\ race'[NewId] = r
         /\ \A i \in RaceIds : race'[i] = race[i]
<1>1. /\ Len(race) \in Nat /\ race' \in Seq(Race) /\ Len(race') = Len(race) + 1
      /\ \A i \in 1..Len(race) : race'[i] = race[i]
      /\ race'[Len(race) + 1] = r
  OBVIOUS
<1>2. RaceIds = 1..Len(race) /\ RaceIds' = 1..Len(race')
  BY <1>1 DEF RaceIds
<1> QED BY <1>1, <1>2 DEF RaceStep, NewId

LEMMA RaceUnchanged == ASSUME UNCHANGED race PROVE RaceStep /\ RaceIds' = RaceIds
BY DEF RaceStep, RaceIds

-----------------------------------------------------------------------------
(* Types.                                                                  *)

Busy == [pc : {"lookup", "create", "add", "bind", "set"},
         ticket : Tickets, from : Addrs, race : RaceIds \cup {Nil}]

LEMMA CallBusy ==
  ASSUME TypeOK, call.pc # "idle"
  PROVE  /\ call \in Busy
         /\ call.ticket.match \in Matches /\ call.ticket.player \in Players
BY GameServerAssumption DEF TypeOK, NoCall, Busy

LEMMA NewRaceType ==
  ASSUME TypeOK, call.pc # "idle"
  PROVE  [match |-> call.ticket.match, phase |-> "open", members |-> {}] \in Race
BY CallBusy DEF Race

(* What the races are to the other variables only grows.                   *)
LEMMA MoreRaces ==
  ASSUME TypeOK, RaceIds \subseteq RaceIds'
  PROVE  /\ active \subseteq RaceIds' /\ known \subseteq RaceIds' /\ watch.todo \subseteq RaceIds'
         /\ byMatch \in Maps(Matches, RaceIds')
         /\ session \in Maps(Players, [key : Addrs, race : RaceIds' \cup {Nil}])
         /\ call \in {NoCall} \cup [pc : {"lookup", "create", "add", "bind", "set"},
                                    ticket : Tickets, from : Addrs, race : RaceIds' \cup {Nil}]
         /\ watch \in [pc : {"idle", "spawn", "clean"}, todo : SUBSET RaceIds']
<1>1. /\ active \subseteq RaceIds' /\ known \subseteq RaceIds' /\ watch.todo \subseteq RaceIds'
      /\ watch \in [pc : {"idle", "spawn", "clean"}, todo : SUBSET RaceIds']
  BY DEF TypeOK
<1>2. byMatch \in Maps(Matches, RaceIds')
  BY MapsGrow DEF TypeOK
<1>3. session \in Maps(Players, [key : Addrs, race : RaceIds' \cup {Nil}])
  <2>1. [key : Addrs, race : RaceIds \cup {Nil}] \subseteq [key : Addrs, race : RaceIds' \cup {Nil}]
    OBVIOUS
  <2> QED BY <2>1, MapsGrow DEF TypeOK
<1>4. call \in {NoCall} \cup [pc : {"lookup", "create", "add", "bind", "set"},
                              ticket : Tickets, from : Addrs, race : RaceIds' \cup {Nil}]
  BY DEF TypeOK
<1> QED BY <1>1, <1>2, <1>3, <1>4

LEMMA InitType == Init => TypeOK
<1> SUFFICES ASSUME Init PROVE TypeOK
  OBVIOUS
<1>1. race \in Seq(Race) /\ subs \in Seq(Maps(Players, Addrs)) /\ Len(subs) = Len(race)
  BY DEF Init
<1>2. byMatch \in Maps(Matches, RaceIds) /\ addr \in Maps(Addrs, Players)
      /\ session \in Maps(Players, [key : Addrs, race : RaceIds \cup {Nil}])
  BY NoEntryMap DEF Init
<1> QED BY <1>1, <1>2 DEF Init, TypeOK

(* Steps of the dispatcher that leave races and sessions alone.            *)
LEMMA CallType ==
  ASSUME TypeOK,
         (\E t \in Tickets : \E a \in Addrs : Verify(t, a))
           \/ LookupFound \/ LookupMissing \/ Refuse \/ Crash
  PROVE  TypeOK'
<1>1. ASSUME NEW t \in Tickets, NEW a \in Addrs, Verify(t, a) PROVE TypeOK'
  BY <1>1 DEF Verify, TypeOK, manager, sessions, broadcaster, RaceIds
<1>2. CASE LookupFound
  <2>1. ByMatch(call.ticket.match) \in RaceIds \cup {Nil}
    BY <1>2, MapsMembers DEF LookupFound, ByMatch, TypeOK
  <2>2. call' \in Busy
    BY <1>2, <2>1, CallBusy DEF LookupFound, Busy
  <2> QED BY <1>2, <2>2 DEF LookupFound, TypeOK, Busy, sessions, broadcaster, manager, RaceIds
<1>3. CASE LookupMissing
  <2>1. call' \in Busy
    BY <1>3, CallBusy DEF LookupMissing, Proceed, Busy
  <2> QED BY <1>3, <2>1
        DEF LookupMissing, Proceed, TypeOK, Busy, sessions, broadcaster, manager, RaceIds
<1>4. CASE Refuse
  BY <1>4 DEF Refuse, Answer, TypeOK, sessions, broadcaster, manager, RaceIds
<1>5. CASE Crash
  BY <1>5 DEF Crash, TypeOK, sessions, broadcaster, manager, RaceIds
<1> QED BY <1>1, <1>2, <1>3, <1>4, <1>5

LEMMA NewRaceStep ==
  ASSUME TypeOK, NewRace
  PROVE  TypeOK'
<1>1. /\ race' \in Seq(Race) /\ RaceStep /\ RaceIds' = RaceIds \cup {NewId}
  BY NewRaceType, RaceAppended DEF NewRace, TypeOK
<1>2. byMatch' \in Maps(Matches, RaceIds')
  <2>1. byMatch \in Maps(Matches, RaceIds') /\ NewId \in RaceIds'
    BY <1>1, MoreRaces
  <2>2. call.ticket.match \in Matches
    BY CallBusy DEF NewRace
  <2>3. byMatch' = With(byMatch, call.ticket.match, NewId)
    BY DEF NewRace, Recorded
  <2> QED BY <2>1, <2>2, <2>3, WithType
<1>3. subs' \in Seq(Maps(Players, Addrs)) /\ Len(subs') = Len(race')
  <2>1. NoEntry \in Maps(Players, Addrs)
    BY NoEntryMap
  <2> QED BY <2>1, NewRaceType DEF NewRace, TypeOK
<1>4. call' \in Busy'
  BY <1>1, CallBusy DEF NewRace, Busy
<1> QED BY <1>1, <1>2, <1>3, <1>4, MoreRaces DEF NewRace, TypeOK, sessions, Busy

(* A race that exists becomes another one.                                 *)
LEMMA ExceptType ==
  ASSUME TypeOK, RaceIds' = RaceIds, race' \in Seq(Race), Len(race') = Len(race),
         UNCHANGED <<up, fresh, manager, sessions, broadcaster>>, call' \in {NoCall} \cup Busy
  PROVE  TypeOK'
BY DEF TypeOK, manager, sessions, broadcaster, Busy

LEMMA AddPlayerStep ==
  ASSUME TypeOK, AddPlayer
  PROVE  /\ TypeOK' /\ RaceStep /\ RaceIds' = RaceIds
         /\ race'[call.race].members = race[call.race].members \cup {call.ticket.player}
         /\ call.race \in RaceIds /\ call' \in Busy
<1> DEFINE i == call.race
           r == [race[i] EXCEPT !.members = @ \cup {call.ticket.player}]
<1>1. i \in RaceIds /\ call.ticket.player \in Players /\ race[i] \in Race
  BY CallBusy, RacesTyped DEF AddPlayer, Busy, TypeOK
<1>2. /\ r \in Race /\ r.match = race[i].match /\ r.phase = race[i].phase
      /\ r.members = race[i].members \cup {call.ticket.player}
  BY <1>1 DEF Race
<1>3. race' = [race EXCEPT ![i] = r]
  BY DEF AddPlayer
<1>4. call' \in Busy
  BY CallBusy DEF AddPlayer, Proceed, Busy
<1> HIDE DEF r, i
<1>5. race' \in Seq(Race) /\ RaceIds' = RaceIds /\ RaceStep /\ race'[i] = r /\ Len(race') = Len(race)
  BY <1>1, <1>2, <1>3, RaceExcept DEF TypeOK
<1> QED BY <1>1, <1>2, <1>4, <1>5, ExceptType DEF AddPlayer, Proceed, i

LEMMA PhaseStep ==
  ASSUME TypeOK, NEW i \in RaceIds, RaceEnds(i) \/ RaceCloses(i)
  PROVE  /\ TypeOK' /\ RaceStep /\ RaceIds' = RaceIds
         /\ \A j \in RaceIds \ {i} : race'[j] = race[j]
<1>0. PICK ph \in {"finished", "closed"} : race' = [race EXCEPT ![i].phase = ph]
  BY DEF RaceEnds, RaceCloses
<1> DEFINE r == [race[i] EXCEPT !.phase = ph]
<1>1. race[i] \in Race
  BY RacesTyped DEF TypeOK
<1>2. /\ r \in Race /\ r.match = race[i].match /\ r.phase # "open"
      /\ r.members = race[i].members
  BY <1>1 DEF Race
<1>3. race' = [race EXCEPT ![i] = r]
  BY <1>0
<1> HIDE DEF r
<1>4. /\ race' \in Seq(Race) /\ RaceIds' = RaceIds /\ RaceStep /\ Len(race') = Len(race)
      /\ \A j \in RaceIds \ {i} : race'[j] = race[j]
  BY <1>1, <1>2, <1>3, RaceExcept DEF TypeOK
<1>5. TypeOK'
  BY <1>4, ExceptType DEF RaceEnds, RaceCloses, TypeOK, Busy
<1> QED BY <1>4, <1>5

LEMMA SessionType ==
  ASSUME TypeOK, BindAddr \/ SetRace
  PROVE  TypeOK'
<1> DEFINE Entry == [key : Addrs, race : RaceIds \cup {Nil}]
<1>1. /\ call \in Busy /\ call.ticket.player \in Players /\ call.from \in Addrs
  BY CallBusy DEF BindAddr, SetRace, Proceed, Answer, Busy
<1>2. DOMAIN session \subseteq Players /\ session \in [DOMAIN session -> Entry]
  BY MapsMembers DEF TypeOK
<1>3. CASE BindAddr
  <2>1. call' \in Busy
    BY <1>1, <1>3 DEF BindAddr, Proceed, Busy
  <2>2. addr' \in Maps(Addrs, Players) /\ session' \in Maps(Players, Entry)
    <3>1. CASE UNCHANGED sessions
      BY <3>1 DEF sessions, TypeOK
    <3>2. CASE ~UNCHANGED sessions
      <4> DEFINE p == call.ticket.player
                 e == [key |-> call.from, race |-> IF p \in DOMAIN session THEN session[p].race ELSE Nil]
      <4>1. addr' = With(addr, call.from, p) /\ session' = With(session, p, e)
        BY <1>3, <3>2 DEF BindAddr, Claimed
      <4>2. e \in Entry
        BY <1>1, <1>2
      <4>3. addr \in Maps(Addrs, Players) /\ session \in Maps(Players, Entry)
        BY DEF TypeOK
      <4> HIDE DEF e, Entry
      <4>4. addr' \in Maps(Addrs, Players)
        BY <1>1, <4>1, <4>3, WithType
      <4>5. session' \in Maps(Players, Entry)
        BY <1>1, <4>1, <4>2, <4>3, WithType
      <4> QED BY <4>4, <4>5
    <3> QED BY <3>1, <3>2
  <2> QED BY <1>3, <2>1, <2>2
          DEF BindAddr, Proceed, TypeOK, Busy, manager, broadcaster, RaceIds
<1>4. CASE SetRace
  <2>1. /\ DOMAIN session' = DOMAIN session
        /\ session' \in [DOMAIN session -> Entry]
    BY <1>1, <1>2, <1>4 DEF SetRace, Busy
  <2>2. session' \in Maps(Players, Entry)
    BY <1>2, <2>1, MapsMembers
  <2> QED BY <1>4, <2>2 DEF SetRace, Answer, TypeOK, manager, broadcaster, RaceIds
<1> QED BY <1>3, <1>4

LEMMA WatchType ==
  ASSUME TypeOK, Watch
  PROVE  TypeOK'
<1>1. CASE ListRaces \/ StartCleanup \/ CleanupDone
  <2>1. watch' \in [pc : {"idle", "spawn", "clean"}, todo : SUBSET RaceIds]
    <3>1. active \in SUBSET RaceIds
      BY DEF TypeOK
    <3> QED BY <1>1, <3>1 DEF ListRaces, StartCleanup, CleanupDone
  <2>2. UNCHANGED <<up, fresh, race, manager, call, sessions, known, subs>>
    BY <1>1 DEF ListRaces, StartCleanup, CleanupDone
  <2> QED BY <2>1, <2>2 DEF TypeOK, manager, sessions, RaceIds
<1>2. ASSUME NEW i \in RaceIds, Spawn(i) \/ CleanupFinished(i) PROVE TypeOK'
  BY <1>2 DEF Spawn, CleanupFinished, TypeOK, manager, sessions, RaceIds
<1> QED BY <1>1, <1>2 DEF Watch

LEMMA FollowStep ==
  ASSUME TypeOK, NEW i \in RaceIds, Follow(i)
  PROVE  /\ TypeOK'
         /\ \A j \in RaceIds \ {i} : subs'[j] = subs[j]
         /\ DOMAIN subs'[i] = DOMAIN subs[i] \cup RacePlayers(i)
         /\ \A p \in DOMAIN subs'[i] :
              subs'[i][p] = IF p \in DOMAIN subs[i] THEN subs[i][p] ELSE session[p].key
<1> DEFINE f == [p \in DOMAIN subs[i] \cup RacePlayers(i) |->
                   IF p \in DOMAIN subs[i] THEN subs[i][p] ELSE session[p].key]
<1>1. i \in 1..Len(subs) /\ subs[i] \in Maps(Players, Addrs) /\ RaceIds = 1..Len(subs)
  BY RacesTyped DEF TypeOK
<1>2. f \in Maps(Players, Addrs)
  <2>1. DOMAIN subs[i] \subseteq Players /\ subs[i] \in [DOMAIN subs[i] -> Addrs]
    BY <1>1, MapsMembers
  <2>2. /\ DOMAIN session \subseteq Players
        /\ session \in [DOMAIN session -> [key : Addrs, race : RaceIds \cup {Nil}]]
    BY MapsMembers DEF TypeOK
  <2>3. \A p \in RacePlayers(i) : p \in Players /\ session[p].key \in Addrs
    BY <2>2 DEF RacePlayers
  <2>4. DOMAIN f \subseteq Players /\ f \in [DOMAIN f -> Addrs]
    BY <2>1, <2>3
  <2> QED BY <2>4, MapsMembers
<1>3. subs' = [subs EXCEPT ![i] = f]
  BY DEF Follow
<1>4. /\ DOMAIN f = DOMAIN subs[i] \cup RacePlayers(i)
      /\ \A p \in DOMAIN f : f[p] = IF p \in DOMAIN subs[i] THEN subs[i][p] ELSE session[p].key
  OBVIOUS
<1> HIDE DEF f
<1>5. /\ subs' \in Seq(Maps(Players, Addrs)) /\ Len(subs') = Len(subs)
      /\ \A j \in RaceIds : subs'[j] = IF j = i THEN f ELSE subs[j]
  BY <1>1, <1>2, <1>3, ExceptSeq DEF TypeOK
<1>6. TypeOK'
  BY <1>5 DEF Follow, TypeOK, manager, sessions, RaceIds
<1> QED BY <1>1, <1>4, <1>5, <1>6

LEMMA StepType == TypeOK /\ [Next]_vars => TypeOK'
<1> SUFFICES ASSUME TypeOK, [Next]_vars PROVE TypeOK'
  OBVIOUS
<1>1. CASE (\E t \in Tickets : \E a \in Addrs : Verify(t, a)) \/ Dispatcher
  BY <1>1, CallType, NewRaceStep, AddPlayerStep, SessionType DEF Dispatcher
<1>2. CASE Watch
  BY <1>2, WatchType
<1>3. ASSUME NEW i \in RaceIds, RaceEnds(i) \/ RaceCloses(i) \/ Follow(i) PROVE TypeOK'
  BY <1>3, PhaseStep, FollowStep
<1>4. CASE UNCHANGED vars
  BY <1>4 DEF vars, manager, sessions, broadcaster, TypeOK, RaceIds
<1> QED BY <1>1, <1>2, <1>3, <1>4 DEF Next

(* Every map has the keys and values the code gives it, and every race id  *)
(* that is kept anywhere is that of a race that was made.                  *)
THEOREM TypeCorrect == Spec => []TypeOK
BY InitType, StepType, PTL DEF Spec

-----------------------------------------------------------------------------
(* The races of every match.                                               *)

RaceIsStep ==
  \/ NewRace \/ AddPlayer \/ UNCHANGED race
  \/ \E i \in RaceIds : RaceEnds(i) \/ RaceCloses(i)

LEMMA RaceCases == [Next]_vars => RaceIsStep
BY DEF Next, vars, Dispatcher, Watch, RaceIsStep, Verify, LookupFound, LookupMissing, Refuse, Crash,
       BindAddr, SetRace, ListRaces, StartCleanup, CleanupDone, Spawn, CleanupFinished, Follow

(* No race is forgotten, changes its match, loses a player or opens again. *)
LEMMA RacesKept == TypeOK /\ [Next]_vars => RaceStep
<1> SUFFICES ASSUME TypeOK, [Next]_vars PROVE RaceStep
  OBVIOUS
<1>1. CASE NewRace
  BY <1>1, NewRaceType, RaceAppended DEF NewRace, TypeOK
<1>2. CASE AddPlayer
  BY <1>2, AddPlayerStep
<1>3. ASSUME NEW i \in RaceIds, RaceEnds(i) \/ RaceCloses(i) PROVE RaceStep
  BY <1>3, PhaseStep
<1> QED BY <1>1, <1>2, <1>3, RaceUnchanged, RaceCases DEF RaceIsStep

(* What OneRacePerMatch rests on: every race is the one its match names,   *)
(* and a match that RegisterPlayer did not find has no race yet.           *)
Indexed ==
  /\ \A i \in RaceIds : race[i].match \in DOMAIN byMatch /\ byMatch[race[i].match] = i
  /\ call.pc = "create" => call.ticket.match \notin DOMAIN byMatch

LEMMA CallCases ==
  ASSUME [Next]_vars
  PROVE  \/ \E t \in Tickets : \E a \in Addrs : Verify(t, a)
         \/ LookupFound \/ LookupMissing \/ NewRace \/ AddPlayer \/ Refuse \/ BindAddr \/ SetRace
         \/ UNCHANGED call
BY DEF Next, vars, Dispatcher, Watch, Crash, ListRaces, StartCleanup, CleanupDone, Spawn,
       CleanupFinished, RaceEnds, RaceCloses, Follow

LEMMA IndexedInit == Init => Indexed
BY DEF Init, Indexed, RaceIds, NoCall

LEMMA IndexedStep == TypeOK /\ Indexed /\ [Next]_vars => Indexed'
<1> SUFFICES ASSUME TypeOK, Indexed, [Next]_vars PROVE Indexed'
  OBVIOUS
<1>1. CASE NewRace
  <2> DEFINE m == call.ticket.match
  <2>1. /\ NewId \notin RaceIds /\ RaceIds' = RaceIds \cup {NewId} /\ race'[NewId].match = m
        /\ \A i \in RaceIds : race'[i] = race[i]
    <3> DEFINE r == [match |-> m, phase |-> "open", members |-> {}]
    <3>1. r \in Race /\ r.match = m /\ race' = Append(race, r)
      BY <1>1, NewRaceType DEF NewRace
    <3> HIDE DEF r
    <3> QED BY <3>1, RaceAppended DEF TypeOK
  <2>2. m \in Matches /\ m \notin DOMAIN byMatch
    BY <1>1, CallBusy DEF NewRace, Indexed
  <2>3. /\ DOMAIN byMatch' = DOMAIN byMatch \cup {m} /\ byMatch'[m] = NewId
        /\ \A k \in DOMAIN byMatch \ {m} : byMatch'[k] = byMatch[k]
    BY <1>1 DEF NewRace, Recorded, With
  <2>4. call'.pc = "add"
    BY <1>1, CallBusy DEF NewRace, Busy
  <2> QED BY <2>1, <2>2, <2>3, <2>4 DEF Indexed
<1>2. CASE ~NewRace
  <2>1. UNCHANGED byMatch
    BY <1>2 DEF Next, vars, Dispatcher, Watch, Verify, LookupFound, LookupMissing, AddPlayer, Refuse,
                Crash, BindAddr, SetRace, ListRaces, StartCleanup, CleanupDone, Spawn, CleanupFinished,
                RaceEnds, RaceCloses, Follow, manager
  <2>2. RaceIds' = RaceIds /\ \A i \in RaceIds : race'[i].match = race[i].match
    BY <1>2, RaceCases, RacesKept, AddPlayerStep, PhaseStep, RaceUnchanged DEF RaceIsStep, RaceStep
  <2>3. call'.pc = "create" => /\ call'.ticket = call.ticket
                               /\ call.pc = "create" \/ call.ticket.match \notin DOMAIN byMatch
    <3>1. CASE LookupMissing
      BY <3>1, CallBusy DEF LookupMissing, Proceed, Busy
    <3>2. CASE UNCHANGED call
      BY <3>2
    <3>3. CASE NewRace \/ LookupFound \/ AddPlayer \/ BindAddr
      BY <3>3, CallBusy DEF NewRace, LookupFound, AddPlayer, BindAddr, Proceed, Busy
    <3>4. CASE Refuse \/ SetRace \/ \E t \in Tickets : \E a \in Addrs : Verify(t, a)
      BY <3>4 DEF Refuse, SetRace, Verify, Answer, NoCall
    <3> QED BY <3>1, <3>2, <3>3, <3>4, CallCases
  <2> QED BY <2>1, <2>2, <2>3 DEF Indexed
<1> QED BY <1>1, <1>2

LEMMA IndexedHolds == Spec => []Indexed
BY IndexedInit, IndexedStep, TypeCorrect, PTL DEF Spec

(* The players of a match meet in one race, for any number of matches,     *)
(* tickets and joins, though the lookup and the making of the race are two *)
(* critical sections (RegisterPlayer).                                     *)
THEOREM OneRacePerMatchHolds == Spec => []OneRacePerMatch
<1>1. Indexed => OneRacePerMatch
  BY DEF Indexed, OneRacePerMatch
<1> QED BY <1>1, IndexedHolds, PTL

-----------------------------------------------------------------------------
(* Races that can still be joined.                                         *)

Live == \A i \in RaceIds : race[i].phase = "open" => i \in active

LEMMA LiveStep == TypeOK /\ Live /\ [Next]_vars => Live'
<1> SUFFICES ASSUME TypeOK, Live, [Next]_vars PROVE Live'
  OBVIOUS
<1>0. RaceStep
  BY RacesKept
<1>1. CASE NewRace
  <2>1. RaceIds' = RaceIds \cup {NewId} /\ active' = active \cup {NewId}
    BY <1>1, NewRaceType, RaceAppended DEF NewRace, TypeOK
  <2> QED BY <1>0, <2>1 DEF Live, RaceStep
<1>2. CASE ~NewRace
  <2>1. RaceIds' = RaceIds
    BY <1>2, RaceCases, AddPlayerStep, PhaseStep, RaceUnchanged DEF RaceIsStep
  <2>2. CASE UNCHANGED active
    BY <1>0, <2>1, <2>2 DEF Live, RaceStep
  <2>3. ASSUME NEW i \in RaceIds, CleanupFinished(i) PROVE Live'
    BY <2>3 DEF CleanupFinished, Over, Live, RaceIds
  <2> QED BY <1>2, <2>2, <2>3
        DEF Next, vars, Dispatcher, Watch, Verify, LookupFound, LookupMissing, AddPlayer, Refuse, Crash,
            BindAddr, SetRace, ListRaces, StartCleanup, CleanupDone, Spawn, RaceEnds, RaceCloses, Follow,
            manager
<1> QED BY <1>1, <1>2

(* CleanupFinished, which asks one race after the other while races are    *)
(* made and end, takes none out of the manager that can still be joined.   *)
THEOREM LiveRacesFoundHolds == Spec => []LiveRacesFound
<1>1. Init => Live
  BY DEF Init, Live, RaceIds
<1>2. Live /\ Indexed => LiveRacesFound
  BY DEF Live, Indexed, LiveRacesFound, ByMatch
<1> QED BY <1>1, <1>2, LiveStep, TypeCorrect, IndexedHolds, PTL DEF Spec

-----------------------------------------------------------------------------
(* Sessions.  Between AddPlayer and SetRace the player has a seat, though  *)
(* its session does not say so.                                            *)

Seated ==
  /\ SeatedSessions
  /\ call.pc \in {"bind", "set"} =>
       call.race # Nil /\ call.ticket.player \in race[call.race].members

LEMMA SeatedInit == Init => Seated
BY NoEntryMap DEF Init, Seated, SeatedSessions, NoCall, NoEntry

LEMMA SessionCases == [Next]_vars => BindAddr \/ SetRace \/ UNCHANGED sessions
BY DEF Next, vars, Dispatcher, Watch, Verify, LookupFound, LookupMissing, NewRace, AddPlayer, Refuse, Crash,
       ListRaces, StartCleanup, CleanupDone, Spawn, CleanupFinished, RaceEnds, RaceCloses, Follow

LEMMA SessionsTyped ==
  ASSUME TypeOK
  PROVE  /\ DOMAIN session \subseteq Players
         /\ \A p \in DOMAIN session : session[p].key \in Addrs /\ session[p].race \in RaceIds \cup {Nil}
         /\ \A p \in DOMAIN session : session[p] \in [key : Addrs, race : RaceIds \cup {Nil}]
<1>1. /\ DOMAIN session \subseteq Players
      /\ session \in [DOMAIN session -> [key : Addrs, race : RaceIds \cup {Nil}]]
  BY MapsMembers DEF TypeOK
<1> QED BY <1>1

(* What BindAddr and SetRace make of the registry.                         *)
LEMMA BindStep ==
  ASSUME TypeOK, BindAddr, ~UNCHANGED sessions
  PROVE  /\ call.from \notin DOMAIN addr /\ DOMAIN addr' = DOMAIN addr \cup {call.from}
         /\ addr'[call.from] = call.ticket.player
         /\ \A a \in DOMAIN addr : addr'[a] = addr[a]
         /\ DOMAIN session' = DOMAIN session \cup {call.ticket.player}
         /\ session'[call.ticket.player].key = call.from
         /\ session'[call.ticket.player].race =
              IF call.ticket.player \in DOMAIN session THEN session[call.ticket.player].race ELSE Nil
         /\ \A p \in DOMAIN session \ {call.ticket.player} : session'[p] = session[p]
BY DEF BindAddr, Claimed, With

LEMMA SetStep ==
  ASSUME TypeOK, SetRace
  PROVE  /\ DOMAIN session' = DOMAIN session /\ UNCHANGED addr
         /\ \A p \in DOMAIN session :
              /\ session'[p].key = session[p].key
              /\ session'[p].race = IF p = call.ticket.player THEN call.race ELSE session[p].race
BY SessionsTyped DEF SetRace

LEMMA SeatedStep == TypeOK /\ Seated /\ [Next]_vars => Seated'
<1> SUFFICES ASSUME TypeOK, Seated, [Next]_vars PROVE Seated'
  OBVIOUS
<1>0. RaceStep
  BY RacesKept
<1>1. SeatedSessions'
  <2>1. \A p \in DOMAIN session : session[p].race \in RaceIds \cup {Nil}
    BY SessionsTyped
  <2>2. CASE UNCHANGED sessions
    BY <1>0, <2>1, <2>2 DEF Seated, SeatedSessions, RaceStep, sessions, Nil
  <2>3. CASE BindAddr /\ ~UNCHANGED sessions
    BY <1>0, <2>1, <2>3, BindStep DEF Seated, SeatedSessions, RaceStep, Nil
  <2>4. CASE SetRace
    <3>1. call.pc = "set" /\ call.race \in RaceIds
      BY <2>4, CallBusy DEF SetRace, Answer, Busy, Seated
    <3> QED BY <1>0, <2>1, <2>4, <3>1, SetStep DEF Seated, SeatedSessions, RaceStep, Nil
  <2> QED BY <2>2, <2>3, <2>4, SessionCases
<1>2. call'.pc \in {"bind", "set"} =>
        call'.race # Nil /\ call'.ticket.player \in race'[call'.race].members
  <2>1. CASE AddPlayer
    BY <2>1, AddPlayerStep, CallBusy DEF AddPlayer, Proceed, Busy
  <2>2. CASE BindAddr
    BY <2>2, CallBusy DEF BindAddr, Proceed, Busy, Seated
  <2>3. CASE UNCHANGED call
    <3>1. call.pc \in {"bind", "set"} => call.race \in RaceIds
      BY CallBusy DEF Busy, Seated
    <3> QED BY <1>0, <2>3, <3>1 DEF Seated, RaceStep
  <2>4. CASE LookupFound \/ LookupMissing \/ NewRace
    BY <2>4, CallBusy DEF LookupFound, LookupMissing, NewRace, Proceed, Busy
  <2>5. CASE Refuse \/ SetRace \/ \E t \in Tickets : \E a \in Addrs : Verify(t, a)
    BY <2>5 DEF Refuse, SetRace, Verify, Answer, NoCall
  <2> QED BY <2>1, <2>2, <2>3, <2>4, <2>5, CallCases
<1> QED BY <1>1, <1>2 DEF Seated

LEMMA SeatedHolds == Spec => []Seated
BY SeatedInit, SeatedStep, TypeCorrect, PTL DEF Spec

(* Inputs only go to a race that seated their player, whichever addresses  *)
(* and races the player has come from (handleJoin, handleInput).           *)
THEOREM SeatedSessionsHolds == Spec => []SeatedSessions
BY SeatedHolds, PTL DEF Seated

-----------------------------------------------------------------------------
(* Snapshots.  The address of a session is bound to its player for ever.   *)

Bound ==
  \A p \in DOMAIN session : session[p].key \in DOMAIN addr /\ addr[session[p].key] = p

AddrKept == \A a \in DOMAIN addr : a \in DOMAIN addr' /\ addr'[a] = addr[a]

LEMMA AddrStep ==
  ASSUME TypeOK, [Next]_vars
  PROVE  AddrKept /\ (Bound => Bound')
<1>1. CASE UNCHANGED sessions
  BY <1>1 DEF AddrKept, Bound, sessions
<1>2. CASE BindAddr /\ ~UNCHANGED sessions
  BY <1>2, BindStep DEF AddrKept, Bound
<1>3. CASE SetRace
  BY <1>3, SetStep DEF AddrKept, Bound
<1> QED BY <1>1, <1>2, <1>3, SessionCases

LEMMA SnapshotsStep ==
  ASSUME TypeOK, Bound, SeatedSessions, SnapshotsStayInRace, [Next]_vars
  PROVE  SnapshotsStayInRace'
<1>0. RaceStep /\ AddrKept
  BY RacesKept, AddrStep
<1>1. CASE NewRace
  <2>1. /\ RaceIds' = RaceIds \cup {NewId} /\ RaceIds = 1..Len(race) /\ Len(race) \in Nat
    BY <1>1, NewRaceType, RaceAppended, RacesTyped DEF NewRace, TypeOK
  <2>2. subs'[NewId] = NoEntry /\ \A i \in RaceIds : subs'[i] = subs[i]
    BY <1>1, <2>1 DEF NewRace, NewId, TypeOK
  <2>3. DOMAIN NoEntry = {}
    BY DEF NoEntry
  <2> QED BY <1>0, <2>1, <2>2, <2>3 DEF SnapshotsStayInRace, RaceStep, AddrKept
<1>2. ASSUME NEW i \in RaceIds, Follow(i) PROVE SnapshotsStayInRace'
  <2>1. RaceIds' = RaceIds /\ race' = race /\ addr' = addr
    BY <1>2 DEF Follow, RaceIds, sessions
  <2>2. \A p \in RacePlayers(i) :
          /\ p \in race[i].members
          /\ session[p].key \in DOMAIN addr /\ addr[session[p].key] = p
    BY RacesTyped DEF RacePlayers, SeatedSessions, Bound, TypeOK
  <2> QED BY <1>2, <2>1, <2>2, FollowStep DEF SnapshotsStayInRace
<1>3. CASE UNCHANGED subs /\ ~NewRace
  <2>1. RaceIds' = RaceIds
    BY <1>3, RaceCases, AddPlayerStep, PhaseStep, RaceUnchanged DEF RaceIsStep
  <2> QED BY <1>0, <1>3, <2>1 DEF SnapshotsStayInRace, RaceStep, AddrKept
<1> QED BY <1>1, <1>2, <1>3
      DEF Next, vars, Dispatcher, Watch, Verify, LookupFound, LookupMissing, AddPlayer, Refuse, Crash,
          BindAddr, SetRace, ListRaces, StartCleanup, CleanupDone, Spawn, CleanupFinished, RaceEnds,
          RaceCloses, broadcaster

(* Snapshots of a race only go to addresses of its own players, though a   *)
(* follower copies them from the registry while players join, change their *)
(* address and change their race (followSubscriptions).                    *)
THEOREM SnapshotsStayInRaceHolds == Spec => []SnapshotsStayInRace
<1>1. Init => Bound /\ SnapshotsStayInRace
  BY NoEntryMap DEF Init, Bound, SnapshotsStayInRace, RaceIds, NoEntry
<1>2. /\ TypeOK /\ Bound /\ SeatedSessions /\ SnapshotsStayInRace
      /\ [Next]_vars
      => Bound' /\ SnapshotsStayInRace'
  BY AddrStep, SnapshotsStep
<1> QED BY <1>1, <1>2, TypeCorrect, SeatedSessionsHolds, PTL DEF Spec
-----------------------------------------------------------------------------
(* The contracts with Matchmaking and RaceLoop.                            *)

LEMMA TokensInit == Init => GameTokens!Init
BY DEF Init, GameTokens!Init

(* Verify admits a token, and no other step concerns one.                  *)
LEMMA TokensStep == TypeOK /\ [Next]_vars => [GameTokens!Next]_GameTokens!vars
<1> SUFFICES ASSUME TypeOK, [Next]_vars PROVE [GameTokens!Next]_GameTokens!vars
  OBVIOUS
<1>1. ASSUME NEW t \in Tickets, NEW a \in Addrs, Verify(t, a) PROVE GameTokens!Next
  <2>1. t \in fresh /\ fresh' = fresh \ {t}
    BY <1>1 DEF Verify
  <2>2. Tickets \ fresh' = (Tickets \ fresh) \cup {t}
    BY <2>1
  <2>3. GameTokens!Admit(t)
    BY <2>1, <2>2 DEF GameTokens!Admit, GameTokens!Admissions
  <2> QED BY <2>1, <2>3 DEF GameTokens!Next
<1>2. CASE UNCHANGED fresh
  BY <1>2 DEF GameTokens!vars
<1>3. (\E t \in Tickets : \E a \in Addrs : Verify(t, a)) \/ UNCHANGED fresh
  BY DEF Next, vars, Dispatcher, Watch, LookupFound, LookupMissing, NewRace, AddPlayer, Refuse, Crash,
         BindAddr, SetRace, ListRaces, StartCleanup, CleanupDone, Spawn, CleanupFinished, RaceEnds,
         RaceCloses, Follow
<1> QED BY <1>1, <1>2, <1>3

(* An instance has a Cardinality of its own.                               *)
LEMMA SameCount == \A i : \A S : Seats(i)!Cardinality(S) = Cardinality(S)
BY DEF Cardinality, Seats!Cardinality

(* One race takes a step and the others none.                              *)
LEMMA OneRaceSteps ==
  ASSUME race \in Seq(Race), NEW i \in RaceIds, NEW r \in Race, race' = [race EXCEPT ![i] = r],
         r.match = race[i].match, race[i].members \subseteq r.members,
         r.phase = "open" => race[i].phase = "open",
         race'[i] = r => Seats(i)!Next
  PROVE  SeatsKept
<1>1. RaceIds' = RaceIds /\ race'[i] = r /\ \A j \in RaceIds \ {i} : race'[j] = race[j]
  BY RaceExcept
<1> QED BY <1>1 DEF SeatsKept

(* AddPlayer takes a free seat, RaceEnds and RaceCloses end and close one  *)
(* race, NewRace makes one with all its seats free.                        *)
LEMMA SeatsStep == TypeOK /\ [Next]_vars => SeatsKept
<1> SUFFICES ASSUME TypeOK, [Next]_vars PROVE SeatsKept
  OBVIOUS
<1>0. race \in Seq(Race) /\ \A i \in RaceIds : race[i] \in Race
  BY RacesTyped DEF TypeOK
<1>1. CASE NewRace
  <2> DEFINE r == [match |-> call.ticket.match, phase |-> "open", members |-> {}]
  <2>1. r \in Race /\ race' = Append(race, r) /\ r.phase = "open" /\ r.members = {}
    BY <1>1, NewRaceType DEF NewRace
  <2> HIDE DEF r
  <2>2. /\ RaceIds' = RaceIds \cup {NewId} /\ race'[NewId] = r
        /\ \A i \in RaceIds : race'[i] = race[i]
    BY <1>0, <2>1, RaceAppended
  <2>3. ASSUME NEW i \in RaceIds', i \notin RaceIds PROVE Seats(i)!Init'
    <3>1. race'[i].phase = "open" /\ race'[i].members = {}
      BY <2>1, <2>2, <2>3
    <3> QED BY <3>1 DEF Seats!Init
  <2> QED BY <2>2, <2>3 DEF SeatsKept
<1>2. CASE AddPlayer
  <2>1. PICK i \in RaceIds, p \in Players : i = call.race /\ p = call.ticket.player
    BY <1>2, CallBusy DEF AddPlayer, Busy
  <2> DEFINE r == [race[i] EXCEPT !.members = @ \cup {p}]
  <2>2. /\ r \in Race /\ r.match = race[i].match /\ r.phase = race[i].phase
        /\ r.members = race[i].members \cup {p}
    BY <1>0 DEF Race
  <2>3. race' = [race EXCEPT ![i] = r]
    BY <1>2, <2>1 DEF AddPlayer
  <2>4. race[i].phase = "open" /\ Cardinality(race[i].members) < MaxPlayers
    <3>1. race[i].phase = "open" /\ ~(Cardinality(race[i].members) >= MaxPlayers)
      BY <1>2, <2>1 DEF AddPlayer, Refused
    <3>2. IsFiniteSet(race[i].members)
      BY <1>0, FS_Subset, GameServerAssumption DEF Race
    <3>3. Cardinality(race[i].members) \in Nat /\ MaxPlayers \in Nat
      BY <3>2, FS_CardinalityType, GameServerAssumption
    <3> QED BY <3>1, <3>3
  <2> HIDE DEF r
  <2>5. ASSUME race'[i] = r PROVE Seats(i)!Next
    <3>1. Seats(i)!Free
      BY <2>4, SameCount DEF Seats!Free
    <3>2. Seats(i)!Seat(p)
      BY <2>2, <2>5, <3>1 DEF Seats!Seat
    <3> QED BY <2>1, <3>2 DEF Seats!Next
  <2> QED BY <1>0, <2>1, <2>2, <2>3, <2>5, OneRaceSteps
<1>3. ASSUME NEW i \in RaceIds, RaceEnds(i) \/ RaceCloses(i) PROVE SeatsKept
  <2>0. PICK ph \in {"finished", "closed"} :
          /\ race' = [race EXCEPT ![i].phase = ph]
          /\ race[i].phase = IF ph = "finished" THEN "open" ELSE "finished"
    BY <1>3 DEF RaceEnds, RaceCloses
  <2> DEFINE r == [race[i] EXCEPT !.phase = ph]
  <2>1. /\ r \in Race /\ r.match = race[i].match /\ r.phase = ph /\ r.members = race[i].members
        /\ race' = [race EXCEPT ![i] = r]
    BY <1>0, <2>0 DEF Race
  <2> HIDE DEF r
  <2>2. ASSUME race'[i] = r PROVE Seats(i)!Next
    <3>1. Seats(i)!End \/ Seats(i)!Close
      BY <2>0, <2>1, <2>2 DEF Seats!End, Seats!Close
    <3> QED BY <3>1 DEF Seats!Next
  <2> QED BY <1>0, <2>0, <2>1, <2>2, OneRaceSteps
<1>4. CASE UNCHANGED race
  BY <1>4 DEF SeatsKept, RaceIds
<1> QED BY <1>1, <1>2, <1>3, <1>4, RaceCases DEF RaceIsStep

(* The server keeps its contracts, for any number of races, tickets and    *)
(* players: a ticket is admitted once, and nobody is seated in a race that *)
(* is full or over, nor forgotten by one (handleJoin, Race.AddPlayer).     *)
THEOREM ContractsKept == Spec => KeepsContracts
<1>1. TypeOK /\ [Next]_vars => [GameTokens!Next]_GameTokens!vars
  BY TokensStep
<1>2. TypeOK /\ [Next]_vars => SeatsKept
  BY SeatsStep
<1> QED BY <1>1, <1>2, TokensInit, TypeCorrect, PTL DEF Spec, KeepsContracts, GameTokens!Spec
=============================================================================

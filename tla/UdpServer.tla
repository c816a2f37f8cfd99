----------------------------- MODULE UdpServer -----------------------------
(***************************************************************************)
(* The socket of the game server: its read loop and Close                  *)
(* (internal/networking/server.go), the framing of datagrams               *)
(* (internal/protoframing), what the dispatcher makes of a payload, the    *)
(* broadcaster of one race (internal/networking/broadcast.go), which       *)
(* writes to the same socket from a goroutine of its own, and at the other *)
(* end of the network the test client (cmd/udp-client).                    *)
(*                                                                         *)
(* The network is a set of datagrams on the way: a datagram may be lost,   *)
(* overtaken, and received any number of times.                            *)
(*                                                                         *)
(* Abstracted: what GameServer and RaceLoop model.  A join with a fresh    *)
(* token uses it up and is seated or refused; every player's match is that *)
(* of the one race; a snapshot is one of those that wait in SnapshotOut.   *)
(* A snapshot a driving client reads changes nothing, it may as well be    *)
(* lost.                                                                   *)
(***************************************************************************)
EXTENDS Naturals, FiniteSets

CONSTANTS
  Clients,    \* one player and one address each
  JoinBytes,  \* size of each client's JoinRaceRequest
  Buffer,     \* size of the server's read buffer
  MaxFrame,   \* largest payload a frame may hold
  OutCap,     \* capacity of SnapshotOut
  WayBound    \* bound: datagrams on the way to the server

ASSUME UdpAssumption ==
  /\ JoinBytes \in [Clients -> Nat \ {0}]
  /\ Buffer \in Nat /\ MaxFrame \in Nat \ {0}
  /\ OutCap \in Nat \ {0} /\ WayBound \in Nat

VARIABLES
  up,         \* the process is running
  cancelled,  \* the context of main has ended
  sock,       \* the socket is open
  serve,      \* the read loop, and the reply it is about to write
  closer,     \* the goroutine that calls Close; past "idle" done is closed
  toServer,   \* datagrams on the way to the server
  toClient,   \* datagrams on the way to a client
  fresh,      \* players whose token was not used
  seated,     \* players of the race, with a session and an address
  behind,     \* history: players whose race has not the last input received
  race,       \* the race: whether it is over, snapshots in SnapshotOut
  subs,       \* Subscriptions
  bcast,      \* Broadcaster.Run: where it is, whom it has still to write to
  client      \* the test client of each player

server == <<sock, serve, closer>>
net    == <<toServer, toClient>>
game   == <<fresh, seated, behind>>
cast   == <<race, subs, bcast>>
vars   == <<up, cancelled, server, net, game, cast, client>>

Inputs  == {"drive", "coast"}
Kinds   == Inputs \cup {"join", "ping"}
Replies == {"ok", "refused"}

TypeOK ==
  /\ up \in BOOLEAN /\ cancelled \in BOOLEAN
  /\ sock \in BOOLEAN
  /\ serve \in [pc : {"select", "read", "write", "returned"},
                to : SUBSET Clients, kind : Replies]
  /\ closer \in {"idle", "conn", "wait", "returned"}
  /\ toServer \subseteq [from : Clients, kind : Kinds]
  /\ toClient \subseteq [to : Clients, kind : Replies \cup {"snapshot"}]
  /\ fresh \subseteq Clients /\ seated \subseteq Clients \ fresh
  /\ behind \subseteq seated
  /\ race \in [over : BOOLEAN, out : 0..OutCap]
  /\ subs \subseteq Clients
  /\ bcast \in [pc : {"select", "publish", "returned"}, todo : SUBSET Clients]
  /\ client \in [Clients -> {"new", "pinging", "joining", "driving", "gone"}]

Loop(label) == [pc |-> label, to |-> {}, kind |-> "ok"]

Init ==
  /\ up = TRUE /\ cancelled = FALSE
  /\ sock = TRUE /\ serve = Loop("select") /\ closer = "idle"
  /\ toServer = {} /\ toClient = {}
  /\ fresh = Clients /\ seated = {} /\ behind = {}
  /\ race = [over |-> FALSE, out |-> 0] /\ subs = {}
  /\ bcast = [pc |-> "select", todo |-> {}]
  /\ client = [c \in Clients |-> "new"]

-----------------------------------------------------------------------------
(* Framing.                                                                *)

HeaderSize == 4

(* A frame: the length its header declares and all of its bytes.  PING is  *)
(* no frame: its four letters are a length beyond every limit.             *)
Encode(size) == [declared |-> size, bytes |-> HeaderSize + size]

Frame(d) ==
  CASE d.kind = "join" -> Encode(JoinBytes[d.from])
    [] d.kind = "ping" -> [declared |-> MaxFrame + 1, bytes |-> HeaderSize]
    [] OTHER           -> Encode(8)

(* What is beyond the read buffer is cut off, what follows the frame is    *)
(* dropped.                                                                *)
Read(f) == IF f.bytes > Buffer THEN Buffer ELSE f.bytes

Decodes(f) ==
  /\ Read(f) >= HeaderSize
  /\ f.declared <= MaxFrame
  /\ Read(f) >= HeaderSize + f.declared

-----------------------------------------------------------------------------
(* Serve.                                                                  *)

(* Every round begins with the context and done.  The mutant asks them     *)
(* only when a read has timed out.                                         *)
NextRoundMutant == "read"
NextRound == "select"

Select ==
  /\ up /\ serve.pc = "select"
  /\ serve' = Loop(IF cancelled \/ closer # "idle" THEN "returned" ELSE "read")
  /\ UNCHANGED <<up, cancelled, sock, closer, net, game, cast, client>>

ReadTimesOut ==
  /\ up /\ serve.pc = "read" /\ sock
  /\ serve' = Loop("select")
  /\ UNCHANGED <<up, cancelled, sock, closer, net, game, cast, client>>

ReadClosed ==
  /\ up /\ serve.pc = "read" /\ ~sock
  /\ serve' = Loop("returned")
  /\ UNCHANGED <<up, cancelled, sock, closer, net, game, cast, client>>

(* A datagram is read, with or without another copy on the way.            *)
Receive(d) ==
  /\ up /\ serve.pc = "read" /\ sock /\ d \in toServer
  /\ toServer' \in {toServer, toServer \ {d}}
  /\ UNCHANGED <<up, cancelled, sock, closer, toClient, cast, client>>

(* Handle: a payload is a join, an input or nothing, by the fields it sets *)
(* to something else than their default; an input without throttle, brake  *)
(* and steering is nothing.                                                *)
IsInput(d) == d.kind = "drive"

Ignored(d) == ~Decodes(Frame(d)) \/ (d.kind # "join" /\ ~IsInput(d))

Drop(d) ==
  /\ Receive(d) /\ Ignored(d)
  /\ serve' = Loop(NextRound)
  /\ behind' = IF d.kind \in Inputs /\ d.from \in seated /\ ~race.over
               THEN behind \cup {d.from} ELSE behind
  /\ UNCHANGED <<fresh, seated>>

(* handleInput, which is silent about an input it has no race for.         *)
Drive(d) ==
  /\ Receive(d) /\ ~Ignored(d) /\ d.kind # "join"
  /\ serve' = Loop(NextRound)
  /\ behind' = IF d.from \in seated /\ ~race.over THEN behind \ {d.from} ELSE behind
  /\ UNCHANGED <<fresh, seated>>

Reply(c, kind) == [pc |-> "write", to |-> {c}, kind |-> kind]

(* handleJoin: a token that was used is refused; one that was not is used  *)
(* up whether or not there is a seat.  The mutant leaves it unused.        *)
ConsumedMutant(c) == fresh
Consumed(c) == fresh \ {c}

JoinRefused(d) ==
  /\ Receive(d) /\ ~Ignored(d) /\ d.kind = "join" /\ d.from \notin fresh
  /\ serve' = Reply(d.from, "refused")
  /\ UNCHANGED game

JoinNoSeat(d) ==
  /\ Receive(d) /\ ~Ignored(d) /\ d.kind = "join" /\ d.from \in fresh
  /\ fresh' = Consumed(d.from)
  /\ serve' = Reply(d.from, "refused")
  /\ UNCHANGED <<seated, behind>>

JoinSeated(d) ==
  /\ Receive(d) /\ ~Ignored(d) /\ d.kind = "join" /\ d.from \in fresh /\ ~race.over
  /\ fresh' = Consumed(d.from)
  /\ seated' = seated \cup {d.from}
  /\ serve' = Reply(d.from, "ok")
  /\ UNCHANGED behind

(* A write to a closed socket fails.                                       *)
WrittenTo(cs, kind) == IF sock THEN toClient \cup [to : cs, kind : {kind}] ELSE toClient

Write ==
  /\ up /\ serve.pc = "write"
  /\ serve' = Loop(NextRound)
  /\ toClient' = WrittenTo(serve.to, serve.kind)
  /\ UNCHANGED <<up, cancelled, sock, closer, toServer, game, cast, client>>

Serve ==
  \/ Select \/ ReadTimesOut \/ ReadClosed \/ Write
  \/ \E d \in toServer :
       Drop(d) \/ Drive(d) \/ JoinRefused(d) \/ JoinNoSeat(d) \/ JoinSeated(d)

-----------------------------------------------------------------------------
(* Close, by main after Serve has returned or by anybody before.  A second *)
(* call finds everything closed and waits like the first.                  *)

CloseDone ==
  /\ up /\ closer = "idle"
  /\ closer' = "conn"
  /\ UNCHANGED <<up, cancelled, sock, serve, net, game, cast, client>>

(* The mutant leaves the socket to the read loop.                          *)
ConnClosedMutant == sock
ConnClosed == FALSE

CloseConn ==
  /\ up /\ closer = "conn"
  /\ sock' = ConnClosed /\ closer' = "wait"
  /\ UNCHANGED <<up, cancelled, serve, net, game, cast, client>>

CloseReturns ==
  /\ up /\ closer = "wait" /\ serve.pc = "returned"
  /\ closer' = "returned"
  /\ UNCHANGED <<up, cancelled, sock, serve, net, game, cast, client>>

Cancel ==
  /\ up /\ ~cancelled
  /\ cancelled' = TRUE
  /\ UNCHANGED <<up, server, net, game, cast, client>>

(* main returns, and does not wait for the broadcasters; the race is gone  *)
(* with the process.                                                       *)
Exit ==
  /\ up /\ closer = "returned"
  /\ up' = FALSE
  /\ race' = [over |-> TRUE, out |-> 0] /\ subs' = {}
  /\ bcast' = [pc |-> "returned", todo |-> {}]
  /\ UNCHANGED <<cancelled, server, net, game, client>>

-----------------------------------------------------------------------------
(* The race, its broadcaster and the goroutine that follows the sessions.  *)

Live == up /\ ~race.over

Snapshot ==
  /\ Live
  /\ race' = [race EXCEPT !.out = IF @ < OutCap THEN @ + 1 ELSE @]
  /\ UNCHANGED <<up, cancelled, server, net, game, subs, bcast, client>>

RaceEnds ==
  /\ Live
  /\ race' = [race EXCEPT !.over = TRUE]
  /\ UNCHANGED <<up, cancelled, server, net, game, subs, bcast, client>>

(* The mutant subscribes whoever has joined, with or without a seat.       *)
RacePlayersMutant == Clients \ fresh
RacePlayers == seated

Follow ==
  /\ Live /\ ~cancelled
  /\ subs' = subs \cup RacePlayers
  /\ UNCHANGED <<up, cancelled, server, net, game, race, bcast, client>>

(* Run: when several of its cases are ready it takes any of them.          *)
Take ==
  /\ up /\ bcast.pc = "select" /\ race.out > 0
  /\ race' = [race EXCEPT !.out = @ - 1]
  /\ bcast' = [pc |-> "publish", todo |-> subs]
  /\ UNCHANGED <<up, cancelled, server, net, game, subs, client>>

StopCast ==
  /\ up /\ bcast.pc = "select" /\ (cancelled \/ race.over)
  /\ bcast' = [pc |-> "returned", todo |-> {}]
  /\ UNCHANGED <<up, cancelled, server, net, game, race, subs, client>>

PublishTo(c) ==
  /\ up /\ bcast.pc = "publish" /\ c \in bcast.todo
  /\ toClient' = WrittenTo({c}, "snapshot")
  /\ bcast' = [bcast EXCEPT !.todo = @ \ {c}]
  /\ UNCHANGED <<up, cancelled, server, toServer, game, race, subs, client>>

Published ==
  /\ up /\ bcast.pc = "publish" /\ bcast.todo = {}
  /\ bcast' = [bcast EXCEPT !.pc = "select"]
  /\ UNCHANGED <<up, cancelled, server, net, game, race, subs, client>>

Broadcast ==
  Snapshot \/ RaceEnds \/ Follow \/ Take \/ StopCast \/ Published \/ \E c \in Clients : PublishTo(c)

-----------------------------------------------------------------------------
(* The network and the clients.  Clients go on when the server is gone.    *)

Lost ==
  /\ \/ \E d \in toServer : toServer' = toServer \ {d} /\ UNCHANGED toClient
     \/ \E m \in toClient : toClient' = toClient \ {m} /\ UNCHANGED toServer
  /\ UNCHANGED <<up, cancelled, server, game, cast, client>>

Send(c, from, to, kind) ==
  /\ client[c] = from /\ Cardinality(toServer) < WayBound
  /\ client' = [client EXCEPT ![c] = to]
  /\ toServer' = toServer \cup {[from |-> c, kind |-> kind]}
  /\ UNCHANGED <<up, cancelled, server, toClient, game, cast>>

SendPing(c)  == Send(c, "new", "pinging", "ping")
SendJoin(c)  == Send(c, "new", "joining", "join")
SendInput(c) == \E kind \in Inputs : Send(c, "driving", "driving", kind)

Becomes(c, from, to) ==
  /\ client[c] = from
  /\ client' = [client EXCEPT ![c] = to]
  /\ UNCHANGED <<up, cancelled, server, toServer, game, cast>>

(* The first datagram is taken for the reply.  A snapshot may not parse as *)
(* one; when it does, its tick is read as ok.                              *)
ReadReply(c, m) ==
  /\ m \in toClient /\ m.to = c
  /\ toClient' \in {toClient, toClient \ {m}}
  /\ \/ m.kind \in {"ok", "snapshot"} /\ Becomes(c, "joining", "driving")
     \/ m.kind \in {"refused", "snapshot"} /\ Becomes(c, "joining", "gone")

(* A deadline, or the time to drive, is over.  Nobody waits for ever for a *)
(* reply but the player mode, which sets no deadline.                      *)
Leave(c) ==
  /\ \E from \in {"pinging", "joining", "driving"} : Becomes(c, from, "gone")
  /\ UNCHANGED toClient

Client(c) ==
  SendPing(c) \/ SendJoin(c) \/ SendInput(c) \/ Leave(c) \/ \E m \in toClient : ReadReply(c, m)

-----------------------------------------------------------------------------
Next ==
  \/ Serve \/ CloseDone \/ CloseConn \/ CloseReturns \/ Cancel \/ Exit
  \/ Broadcast \/ Lost \/ \E c \in Clients : Client(c)

Spec == Init /\ [][Next]_vars

(* Fairness.  The read loop runs: a read returns after 500 ms at the       *)
(* latest.  main calls Close when Serve has returned, and exits.           *)
FairSpec ==
  /\ Spec
  /\ WF_vars(Serve)
  /\ WF_vars(CloseDone /\ serve.pc = "returned") /\ WF_vars(CloseConn)
  /\ WF_vars(CloseReturns) /\ WF_vars(Exit)

-----------------------------------------------------------------------------
(* Safety.                                                                 *)

(* A client drives only if it has a seat: replies may be late, doubled or  *)
(* overtaken by a snapshot that is taken for the reply, but snapshots are  *)
(* only sent to seated players (sendJoin, Handle, followSubscriptions).    *)
JoinedIsSeated == \A c \in Clients : client[c] = "driving" => c \in seated

(* When a call of Close has returned, no datagram leaves any more, though  *)
(* broadcasters are still running (Close).                                 *)
NothingAfterClose == [][closer = "returned" => toClient' \subseteq toClient]_vars

-----------------------------------------------------------------------------
(* Liveness, under FairSpec.                                               *)

(* The server stops when its context ends, even when datagrams never stop  *)
(* arriving and no read times out (Serve).                                 *)
ServerStops == cancelled ~> ~up

-----------------------------------------------------------------------------
(* What the documents say and the code does not do.                        *)

(* specs/20_race_loop_DONE.md: a PlayerInput of a registered player is     *)
(* enqueued into its race.  One that lets go of everything is not, so the  *)
(* race goes on with the input before it.                                  *)
InputsAreQueued == behind = {}
=============================================================================

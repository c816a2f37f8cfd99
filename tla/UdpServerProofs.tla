-------------------------- MODULE UdpServerProofs --------------------------
(***************************************************************************)
(* Theorems about UdpServer, for any number of clients, any sizes of       *)
(* joins and buffers, and any number of datagrams on the way.              *)
(***************************************************************************)
EXTENDS UdpServer, TLAPS

LEMMA NetworkType ==
  ASSUME TypeOK, NEW cs \in SUBSET Clients, NEW kind \in Replies \cup {"snapshot"}
  PROVE  WrittenTo(cs, kind) \subseteq [to : Clients, kind : Replies \cup {"snapshot"}]
BY DEF TypeOK, WrittenTo

LEMMA InitType == Init => TypeOK
<1> SUFFICES ASSUME Init PROVE TypeOK
  OBVIOUS
<1>1. race \in [over : BOOLEAN, out : 0..OutCap]
  BY UdpAssumption DEF Init
<1>2. serve \in [pc : {"select", "read", "write", "returned"},
                 to : SUBSET Clients, kind : Replies]
  BY DEF Init, Loop, Replies
<1>3. client \in [Clients -> {"new", "pinging", "joining", "driving", "gone"}]
  BY DEF Init
<1> QED BY <1>1, <1>2, <1>3 DEF Init, TypeOK

(* A step of the read loop that handles no datagram.                       *)
LEMMA LoopType ==
  ASSUME TypeOK, Select \/ ReadTimesOut \/ ReadClosed \/ Write
  PROVE  TypeOK'
<1>1. CASE Select
  BY <1>1 DEF Select, Loop, TypeOK, Replies, net, game, cast
<1>2. CASE ReadTimesOut
  BY <1>2 DEF ReadTimesOut, Loop, TypeOK, Replies, net, game, cast
<1>3. CASE ReadClosed
  BY <1>3 DEF ReadClosed, Loop, TypeOK, Replies, net, game, cast
<1>4. CASE Write
  <2>1. WrittenTo(serve.to, serve.kind) \subseteq [to : Clients, kind : Replies \cup {"snapshot"}]
    BY NetworkType DEF TypeOK
  <2> QED BY <1>4, <2>1 DEF Write, Loop, NextRound, TypeOK, Replies, game, cast
<1> QED BY <1>1, <1>2, <1>3, <1>4

(* A datagram is handled.                                                  *)
LEMMA DatagramType ==
  ASSUME TypeOK, NEW d \in toServer,
         Drop(d) \/ Drive(d) \/ JoinRefused(d) \/ JoinNoSeat(d) \/ JoinSeated(d)
  PROVE  TypeOK'
<1>0. d.from \in Clients /\ Receive(d)
  BY DEF TypeOK, Drop, Drive, JoinRefused, JoinNoSeat, JoinSeated
<1>1. /\ toServer' \subseteq toServer
      /\ UNCHANGED <<up, cancelled, sock, closer, toClient, race, subs, bcast, client>>
  BY <1>0 DEF Receive, cast
<1>2. serve' \in [pc : {"select", "read", "write", "returned"},
                  to : SUBSET Clients, kind : Replies]
  BY <1>0 DEF Drop, Drive, JoinRefused, JoinNoSeat, JoinSeated, Loop, Reply, NextRound, Replies
<1>3. /\ fresh' \subseteq Clients /\ seated' \subseteq Clients \ fresh'
      /\ behind' \subseteq seated'
  <2>1. CASE Drop(d)
    BY <1>0, <2>1 DEF Drop, TypeOK
  <2>2. CASE Drive(d)
    BY <1>0, <2>2 DEF Drive, TypeOK
  <2>3. CASE JoinRefused(d)
    BY <1>0, <2>3 DEF JoinRefused, TypeOK, game
  <2>4. CASE JoinNoSeat(d) \/ JoinSeated(d)
    BY <1>0, <2>4 DEF JoinNoSeat, JoinSeated, Consumed, TypeOK
  <2> QED BY <2>1, <2>2, <2>3, <2>4
<1> QED BY <1>1, <1>2, <1>3 DEF TypeOK

LEMMA EndType ==
  ASSUME TypeOK, CloseDone \/ CloseConn \/ CloseReturns \/ Cancel \/ Exit
  PROVE  TypeOK'
<1>1. CASE CloseDone \/ CloseConn \/ CloseReturns
  BY <1>1 DEF CloseDone, CloseConn, CloseReturns, ConnClosed, TypeOK, net, game, cast
<1>2. CASE Cancel
  BY <1>2 DEF Cancel, TypeOK, server, net, game, cast
<1>3. CASE Exit
  <2>1. race' \in [over : BOOLEAN, out : 0..OutCap]
    BY <1>3, UdpAssumption DEF Exit
  <2>2. bcast' \in [pc : {"select", "publish", "returned"}, todo : SUBSET Clients]
    BY <1>3 DEF Exit
  <2> QED BY <1>3, <2>1, <2>2 DEF Exit, TypeOK, server, net, game
<1> QED BY <1>1, <1>2, <1>3

LEMMA RaceType ==
  ASSUME TypeOK, Snapshot \/ RaceEnds \/ Take
  PROVE  race' \in [over : BOOLEAN, out : 0..OutCap]
<1>0. race \in [over : BOOLEAN, out : 0..OutCap] /\ OutCap \in Nat
  BY UdpAssumption DEF TypeOK
<1>1. CASE Snapshot
  <2>1. PICK n \in 0..OutCap : race' = [race EXCEPT !.out = n]
    BY <1>0, <1>1 DEF Snapshot
  <2> QED BY <1>0, <2>1
<1>2. CASE RaceEnds
  BY <1>0, <1>2 DEF RaceEnds
<1>3. CASE Take
  <2>1. race.out - 1 \in 0..OutCap
    BY <1>0, <1>3 DEF Take
  <2>2. race' = [race EXCEPT !.out = race.out - 1]
    BY <1>3 DEF Take
  <2> QED BY <1>0, <2>1, <2>2
<1> QED BY <1>1, <1>2, <1>3

LEMMA BroadcastType ==
  ASSUME TypeOK, Broadcast
  PROVE  TypeOK'
<1>1. CASE Snapshot \/ RaceEnds
  <2>1. race' \in [over : BOOLEAN, out : 0..OutCap]
    BY <1>1, RaceType
  <2> QED BY <1>1, <2>1 DEF Snapshot, RaceEnds, TypeOK, server, net, game
<1>2. CASE Take
  <2>1. race' \in [over : BOOLEAN, out : 0..OutCap]
    BY <1>2, RaceType
  <2> QED BY <1>2, <2>1 DEF Take, TypeOK, server, net, game
<1>3. CASE Follow
  BY <1>3 DEF Follow, RacePlayers, TypeOK, server, net, game
<1>4. CASE StopCast \/ Published
  BY <1>4 DEF StopCast, Published, TypeOK, server, net, game
<1>5. ASSUME NEW c \in Clients, PublishTo(c) PROVE TypeOK'
  <2>1. WrittenTo({c}, "snapshot") \subseteq [to : Clients, kind : Replies \cup {"snapshot"}]
    BY NetworkType
  <2>2. bcast' \in [pc : {"select", "publish", "returned"}, todo : SUBSET Clients]
    BY <1>5 DEF PublishTo, TypeOK
  <2> QED BY <1>5, <2>1, <2>2 DEF PublishTo, TypeOK, server, game
<1> QED BY <1>1, <1>2, <1>3, <1>4, <1>5 DEF Broadcast

LEMMA OutsideType ==
  ASSUME TypeOK, Lost \/ \E c \in Clients : Client(c)
  PROVE  TypeOK'
<1>1. CASE Lost
  BY <1>1 DEF Lost, TypeOK, server, game, cast
<1>2. ASSUME NEW c \in Clients, SendPing(c) \/ SendJoin(c) \/ SendInput(c) PROVE TypeOK'
  <2>1. PICK from \in {"new", "driving"}, to \in {"pinging", "joining", "driving"}, kind \in Kinds :
          Send(c, from, to, kind)
    BY <1>2 DEF SendPing, SendJoin, SendInput, Kinds, Inputs
  <2> QED BY <2>1 DEF Send, TypeOK, server, game, cast
<1>3. ASSUME NEW c \in Clients, Leave(c) PROVE TypeOK'
  BY <1>3 DEF Leave, Becomes, TypeOK, server, game, cast
<1>4. ASSUME NEW c \in Clients, NEW m \in toClient, ReadReply(c, m) PROVE TypeOK'
  BY <1>4 DEF ReadReply, Becomes, TypeOK, server, game, cast
<1> QED BY <1>1, <1>2, <1>3, <1>4 DEF Client

LEMMA StepType == TypeOK /\ [Next]_vars => TypeOK'
<1> SUFFICES ASSUME TypeOK, [Next]_vars PROVE TypeOK'
  OBVIOUS
<1>1. CASE Serve
  BY <1>1, LoopType, DatagramType DEF Serve
<1>2. CASE CloseDone \/ CloseConn \/ CloseReturns \/ Cancel \/ Exit
  BY <1>2, EndType
<1>3. CASE Broadcast
  BY <1>3, BroadcastType
<1>4. CASE Lost \/ \E c \in Clients : Client(c)
  BY <1>4, OutsideType
<1>5. CASE UNCHANGED vars
  BY <1>5 DEF TypeOK, vars, server, net, game, cast
<1> QED BY <1>1, <1>2, <1>3, <1>4, <1>5 DEF Next

(* Every variable keeps its type: a seat is only given for a token that    *)
(* was used up, and SnapshotOut never holds more than it can (handleJoin,  *)
(* Broadcaster.Run).                                                       *)
THEOREM TypeCorrect == Spec => []TypeOK
<1>1. QED BY InitType, StepType, PTL DEF Spec
-----------------------------------------------------------------------------
(* Who is on the way to a seat: an answer ok, and a snapshot, only ever    *)
(* go to a seated player, from the moment one is decided on to the moment  *)
(* it is read.  Seats are never given up, so this stays true however late  *)
(* a datagram arrives.                                                     *)
SeatInv ==
  /\ serve.kind = "ok" => serve.to \subseteq seated
  /\ subs \subseteq seated
  /\ bcast.todo \subseteq seated
  /\ \A m \in toClient : m.kind \in {"ok", "snapshot"} => m.to \in seated
  /\ JoinedIsSeated

LEMMA SeatsStay == ASSUME [Next]_vars PROVE seated \subseteq seated'
<1>1. CASE Serve
  BY <1>1 DEF Serve, Select, ReadTimesOut, ReadClosed, Write, Drop, Drive, JoinRefused,
              JoinNoSeat, JoinSeated, game
<1>2. CASE CloseDone \/ CloseConn \/ CloseReturns \/ Cancel \/ Exit
  BY <1>2 DEF CloseDone, CloseConn, CloseReturns, Cancel, Exit, game
<1>3. CASE Broadcast
  BY <1>3 DEF Broadcast, Snapshot, RaceEnds, Follow, Take, StopCast, Published, PublishTo, game
<1>4. CASE Lost \/ \E c \in Clients : Client(c)
  BY <1>4 DEF Lost, Client, SendPing, SendJoin, SendInput, Send, Leave, ReadReply, Becomes, game
<1>5. CASE UNCHANGED vars
  BY <1>5 DEF vars, game
<1> QED BY <1>1, <1>2, <1>3, <1>4, <1>5 DEF Next

(* What the read loop is about to answer.                                  *)
LEMMA AnswerSeated ==
  ASSUME TypeOK, SeatInv, Serve
  PROVE  /\ serve'.kind = "ok" => serve'.to \subseteq seated'
         /\ UNCHANGED <<subs, bcast, client>>
<1>1. CASE Select \/ ReadTimesOut \/ ReadClosed \/ Write
  BY <1>1 DEF Select, ReadTimesOut, ReadClosed, Write, Loop, cast
<1>2. ASSUME NEW d \in toServer, Drop(d) \/ Drive(d)
      PROVE  serve'.to = {} /\ UNCHANGED <<subs, bcast, client>>
  BY <1>2 DEF Drop, Drive, Receive, Loop, cast
<1>3. ASSUME NEW d \in toServer, JoinRefused(d) \/ JoinNoSeat(d)
      PROVE  serve'.kind = "refused" /\ UNCHANGED <<subs, bcast, client>>
  BY <1>3 DEF JoinRefused, JoinNoSeat, Receive, Reply, cast
<1>4. ASSUME NEW d \in toServer, JoinSeated(d)
      PROVE  serve'.to \subseteq seated' /\ UNCHANGED <<subs, bcast, client>>
  BY <1>4 DEF JoinSeated, Receive, Reply, cast
<1> QED BY <1>1, <1>2, <1>3, <1>4 DEF Serve

LEMMA StepSeats == TypeOK /\ SeatInv /\ [Next]_vars => SeatInv'
<1> SUFFICES ASSUME TypeOK, SeatInv, [Next]_vars PROVE SeatInv'
  OBVIOUS
<1>0. seated \subseteq seated'
  BY SeatsStay
<1>1. CASE Serve
  <2>1. (serve'.kind = "ok" => serve'.to \subseteq seated') /\ UNCHANGED <<subs, bcast, client>>
    BY <1>1, AnswerSeated
  <2>2. ASSUME NEW m \in toClient', m.kind \in {"ok", "snapshot"} PROVE m.to \in seated'
    <3>1. CASE m \in toClient
      BY <1>0, <2>2, <3>1 DEF SeatInv
    <3>2. CASE m \notin toClient
      <4>1. Write
        BY <1>1, <2>2, <3>2 DEF Serve, Select, ReadTimesOut, ReadClosed, Drop, Drive,
           JoinRefused, JoinNoSeat, JoinSeated, Receive, net
      <4>2. m \in [to : serve.to, kind : {serve.kind}]
        BY <2>2, <3>2, <4>1 DEF Write, WrittenTo
      <4>3. serve.kind = "ok"
        BY <2>2, <4>2 DEF TypeOK, Replies
      <4> QED BY <1>0, <4>2, <4>3 DEF SeatInv
    <3> QED BY <3>1, <3>2
  <2> QED BY <1>0, <2>1, <2>2 DEF SeatInv, JoinedIsSeated
<1>2. CASE CloseDone \/ CloseConn \/ CloseReturns \/ Cancel \/ Exit
  BY <1>0, <1>2 DEF CloseDone, CloseConn, CloseReturns, Cancel, Exit, SeatInv, JoinedIsSeated,
                    server, net, game, cast
<1>3. CASE Broadcast
  <2>1. CASE Snapshot \/ RaceEnds \/ Follow \/ Take \/ StopCast \/ Published
    <3>1. UNCHANGED <<serve, toClient, client>>
      BY <2>1 DEF Snapshot, RaceEnds, Follow, Take, StopCast, Published, server, net
    <3>2. subs' \subseteq seated'
      BY <1>0, <2>1 DEF Snapshot, RaceEnds, Follow, Take, StopCast, Published, RacePlayers, SeatInv
    <3>3. bcast'.todo \subseteq seated'
      <4>1. CASE Snapshot \/ RaceEnds \/ Follow
        BY <1>0, <4>1 DEF Snapshot, RaceEnds, Follow, SeatInv
      <4>2. CASE Take \/ StopCast \/ Published
        BY <1>0, <4>2 DEF Take, StopCast, Published, SeatInv, TypeOK
      <4> QED BY <2>1, <4>1, <4>2
    <3> QED BY <1>0, <3>1, <3>2, <3>3 DEF SeatInv, JoinedIsSeated
  <2>2. ASSUME NEW c \in Clients, PublishTo(c) PROVE SeatInv'
    <3>1. c \in seated /\ bcast'.todo \subseteq bcast.todo
      BY <2>2 DEF PublishTo, SeatInv, TypeOK
    <3>2. \A m \in toClient' : m \in toClient \/ m.to = c
      BY <2>2 DEF PublishTo, WrittenTo
    <3> QED BY <1>0, <2>2, <3>1, <3>2 DEF PublishTo, SeatInv, JoinedIsSeated, server, game
  <2> QED BY <1>3, <2>1, <2>2 DEF Broadcast
<1>4. CASE Lost
  BY <1>0, <1>4 DEF Lost, SeatInv, JoinedIsSeated, server, game, cast
<1>5. ASSUME NEW c \in Clients, Client(c) PROVE SeatInv'
  <2>0. /\ toClient' \subseteq toClient
        /\ UNCHANGED <<serve, subs, bcast>>
    BY <1>5 DEF Client, SendPing, SendJoin, SendInput, Send, Leave, ReadReply, Becomes,
                server, cast
  <2>1. ASSUME NEW b \in Clients, client'[b] = "driving" PROVE b \in seated'
    <3>1. CASE client[b] = "driving"
      BY <1>0, <3>1 DEF SeatInv, JoinedIsSeated
    <3>2. CASE client[b] # "driving"
      <4>1. PICK m \in toClient : ReadReply(c, m)
        BY <1>5, <2>1, <3>2 DEF Client, SendPing, SendJoin, SendInput, Send, Leave, Becomes, TypeOK
      <4>2. b = c /\ m.kind \in {"ok", "snapshot"} /\ m.to = c
        BY <2>1, <3>2, <4>1 DEF ReadReply, Becomes, TypeOK
      <4> QED BY <1>0, <4>2 DEF SeatInv
    <3> QED BY <3>1, <3>2
  <2> QED BY <1>0, <2>0, <2>1 DEF SeatInv, JoinedIsSeated
<1>6. CASE UNCHANGED vars
  BY <1>6 DEF vars, SeatInv, JoinedIsSeated, server, net, game, cast
<1> QED BY <1>1, <1>2, <1>3, <1>4, <1>5, <1>6 DEF Next

(* A client drives only if it has a seat, whatever the network does to the *)
(* answer and though a snapshot may be taken for it (sendJoin,             *)
(* followSubscriptions).                                                   *)
THEOREM JoinedIsSeatedHolds == Spec => []JoinedIsSeated
<1>1. Init => SeatInv
  BY DEF Init, SeatInv, JoinedIsSeated, Loop
<1>2. SeatInv => JoinedIsSeated
  BY DEF SeatInv
<1> QED BY <1>1, <1>2, StepSeats, TypeCorrect, PTL DEF Spec

-----------------------------------------------------------------------------
(* Close has closed the socket before it waits, and it waits for the read  *)
(* loop; nothing opens a socket again.                                     *)
CloseInv ==
  /\ closer \in {"wait", "returned"} => ~sock
  /\ closer = "returned" => serve.pc = "returned"

LEMMA StepClose == CloseInv /\ [Next]_vars => CloseInv'
<1> SUFFICES ASSUME CloseInv, [Next]_vars PROVE CloseInv'
  OBVIOUS
<1>1. CASE Serve
  BY <1>1 DEF Serve, Select, ReadTimesOut, ReadClosed, Write, Drop, Drive, JoinRefused,
              JoinNoSeat, JoinSeated, Receive, Loop, Reply, CloseInv
<1>2. CASE CloseDone \/ CloseConn \/ CloseReturns \/ Cancel \/ Exit
  BY <1>2 DEF CloseDone, CloseConn, CloseReturns, ConnClosed, Cancel, Exit, server, CloseInv
<1>3. CASE Broadcast
  <2>1. UNCHANGED server
    BY <1>3 DEF Broadcast, Snapshot, RaceEnds, Follow, Take, StopCast, Published, PublishTo
  <2> QED BY <2>1 DEF server, CloseInv
<1>4. CASE Lost \/ \E c \in Clients : Client(c)
  BY <1>4 DEF Lost, Client, SendPing, SendJoin, SendInput, Send, Leave, ReadReply, Becomes, server,
              CloseInv
<1>5. CASE UNCHANGED vars
  BY <1>5 DEF vars, server, CloseInv
<1> QED BY <1>1, <1>2, <1>3, <1>4, <1>5 DEF Next

(* When Close has returned no datagram leaves any more, though the         *)
(* broadcasters are still running (Close).                                 *)
THEOREM NothingAfterCloseHolds == Spec => NothingAfterClose
<1>1. Init => CloseInv
  BY DEF Init, CloseInv
<1>2. CloseInv /\ [Next]_vars => [closer = "returned" => toClient' \subseteq toClient]_vars
  <2> SUFFICES ASSUME CloseInv, Next, closer = "returned" PROVE toClient' \subseteq toClient
    OBVIOUS
  <2>1. \A cs, kind : WrittenTo(cs, kind) = toClient
    BY DEF CloseInv, WrittenTo
  <2>2. CASE Serve
    BY <2>1, <2>2 DEF Serve, Select, ReadTimesOut, ReadClosed, Write, Drop, Drive, JoinRefused,
                      JoinNoSeat, JoinSeated, Receive, CloseInv
  <2>3. CASE CloseDone \/ CloseConn \/ CloseReturns \/ Cancel \/ Exit
    BY <2>3 DEF CloseDone, CloseConn, CloseReturns, Cancel, Exit, net
  <2>4. CASE Broadcast
    BY <2>1, <2>4 DEF Broadcast, Snapshot, RaceEnds, Follow, Take, StopCast, Published, PublishTo, net
  <2>5. CASE Lost \/ \E c \in Clients : Client(c)
    BY <2>5 DEF Lost, Client, SendPing, SendJoin, SendInput, Send, Leave, ReadReply, Becomes
  <2> QED BY <2>2, <2>3, <2>4, <2>5 DEF Next
<1> QED BY <1>1, <1>2, StepClose, PTL DEF Spec, NothingAfterClose
=============================================================================

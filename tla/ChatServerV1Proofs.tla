------------------------- MODULE ChatServerV1Proofs -------------------------
(***************************************************************************)
(* What the v1.0 chat guarantees for any number of slots and rooms.  The   *)
(* client and the server agree about the room because every packet says    *)
(* what the server will think once it has read it.  The packet thread may  *)
(* be late: what it looks at still tells where a packet is from when the   *)
(* sender has left the room, and whoever changes it for good leaves a      *)
(* packet behind the first.                                                *)
(***************************************************************************)
EXTENDS ChatServerV1, SequenceTheorems, TLAPS

\* Where the threads of a client program can be at the same time.
Shape(p) ==
  /\ p.main \in {"none", "nickname", "waiting"} => p.sender = "none" /\ p.recver = "none"
  /\ p.main \in {"lobby", "entering"} => p.sender = "asleep" /\ p.recver = "asleep"
  /\ p.main # "joining" => p.mRoom = LOBBY
  /\ p.sender \in {"leaving", "lobby", "entering"} => p.mRoom = LOBBY
  /\ p.sender = "typing" => p.mRoom # LOBBY
  /\ "entering" \in {p.main, p.sender} => p.roomNo \in Rooms

\* Nobody gives up while there is a connection.
Control(c) ==
  /\ Shape(client[c])
  /\ ~IsDown(c) => client[c].run /\ client[c].sender # "done"

\* Only while there is a connection is anything under way to the server.
Connection(c) ==
  /\ ~IsConnected(c) => toServer[c] = <<>>
  /\ link[c] = "away" => client[c] = Outside

\* Where the server has the user once it has read what is under way.
RoomAfter(c) ==
  IF toServer[c] = <<>> THEN user[c].room
  ELSE IF toServer[c][1].type \in {"SERVER_ENTER", "ROOM_EXIT"} THEN LOBBY
  ELSE IF toServer[c][1].type = "ROOM_ENTER" /\ user[c].room = LOBBY THEN toServer[c][1].arg
  ELSE user[c].room

Picked(c) ==
  IF "entering" \in {client[c].main, client[c].sender} THEN client[c].roomNo
  ELSE client[c].mRoom

Agree(c) ==
  /\ IsConnected(c) /\ client[c].main \notin {"none", "nickname"}
  /\ client[c].sender # "leaving"
  => RoomAfter(c) = Picked(c)

\* One packet of a client is under way to the worker at a time; and all but the
\* first two of a session are from a room.
Flight(c) ==
  /\ toServer[c] # <<>> =>
       /\ Len(toServer[c]) = 1
       /\ toServer[c][1].type = "ROOM_ENTER" =>
            user[c].room = LOBBY /\ toServer[c][1].arg \in Rooms
       /\ toServer[c][1].type \notin {"SERVER_ENTER", "ROOM_ENTER"} => user[c].room # LOBBY
  /\ IsConnected(c) /\ client[c].sender = "leaving" => Settled(c) /\ user[c].room # LOBBY

Inv ==
  /\ TypeOK
  /\ \A c \in Clients : Control(c) /\ Connection(c) /\ Agree(c) /\ Flight(c)
  /\ CastWhereSent

USE DEF IsConnected

-----------------------------------------------------------------------------
(* Types.                                                                   *)

LEMMA RoomsFact == LOBBY \notin Rooms /\ EveryRoom \notin Rooms \cup {LOBBY}
  BY RoomsAssumption DEF LOBBY, EveryRoom

\* A packet that has been sent is in the stream, or lost.
LEMMA SendType ==
  ASSUME TypeOK, NEW c \in Clients, NEW type \in Types, NEW arg \in Rooms \cup {LOBBY},
         Send(c, type, arg)
  PROVE  /\ link' \in [Clients -> LinkStates] /\ unread' \in [Clients -> BOOLEAN]
         /\ toServer' \in [Clients -> Seq(Messages)]
<1>1. [type |-> type, arg |-> arg] \in Messages
  BY DEF Messages
<1>2. toServer[c] \in Seq(Messages)
  BY DEF TypeOK
<1>3. Append(toServer[c], [type |-> type, arg |-> arg]) \in Seq(Messages)
  BY <1>1, <1>2
<1> QED  BY <1>3 DEF Send, TypeOK, LinkStates

LEMMA EndsType ==
  ASSUME TypeOK, NEW c \in Clients, Ends(c) \/ Disconnect(c) \/ Start(c), UNCHANGED serverVars
  PROVE  TypeOK'
<1> USE DEF TypeOK, serverVars, LinkStates
<1>1. Outside \in Programs /\ [Outside EXCEPT !.main = "nickname"] \in Programs
  BY DEF Outside, Programs, MainStates, SenderStates, RecverStates
<1>2. <<>> \in Seq(Messages)
  OBVIOUS
<1>3. CASE Ends(c)        BY <1>1, <1>2, <1>3 DEF Ends
<1>4. CASE Disconnect(c)  BY <1>2, <1>4 DEF Disconnect
<1>5. CASE Start(c)       BY <1>1, <1>5 DEF Start
<1> QED  BY <1>3, <1>4, <1>5

\* A step in which the program goes on and the rest is typed.
LEMMA ContinuesType ==
  ASSUME TypeOK, NEW c \in Clients, NEW program \in Programs, Continues(c, program),
         UNCHANGED serverVars, link' \in [Clients -> LinkStates],
         unread' \in [Clients -> BOOLEAN], toServer' \in [Clients -> Seq(Messages)]
  PROVE  TypeOK'
BY DEF TypeOK, Continues, serverVars

\* The programs the steps of its threads make of a program.
LEMMA ProgramType ==
  ASSUME NEW p \in Programs, NEW r \in Rooms \cup {LOBBY}
  PROVE  /\ \A m \in MainStates : [p EXCEPT !.main = m] \in Programs
         /\ \A m \in MainStates : [p EXCEPT !.main = m, !.roomNo = r] \in Programs
         /\ \A m \in MainStates : [p EXCEPT !.main = m, !.mRoom = p.roomNo, !.roomNo = LOBBY] \in Programs
         /\ [p EXCEPT !.main = "lobby", !.sender = "asleep", !.recver = "asleep"] \in Programs
         /\ \A m \in SenderStates : [p EXCEPT !.sender = m] \in Programs
         /\ \A m \in SenderStates : [p EXCEPT !.sender = m, !.roomNo = r] \in Programs
         /\ \A m \in SenderStates : [p EXCEPT !.sender = m, !.mRoom = p.roomNo, !.roomNo = LOBBY] \in Programs
         /\ \A m \in SenderStates : [p EXCEPT !.sender = m, !.run = FALSE] \in Programs
         /\ [p EXCEPT !.sender = "leaving", !.mRoom = LOBBY] \in Programs
         /\ [p EXCEPT !.quit = TRUE] \in Programs
         /\ \A m \in RecverStates : [p EXCEPT !.recver = m] \in Programs
         /\ \A m \in RecverStates : [p EXCEPT !.recver = m, !.run = FALSE] \in Programs
BY DEF Programs, MainStates, SenderStates, RecverStates

LEMMA UserType ==
  ASSUME TypeOK, NEW c \in Clients, UserActs(c), UNCHANGED serverVars
  PROVE  TypeOK'
<1> USE DEF MainStates, SenderStates, RecverStates, Types
<1>0. client[c] \in Programs /\ LOBBY \in Rooms \cup {LOBBY}
  BY DEF TypeOK
<1>1. CASE SetNickname(c)
  <2>1. CASE Send(c, "SERVER_ENTER", 0) /\ Continues(c, [client[c] EXCEPT !.main = "waiting"])
    BY <1>0, <2>1, ProgramType, SendType, ContinuesType DEF LOBBY
  <2>2. CASE Ends(c)
    BY <2>2, EndsType
  <2> QED  BY <1>1, <2>1, <2>2 DEF SetNickname
<1>2. ASSUME NEW r \in Rooms, Send(c, "ROOM_ENTER", r),
             \/ Continues(c, [client[c] EXCEPT !["main"] = "entering", !.roomNo = r])
             \/ Continues(c, [client[c] EXCEPT !["sender"] = "entering", !.roomNo = r])
      PROVE  TypeOK'
  BY <1>0, <1>2, ProgramType, SendType, ContinuesType
<1>3. CASE Lobby(c, "main")
  <2>1. CASE Ends(c)
    BY <2>1, EndsType
  <2> QED  BY <1>2, <1>3, <2>1 DEF Lobby
<1>4. CASE Lobby(c, "sender")
  <2>1. CASE SendFails(c) /\ Continues(c, [client[c] EXCEPT !.sender = "done", !.run = FALSE])
    BY <1>0, <2>1, ProgramType, ContinuesType DEF SendFails, TypeOK
  <2> QED  BY <1>2, <1>4, <2>1 DEF Lobby
<1>5. CASE Talk(c)
  BY <1>0, <1>5, SendType, ContinuesType DEF Talk, LOBBY
<1>6. CASE TypeLine(c)
  <2>1. CASE /\ Continues(c, [client[c] EXCEPT !.sender = "done"])
             /\ UNCHANGED <<link, unread, toServer>>
    BY <1>0, <2>1, ProgramType, ContinuesType DEF TypeOK
  <2>2. CASE Send(c, "SERVER_EXIT", 0) /\ Continues(c, [client[c] EXCEPT !.quit = TRUE])
    BY <1>0, <2>2, ProgramType, SendType, ContinuesType DEF LOBBY
  <2>3. CASE /\ Continues(c, [client[c] EXCEPT !.sender = "leaving", !.mRoom = LOBBY])
             /\ UNCHANGED <<link, unread, toServer>>
    BY <1>0, <2>3, ProgramType, ContinuesType DEF TypeOK
  <2>4. CASE GivesUp(c)
    BY <1>0, <2>4, ProgramType, ContinuesType DEF GivesUp, SendFails, TypeOK
  <2> QED  BY <1>6, <2>1, <2>2, <2>3, <2>4 DEF TypeLine
<1> QED  BY <1>1, <1>3, <1>4, <1>5, <1>6 DEF UserActs

LEMMA ThreadsType ==
  ASSUME TypeOK, NEW c \in Clients, MainThread(c) \/ SendThread(c) \/ RecvThread(c),
         UNCHANGED serverVars
  PROVE  TypeOK'
<1> USE DEF MainStates, SenderStates, RecverStates, Types
<1>0. client[c] \in Programs /\ LOBBY \in Rooms \cup {LOBBY}
  BY DEF TypeOK
<1>1. ASSUME Recv(c) \/ RecvFails(c)
      PROVE  /\ link' \in [Clients -> LinkStates] /\ unread' \in [Clients -> BOOLEAN]
             /\ toServer' \in [Clients -> Seq(Messages)]
  BY <1>1 DEF Recv, RecvFails, TypeOK
<1>2. CASE NicknameCheck(c)
  <2>1. CASE /\ Recv(c)
             /\ Continues(c, [client[c] EXCEPT !.main = "lobby", !.sender = "asleep",
                                               !.recver = "asleep"])
    BY <1>0, <1>1, <2>1, ProgramType, ContinuesType
  <2>2. CASE Ends(c)
    BY <2>2, EndsType
  <2> QED  BY <1>2, <2>1, <2>2 DEF NicknameCheck
<1>3. CASE EnterRoom(c, "main") \/ EnterRoom(c, "sender")
  BY <1>0, <1>3, ProgramType, ContinuesType DEF EnterRoom, TypeOK
<1>4. CASE JoinThreads(c)
  BY <1>4, EndsType DEF JoinThreads
<1>5. CASE Wake(c, "sender", "typing") \/ Wake(c, "recver", "receiving")
  BY <1>0, <1>5, ProgramType, ContinuesType DEF Wake, TypeOK
<1>6. CASE LeaveRoom(c)
  <2>1. CASE Send(c, "ROOM_EXIT", 0) /\ Continues(c, [client[c] EXCEPT !.sender = "lobby"])
    BY <1>0, <2>1, ProgramType, SendType, ContinuesType DEF LOBBY
  <2>2. CASE GivesUp(c)
    BY <1>0, <2>2, ProgramType, ContinuesType DEF GivesUp, SendFails, TypeOK
  <2> QED  BY <1>6, <2>1, <2>2 DEF LeaveRoom
<1>7. CASE Receive(c)
  BY <1>0, <1>1, <1>7, ProgramType, ContinuesType DEF Receive
<1> QED  BY <1>2, <1>3, <1>4, <1>5, <1>6, <1>7 DEF MainThread, SendThread, RecvThread

LEMMA WorkerType ==
  ASSUME TypeOK, NEW c \in Clients, Worker(c)
  PROVE  /\ TypeOK'
         /\ toServer[c] # <<>> /\ toServer' = [toServer EXCEPT ![c] = Tail(@)]
         /\ \E p \in Packets : Enqueue(p) /\ p.ClientIndex = c
         /\ \E info \in UserInfo : user' = [user EXCEPT ![c] = info]
<1> USE DEF UserInfo
<1>0. user[c] \in UserInfo /\ user[c].room \in Rooms \cup {LOBBY} /\ user = [user EXCEPT ![c] = user[c]]
  BY DEF TypeOK
<1>1. ASSUME NEW type, Received(c, type)
      PROVE  /\ toServer[c] # <<>> /\ toServer' = [toServer EXCEPT ![c] = Tail(@)]
             /\ toServer' \in [Clients -> Seq(Messages)]
             /\ Head(toServer[c]) \in Messages
  <2>1. toServer[c] \in Seq(Messages) /\ toServer[c] # <<>>
    BY <1>1 DEF TypeOK, Received
  <2>2. Tail(toServer[c]) \in Seq(Messages) /\ Head(toServer[c]) \in Messages
    BY <2>1
  <2> QED  BY <1>1, <2>1, <2>2 DEF Received, TypeOK
<1>2. ASSUME NEW p \in Packets, Enqueue(p), p.ClientIndex = c,
             NEW info \in UserInfo, user' = [user EXCEPT ![c] = info],
             NEW type, Received(c, type), UNCHANGED <<link, client, unread, casting>>
      PROVE  /\ TypeOK'
             /\ toServer[c] # <<>> /\ toServer' = [toServer EXCEPT ![c] = Tail(@)]
             /\ \E q \in Packets : Enqueue(q) /\ q.ClientIndex = c
             /\ \E i \in UserInfo : user' = [user EXCEPT ![c] = i]
  <2>1. mPacketQueue' \in Seq(Packets)
    BY <1>2 DEF Enqueue, TypeOK
  <2> QED  BY <1>1, <1>2, <2>1 DEF TypeOK
<1>3. ASSUME NEW type \in Types \cup {"NICKNAME_CREATED", "NICKNAME_NOT_FOUND"},
             NEW sendType \in {"UNI", "MULTI", "BROAD"}, NEW isClose \in BOOLEAN,
             NEW where \in Rooms \cup {LOBBY, EveryRoom}
      PROVE  /\ Packet(type, c, sendType, isClose, where) \in Packets
             /\ Packet(type, c, sendType, isClose, where).ClientIndex = c
  BY DEF Packet, Packets
<1>4. CASE SERVER_ENTER(c)
  <2>1. [user[c] EXCEPT !.room = LOBBY] \in UserInfo  BY <1>0
  <2> QED  BY <1>2, <1>3, <1>4, <2>1 DEF SERVER_ENTER, TypeOK
<1>5. CASE SERVER_EXIT(c)
  BY <1>0, <1>2, <1>3, <1>5 DEF SERVER_EXIT, Types
<1>6. CASE ROOM_ENTER(c)
  <2>1. Arg(c) \in Rooms \cup {LOBBY}
    BY <1>1, <1>6 DEF ROOM_ENTER, Arg, Messages
  <2>2. [user[c] EXCEPT !.room = Arg(c)] \in UserInfo  BY <1>0, <2>1
  <2> QED  BY <1>0, <1>2, <1>3, <1>6, <2>1, <2>2 DEF ROOM_ENTER, TypeOK, Types
<1>7. CASE ROOM_EXIT(c)
  <2>1. [room |-> LOBBY, prev |-> user[c].room] \in UserInfo  BY <1>0
  <2> QED  BY <1>0, <1>2, <1>3, <1>7, <2>1 DEF ROOM_EXIT, TypeOK, Types
<1>8. CASE CHAT_UNICAST(c)
  BY <1>0, <1>2, <1>3, <1>8 DEF CHAT_UNICAST
<1>9. CASE CHAT_CAST(c)
  BY <1>0, <1>2, <1>3, <1>9 DEF CHAT_CAST, Types
<1> QED  BY <1>4, <1>5, <1>6, <1>7, <1>8, <1>9 DEF Worker

LEMMA PacketThreadType ==
  ASSUME TypeOK, PacketThread
  PROVE  TypeOK'
<1> USE DEF TypeOK, clientVars
<1>1. ASSUME mPacketQueue # <<>>
      PROVE  Tail(mPacketQueue) \in Seq(Packets) /\ Head(mPacketQueue) \in Packets
  BY <1>1
<1>2. CASE UniCast
  BY <1>1, <1>2 DEF UniCast, SendMsg
<1>3. CASE StartCast
  <2>1. RoomOf(Head(mPacketQueue)) \in Rooms \cup {LOBBY, EveryRoom} /\ 1 \in Clients
    BY <1>1, <1>3, RoomsAssumption DEF StartCast, RoomOf, UserInfo, Packets, Clients
  <2> QED  BY <1>1, <1>3, <2>1 DEF StartCast
<1>4. CASE CastToNext
  <2>1. casting \in [packet : Packets, room : Rooms \cup {EveryRoom}, next : Clients]
    <3>1. Nothing.next = 0  BY DEF Nothing
    <3> QED  BY <1>4, <3>1 DEF CastToNext, IsCasting
  <2>2. casting.next # Slots => casting.next + 1 \in Clients
    BY <2>1, RoomsAssumption DEF Clients
  <2>3. casting' = Nothing \/ (casting.next # Slots /\ casting' = [casting EXCEPT !.next = casting.next + 1])
    BY <1>4 DEF CastToNext
  <2>4. casting' \in {Nothing} \cup [packet : Packets, room : Rooms \cup {EveryRoom}, next : Clients]
    BY <2>1, <2>2, <2>3
  <2>5. link' \in [Clients -> LinkStates] /\ unread' \in [Clients -> BOOLEAN]
    <3>1. link' = link \/ link' = [link EXCEPT ![casting.next] = "closing"]
      BY <1>4 DEF CastToNext
    <3>2. unread' = unread \/ unread' = [unread EXCEPT ![casting.next] = TRUE]
      BY <1>4 DEF CastToNext, SendMsg
    <3> QED  BY <3>1, <3>2 DEF LinkStates
  <2> QED  BY <1>4, <2>4, <2>5 DEF CastToNext
<1> QED  BY <1>2, <1>3, <1>4 DEF PacketThread

-----------------------------------------------------------------------------
(* Steps of a client.                                                       *)

\* A step of client c leaves the others' part of the invariant as it was.
LEMMA Elsewhere ==
  ASSUME Inv, NEW c \in Clients, TypeOK', UNCHANGED serverVars,
         \A d \in Clients \ {c} :
           client'[d] = client[d] /\ link'[d] = link[d] /\ toServer'[d] = toServer[d],
         Control(c)', Connection(c)', Agree(c)', Flight(c)'
  PROVE  Inv'
<1>2. CastWhereSent'
  BY DEF Inv, serverVars, CastWhereSent, IsFound, Overtaken, RoomOf, IsCasting
<1>3. ASSUME NEW d \in Clients, d # c
      PROVE  Control(d)' /\ Connection(d)' /\ Agree(d)' /\ Flight(d)'
  <2>1. client'[d] = client[d] /\ link'[d] = link[d] /\ toServer'[d] = toServer[d] /\ user' = user
    BY <1>3 DEF serverVars
  <2>2. Control(d) /\ Connection(d) /\ Agree(d) /\ Flight(d)
    BY DEF Inv
  <2>3. Control(d)' /\ Connection(d)'
    BY <2>1, <2>2 DEF Control, Connection, IsDown
  <2>4. Agree(d)'
    BY <2>1, <2>2 DEF Agree, RoomAfter, Picked
  <2>5. Flight(d)'
    BY <2>1, <2>2 DEF Flight, Settled
  <2> QED  BY <2>3, <2>4, <2>5
<1> QED  BY <1>2, <1>3 DEF Inv

\* The steps after which there is no client, or no connection, or a new client.
LEMMA EndsInv ==
  ASSUME Inv, NEW c \in Clients, Ends(c) \/ Disconnect(c) \/ Start(c), UNCHANGED serverVars
  PROVE  Inv'
<1>1. TypeOK'
  BY EndsType DEF Inv
<1>2. /\ Control(c) /\ Connection(c) /\ Flight(c)
      /\ client[c] \in Programs
      /\ DOMAIN client = Clients /\ DOMAIN link = Clients /\ DOMAIN toServer = Clients
  BY DEF Inv, TypeOK
<1>3. ASSUME NEW d \in Clients, d # c
      PROVE  client'[d] = client[d] /\ link'[d] = link[d] /\ toServer'[d] = toServer[d]
  BY <1>2, <1>3 DEF Ends, Disconnect, Start
<1>4. CASE Ends(c)
  <2>1. link'[c] = "away" /\ client'[c] = Outside /\ toServer'[c] = <<>>
    BY <1>2, <1>4 DEF Ends
  <2>2. /\ Outside.main = "none" /\ Outside.sender = "none" /\ Outside.recver = "none"
        /\ Outside.run /\ Outside.mRoom = LOBBY
    BY DEF Outside
  <2>3. Control(c)' /\ Connection(c)' /\ Agree(c)' /\ Flight(c)'
    BY <2>1, <2>2 DEF Control, Shape, Connection, Agree, Flight
  <2> QED  BY <1>1, <1>3, <2>3, Elsewhere
<1>5. CASE Disconnect(c)
  <2>1. link'[c] = "closed" /\ client'[c] = client[c] /\ toServer'[c] = <<>>
    BY <1>2, <1>5 DEF Disconnect
  <2>2. Control(c)' /\ Connection(c)' /\ Agree(c)' /\ Flight(c)'
    BY <1>2, <2>1 DEF Control, Shape, Connection, Agree, Flight, IsDown
  <2> QED  BY <1>1, <1>3, <2>2, Elsewhere
<1>6. CASE Start(c)
  <2>1. /\ link'[c] = "open" /\ toServer'[c] = <<>>
        /\ client'[c] = [Outside EXCEPT !.main = "nickname"]
    BY <1>2, <1>6 DEF Start, Connection
  <2>2. /\ client'[c].main = "nickname" /\ client'[c].sender = "none"
        /\ client'[c].recver = "none" /\ client'[c].run /\ client'[c].mRoom = LOBBY
    BY <2>1 DEF Outside
  <2>3. Control(c)' /\ Connection(c)' /\ Agree(c)' /\ Flight(c)'
    BY <2>1, <2>2 DEF Control, Shape, Connection, Agree, Flight
  <2> QED  BY <1>1, <1>3, <2>3, Elsewhere
<1> QED  BY <1>4, <1>5, <1>6

\* What a send does when nothing of the client is under way, or the connection
\* is down.
LEMMA SendFact ==
  ASSUME Inv, NEW c \in Clients, NEW type \in Types, NEW arg \in Rooms \cup {LOBBY},
         Send(c, type, arg), (IsConnected(c) /\ Settled(c)) \/ IsDown(c)
  PROVE  /\ \A d \in Clients \ {c} : link'[d] = link[d] /\ toServer'[d] = toServer[d]
         /\ \/ /\ IsConnected(c) /\ IsConnected(c)' /\ Settled(c)
               /\ toServer'[c] = <<[type |-> type, arg |-> arg]>>
            \/ IsDown(c) /\ IsDown(c)' /\ toServer'[c] = <<>>
<1>1. /\ DOMAIN link = Clients /\ DOMAIN toServer = Clients
      /\ ~IsConnected(c) => toServer[c] = <<>>
  BY DEF Inv, TypeOK, Connection
<1>2. CASE IsConnected(c)
  <2>1. link' = link /\ toServer' = [toServer EXCEPT ![c] = Append(@, [type |-> type, arg |-> arg])]
    BY <1>2 DEF Send
  <2>2. toServer[c] = <<>> /\ Settled(c)
    BY <1>2 DEF Settled, IsDown
  <2>3. Append(<<>>, [type |-> type, arg |-> arg]) = <<[type |-> type, arg |-> arg]>>
    OBVIOUS
  <2> QED  BY <1>1, <1>2, <2>1, <2>2, <2>3
<1>3. CASE IsDown(c)
  <2>1. link' = [link EXCEPT ![c] = "reset"] /\ toServer' = toServer
    BY <1>3 DEF Send, IsDown
  <2> QED  BY <1>1, <1>3, <2>1 DEF IsDown
<1> QED  BY <1>2, <1>3

\* On a connection that is down, only the shape of the program matters.
LEMMA DownStep ==
  ASSUME NEW c \in Clients, IsDown(c)', toServer'[c] = <<>>, Shape(client[c])'
  PROVE  Control(c)' /\ Connection(c)' /\ Agree(c)' /\ Flight(c)'
BY DEF IsDown, Control, Connection, Agree, Flight

LEMMA ContinuesFact ==
  ASSUME Inv, NEW c \in Clients, NEW program, Continues(c, program)
  PROVE  /\ client'[c] = program
         /\ \A d \in Clients \ {c} : client'[d] = client[d]
BY DEF Inv, TypeOK, Continues

\* A step that sends nothing and only changes the program.
LEMMA SilentStep ==
  ASSUME Inv, NEW c \in Clients, TypeOK', UNCHANGED serverVars,
         NEW program, Continues(c, program), UNCHANGED <<link, toServer>>,
         Control(c)', Connection(c)', Agree(c)', Flight(c)'
  PROVE  Inv'
BY ContinuesFact, Elsewhere

\* A step that sends on an open connection, or loses what it sends.
LEMMA SendingStep ==
  ASSUME Inv, NEW c \in Clients, TypeOK', UNCHANGED serverVars,
         NEW type \in Types, NEW arg \in Rooms \cup {LOBBY}, Send(c, type, arg),
         (IsConnected(c) /\ Settled(c)) \/ IsDown(c),
         NEW program, Continues(c, program), Shape(program),
         IsConnected(c) => program.run /\ program.sender \notin {"done", "leaving"},
         ASSUME IsConnected(c), IsConnected(c)', toServer'[c] = <<[type |-> type, arg |-> arg]>>
         PROVE  Agree(c)',
         IsConnected(c) /\ type = "ROOM_ENTER" => user[c].room = LOBBY /\ arg \in Rooms,
         IsConnected(c) /\ type \notin {"SERVER_ENTER", "ROOM_ENTER"} => user[c].room # LOBBY
  PROVE  Inv'
<1>1. /\ client'[c] = program
      /\ \A d \in Clients \ {c} :
           client'[d] = client[d] /\ link'[d] = link[d] /\ toServer'[d] = toServer[d]
  BY ContinuesFact, SendFact
<1>2. CASE IsDown(c)' /\ toServer'[c] = <<>>
  BY <1>1, <1>2, DownStep, Elsewhere
<1>3. CASE /\ IsConnected(c) /\ IsConnected(c)' /\ Settled(c)
           /\ toServer'[c] = <<[type |-> type, arg |-> arg]>>
  <2>1. Agree(c)' /\ Control(c)' /\ Connection(c)'
    BY <1>1, <1>3 DEF Control, Connection
  <2>2. Flight(c)'
    <3>1. user' = user
      BY DEF serverVars
    <3>2. /\ toServer'[c][1].type = type /\ toServer'[c][1].arg = arg
          /\ Len(toServer'[c]) = 1 /\ toServer'[c] # <<>>
      BY <1>3
    <3> QED  BY <1>1, <1>3, <3>1, <3>2 DEF Flight, Settled
  <2> QED  BY <1>1, <2>1, <2>2, Elsewhere
<1> QED  BY <1>2, <1>3, SendFact

\* SendThread gives up when the connection is down.
LEMMA GivesUpInv ==
  ASSUME Inv, NEW c \in Clients, TypeOK', UNCHANGED serverVars, SendFails(c),
         Continues(c, [client[c] EXCEPT !.sender = "done", !.run = FALSE]),
         client[c].sender \in {"typing", "leaving", "lobby"}
  PROVE  Inv'
<1>1. client[c] \in Programs /\ Shape(client[c]) /\ Connection(c)
  BY DEF Inv, TypeOK, Control
<1> DEFINE q == [client[c] EXCEPT !.sender = "done", !.run = FALSE]
<1>2. /\ q.main = client[c].main /\ q.sender = "done" /\ q.recver = client[c].recver
      /\ q.mRoom = client[c].mRoom /\ q.roomNo = client[c].roomNo
  BY <1>1 DEF Programs
<1>3. Continues(c, q)
  OBVIOUS
<1> HIDE DEF q
<1>4. client'[c] = q /\ Shape(q)
  BY <1>1, <1>2, <1>3, ContinuesFact DEF Shape
<1>5. IsDown(c)' /\ toServer'[c] = <<>> /\ UNCHANGED <<link, toServer>>
  BY <1>1 DEF SendFails, IsDown, Connection
<1> QED  BY <1>3, <1>4, <1>5, DownStep, SilentStep

LEMMA UserInv ==
  ASSUME Inv, NEW c \in Clients, User(c)
  PROVE  Inv'
<1>1. /\ UserActs(c) /\ UNCHANGED serverVars /\ TypeOK'
      /\ (IsConnected(c) /\ Settled(c)) \/ IsDown(c)
  BY UserType DEF User, Inv
<1>2. /\ client[c] \in Programs /\ Shape(client[c]) /\ Control(c) /\ Connection(c) /\ Agree(c)
      /\ LOBBY \in Rooms \cup {LOBBY}
  BY DEF Inv, TypeOK, Control
<1>3. /\ user' = user
      /\ IsConnected(c) => toServer[c] = <<>> /\ RoomAfter(c) = user[c].room
  BY <1>1 DEF serverVars, Settled, RoomAfter, IsDown
<1> USE DEF Types
<1>4. CASE SetNickname(c)
  <2>1. CASE Send(c, "SERVER_ENTER", 0) /\ Continues(c, [client[c] EXCEPT !.main = "waiting"])
    <3> DEFINE q == [client[c] EXCEPT !.main = "waiting"]
    <3>1. /\ q.main = "waiting" /\ q.sender = client[c].sender /\ q.recver = client[c].recver
          /\ q.run = client[c].run /\ q.mRoom = client[c].mRoom /\ q.roomNo = client[c].roomNo
          /\ client[c].main = "nickname"
      BY <1>2, <1>4 DEF Programs, SetNickname
    <3> HIDE DEF q
    <3>2. /\ Shape(q) /\ q.sender = "none" /\ q.mRoom = LOBBY
          /\ IsConnected(c) => q.run
      BY <1>2, <3>1 DEF Shape, Control, IsDown
    <3>3. client'[c] = q
      BY <2>1, ContinuesFact DEF q
    <3>4. ASSUME IsConnected(c)', toServer'[c] = <<[type |-> "SERVER_ENTER", arg |-> 0]>>
          PROVE  Agree(c)'
      BY <3>1, <3>2, <3>3, <3>4 DEF Agree, RoomAfter, Picked
    <3>5. Continues(c, q)
      BY <2>1 DEF q
    <3> QED  BY <1>1, <2>1, <3>2, <3>4, <3>5, SendingStep DEF LOBBY
  <2>2. CASE Ends(c)
    BY <1>1, <2>2, EndsInv
  <2> QED  BY <1>4, <2>1, <2>2 DEF SetNickname
<1>5. ASSUME NEW r \in Rooms, Send(c, "ROOM_ENTER", r), NEW q \in Programs, Continues(c, q),
             \/ client[c].main = "lobby" /\ q = [client[c] EXCEPT !.main = "entering", !.roomNo = r]
             \/ client[c].sender = "lobby" /\ q = [client[c] EXCEPT !.sender = "entering", !.roomNo = r]
      PROVE  Inv'
  <2>1. /\ q.recver = client[c].recver /\ q.run = client[c].run
        /\ q.mRoom = client[c].mRoom /\ q.roomNo = r
        /\ \/ /\ q.main = "entering" /\ q.sender = client[c].sender
              /\ client[c].main = "lobby"
           \/ /\ q.sender = "entering" /\ q.main = client[c].main
              /\ client[c].sender = "lobby"
    BY <1>2, <1>5 DEF Programs
  <2>2. /\ Shape(q) /\ "entering" \in {q.main, q.sender}
        /\ q.main \notin {"none", "nickname"} /\ client[c].main \notin {"none", "nickname"}
        /\ "entering" \notin {client[c].main, client[c].sender}
        /\ client[c].mRoom = LOBBY
    BY <1>2, <2>1 DEF Shape
  <2>3. IsConnected(c) =>
          q.run /\ q.sender \notin {"done", "leaving"} /\ client[c].sender # "leaving"
    BY <1>2, <2>1 DEF Shape, Control, IsDown
  <2>4. IsConnected(c) => user[c].room = LOBBY
    BY <1>2, <1>3, <2>2, <2>3 DEF Agree, Picked
  <2>5. client'[c] = q
    BY <1>5, ContinuesFact
  <2>6. ASSUME IsConnected(c), toServer'[c] = <<[type |-> "ROOM_ENTER", arg |-> r]>>
        PROVE  Agree(c)'
    BY <1>3, <2>1, <2>2, <2>4, <2>5, <2>6 DEF Agree, RoomAfter, Picked
  <2> QED  BY <1>1, <1>5, <2>2, <2>3, <2>4, <2>6, SendingStep
<1>6. CASE Lobby(c, "main")
  <2>1. CASE Ends(c)
    BY <1>1, <2>1, EndsInv
  <2>2. ASSUME NEW r \in Rooms, Send(c, "ROOM_ENTER", r),
               Continues(c, [client[c] EXCEPT !["main"] = "entering", !.roomNo = r])
        PROVE  Inv'
    <3>1. [client[c] EXCEPT !["main"] = "entering", !.roomNo = r] \in Programs
      BY <1>2, ProgramType DEF MainStates
    <3> QED  BY <1>5, <1>6, <2>2, <3>1 DEF Lobby
  <2> QED  BY <1>6, <2>1, <2>2 DEF Lobby
<1>7. CASE Lobby(c, "sender")
  <2>1. CASE SendFails(c) /\ Continues(c, [client[c] EXCEPT !.sender = "done", !.run = FALSE])
    BY <1>1, <1>7, <2>1, GivesUpInv DEF Lobby
  <2>2. ASSUME NEW r \in Rooms, Send(c, "ROOM_ENTER", r),
               Continues(c, [client[c] EXCEPT !["sender"] = "entering", !.roomNo = r])
        PROVE  Inv'
    <3>1. [client[c] EXCEPT !["sender"] = "entering", !.roomNo = r] \in Programs
      BY <1>2, ProgramType DEF SenderStates
    <3> QED  BY <1>5, <1>7, <2>2, <3>1 DEF Lobby
  <2> QED  BY <1>7, <2>1, <2>2 DEF Lobby
<1>8. ASSUME NEW type \in {"SERVER_EXIT", "CHAT_BROADCAST", "CHAT_MULTICAST", "CHAT_UNICAST"},
             Send(c, type, 0), NEW quit \in BOOLEAN, Continues(c, [client[c] EXCEPT !.quit = quit]),
             client[c].sender = "typing"
      PROVE  Inv'
  <2> DEFINE q == [client[c] EXCEPT !.quit = quit]
  <2>1. /\ q.main = client[c].main /\ q.sender = client[c].sender /\ q.recver = client[c].recver
        /\ q.run = client[c].run /\ q.mRoom = client[c].mRoom /\ q.roomNo = client[c].roomNo
    BY <1>2 DEF Programs
  <2>2. Continues(c, q)
    BY <1>8
  <2> HIDE DEF q
  <2>3. /\ Shape(q) /\ client[c].main = "joining" /\ client[c].mRoom # LOBBY
        /\ "entering" \notin {client[c].main, client[c].sender}
    BY <1>2, <1>8, <2>1 DEF Shape
  <2>4. IsConnected(c) => /\ user[c].room = client[c].mRoom
                            /\ q.run /\ q.sender \notin {"done", "leaving"}
    BY <1>2, <1>3, <1>8, <2>1, <2>3 DEF Agree, Picked, Control, IsDown
  <2>5. client'[c] = q
    BY <2>2, ContinuesFact
  <2>6. ASSUME IsConnected(c), IsConnected(c)', toServer'[c] = <<[type |-> type, arg |-> 0]>>
        PROVE  Agree(c)'
    BY <1>3, <1>8, <2>1, <2>3, <2>4, <2>5, <2>6 DEF Agree, RoomAfter, Picked
  <2> QED  BY <1>1, <1>8, <2>2, <2>3, <2>4, <2>6, SendingStep DEF LOBBY
<1>9. CASE Talk(c)
  <2>1. PICK type \in {"CHAT_BROADCAST", "CHAT_MULTICAST", "CHAT_UNICAST"} : Send(c, type, 0)
    BY <1>9 DEF Talk
  <2>2. client[c].quit \in BOOLEAN /\ client[c] = [client[c] EXCEPT !.quit = client[c].quit]
    BY <1>2 DEF Programs
  <2> QED  BY <1>8, <1>9, <2>1, <2>2 DEF Talk
<1>10. CASE TypeLine(c)
  <2>1. CASE /\ ~client[c].run
             /\ Continues(c, [client[c] EXCEPT !.sender = "done"])
             /\ UNCHANGED <<link, unread, toServer>>
    <3> DEFINE q == [client[c] EXCEPT !.sender = "done"]
    <3>1. /\ q.main = client[c].main /\ q.sender = "done" /\ q.recver = client[c].recver
          /\ q.mRoom = client[c].mRoom /\ q.roomNo = client[c].roomNo
          /\ client[c].sender = "typing"
      BY <1>2, <1>10 DEF Programs, TypeLine
    <3>2. Continues(c, q)
      BY <2>1
    <3> HIDE DEF q
    <3>3. client'[c] = q /\ Shape(q)
      BY <1>2, <3>1, <3>2, ContinuesFact DEF Shape
    <3>4. IsDown(c)' /\ toServer'[c] = <<>>
      BY <1>2, <2>1 DEF Control, Connection, IsDown
    <3> QED  BY <1>1, <2>1, <3>2, <3>3, <3>4, DownStep, SilentStep
  <2>2. CASE Send(c, "SERVER_EXIT", 0) /\ Continues(c, [client[c] EXCEPT !.quit = TRUE])
    BY <1>8, <1>10, <2>2 DEF TypeLine
  <2>3. CASE /\ Continues(c, [client[c] EXCEPT !.sender = "leaving", !.mRoom = LOBBY])
             /\ UNCHANGED <<link, unread, toServer>>
    <3> DEFINE q == [client[c] EXCEPT !.sender = "leaving", !.mRoom = LOBBY]
    <3>1. /\ q.main = client[c].main /\ q.sender = "leaving" /\ q.recver = client[c].recver
          /\ q.run = client[c].run /\ q.mRoom = LOBBY /\ q.roomNo = client[c].roomNo
          /\ client[c].sender = "typing"
      BY <1>2, <1>10 DEF Programs, TypeLine
    <3>2. Continues(c, q)
      BY <2>3
    <3> HIDE DEF q
    <3>3. /\ client'[c] = q /\ Shape(q) /\ client[c].main = "joining" /\ client[c].mRoom # LOBBY
          /\ "entering" \notin {client[c].main, client[c].sender}
      BY <1>2, <3>1, <3>2, ContinuesFact DEF Shape
    <3>4. IsDown(c) => Control(c)' /\ Connection(c)' /\ Agree(c)' /\ Flight(c)'
      BY <1>2, <2>3, <3>3, DownStep DEF IsDown, Connection
    <3>5. ASSUME IsConnected(c), Settled(c)
          PROVE  Control(c)' /\ Connection(c)' /\ Agree(c)' /\ Flight(c)'
      <4>1. user[c].room # LOBBY /\ q.run
        BY <1>2, <1>3, <3>1, <3>3, <3>5 DEF Agree, Picked, Control, IsDown
      <4>2. Settled(c)'
        BY <2>3, <3>5 DEF Settled
      <4> QED  BY <1>3, <2>3, <3>1, <3>3, <3>5, <4>1, <4>2 DEF Control, Connection, Agree, Flight, Settled
    <3> QED  BY <1>1, <2>3, <3>2, <3>4, <3>5, SilentStep
  <2>4. CASE GivesUp(c)
    BY <1>1, <1>10, <2>4, GivesUpInv DEF GivesUp, TypeLine
  <2> QED  BY <1>10, <2>1, <2>2, <2>3, <2>4 DEF TypeLine
<1> QED  BY <1>1, <1>4, <1>6, <1>7, <1>9, <1>10 DEF UserActs

\* A step by which nothing is sent and nobody begins to leave a room.
LEMMA QuietStep ==
  ASSUME Inv, NEW c \in Clients, TypeOK', UNCHANGED serverVars, UNCHANGED <<link, toServer>>,
         NEW program, Continues(c, program), link[c] # "away", Shape(program),
         program.sender # "leaving" \/ client[c].sender = "leaving",
         ~IsDown(c) => program.run /\ program.sender # "done",
         IsConnected(c) => Agree(c)'
  PROVE  Inv'
<1>1. client'[c] = program
  BY ContinuesFact
<1>2. Control(c)' /\ Connection(c)'
  BY <1>1 DEF Inv, Control, Connection, IsDown
<1>3. Agree(c)'
  BY DEF Agree
<1>4. Flight(c)'
  <2>1. user' = user
    BY DEF serverVars
  <2> QED  BY <1>1, <2>1 DEF Inv, Flight, Settled
<1> QED  BY <1>2, <1>3, <1>4, SilentStep

LEMMA ThreadsInv ==
  ASSUME Inv, NEW c \in Clients, Threads(c)
  PROVE  Inv'
<1>0. CASE Start(c) /\ UNCHANGED serverVars
  BY <1>0, EndsInv
<1> SUFFICES ASSUME MainThread(c) \/ SendThread(c) \/ RecvThread(c), UNCHANGED serverVars
             PROVE  Inv'
  BY <1>0 DEF Threads
<1>1. TypeOK' /\ UNCHANGED user
  BY ThreadsType DEF Inv, serverVars
<1>2. /\ client[c] \in Programs /\ Shape(client[c]) /\ Control(c) /\ Connection(c) /\ Agree(c)
      /\ Flight(c) /\ link[c] \in LinkStates
  BY DEF Inv, TypeOK, Control
<1>3. ASSUME UNCHANGED <<link, toServer>>
      PROVE  RoomAfter(c)' = RoomAfter(c)
  BY <1>1, <1>3 DEF RoomAfter
<1>4. link[c] = "away" => client[c].main = "none" /\ client[c].sender = "none" /\ client[c].recver = "none"
  BY <1>2 DEF Connection, Outside
<1>5. CASE NicknameCheck(c)
  <2>1. CASE /\ Recv(c)
             /\ Continues(c, [client[c] EXCEPT !.main = "lobby", !.sender = "asleep",
                                               !.recver = "asleep"])
    <3> DEFINE q == [client[c] EXCEPT !.main = "lobby", !.sender = "asleep", !.recver = "asleep"]
    <3>1. /\ q.main = "lobby" /\ q.sender = "asleep" /\ q.recver = "asleep"
          /\ q.run = client[c].run /\ q.mRoom = client[c].mRoom /\ q.roomNo = client[c].roomNo
          /\ client[c].main = "waiting"
      BY <1>2, <1>5 DEF Programs, NicknameCheck
    <3>2. Continues(c, q) /\ UNCHANGED <<link, toServer>>
      BY <2>1 DEF Recv
    <3> HIDE DEF q
    <3>3. client'[c] = q /\ Shape(q) /\ link[c] # "away" /\ client[c].sender = "none"
      BY <1>2, <1>4, <3>1, <3>2, ContinuesFact DEF Shape
    <3>4. ~IsDown(c) => q.run
      BY <1>2, <3>1 DEF Control
    <3>5. IsConnected(c) => Agree(c)'
      BY <1>2, <1>3, <3>1, <3>2, <3>3 DEF Agree, Picked
    <3> QED  BY <1>1, <3>1, <3>2, <3>3, <3>4, <3>5, QuietStep
  <2>2. CASE Ends(c)
    BY <2>2, EndsInv
  <2> QED  BY <1>5, <2>1, <2>2 DEF NicknameCheck
<1>6. CASE EnterRoom(c, "main") \/ EnterRoom(c, "sender")
  <2>1. PICK q \in Programs :
          /\ Continues(c, q) /\ UNCHANGED <<link, toServer>>
          /\ q.recver = client[c].recver /\ q.run = client[c].run
          /\ q.mRoom = client[c].roomNo
          /\ \/ /\ client[c].main = "entering" /\ q.main = "joining"
                /\ q.sender = client[c].sender
             \/ /\ client[c].sender = "entering" /\ q.main = client[c].main
                /\ q.sender = IF client[c].run THEN "typing" ELSE "done"
    <3>1. CASE EnterRoom(c, "main")
      <4>1. [client[c] EXCEPT !["main"] = "joining", !.mRoom = client[c].roomNo, !.roomNo = LOBBY] \in Programs
        BY <1>2, ProgramType DEF MainStates
      <4> QED  BY <1>2, <3>1, <4>1 DEF EnterRoom, Programs
    <3>2. CASE EnterRoom(c, "sender")
      <4>1. [client[c] EXCEPT !["sender"] = IF client[c].run THEN "typing" ELSE "done",
                              !.mRoom = client[c].roomNo, !.roomNo = LOBBY] \in Programs
        BY <1>2, ProgramType DEF SenderStates
      <4> QED  BY <1>2, <3>2, <4>1 DEF EnterRoom, Programs
    <3> QED  BY <1>6, <3>1, <3>2
  <2>2. /\ client'[c] = q /\ Shape(q) /\ link[c] # "away" /\ q.sender # "leaving"
        /\ q.main = "joining" /\ q.sender # "entering"
        /\ "entering" \in {client[c].main, client[c].sender} /\ client[c].sender # "leaving"
        /\ client[c].main \notin {"none", "nickname"}
    BY <1>2, <1>4, <2>1, RoomsFact, ContinuesFact DEF Shape, Programs, MainStates
  <2>3. ~IsDown(c) => q.run /\ q.sender # "done"
    BY <1>2, <2>1 DEF Control
  <2>4. IsConnected(c) => Agree(c)'
    BY <1>2, <1>3, <2>1, <2>2 DEF Agree, Picked
  <2> QED  BY <1>1, <2>1, <2>2, <2>3, <2>4, QuietStep
<1>7. CASE JoinThreads(c)
  BY <1>7, EndsInv DEF JoinThreads
<1>8. CASE Wake(c, "sender", "typing") \/ Wake(c, "recver", "receiving")
  <2>1. PICK q \in Programs :
          /\ Continues(c, q) /\ UNCHANGED <<link, toServer>> /\ client[c].mRoom # LOBBY
          /\ q.main = client[c].main /\ q.run = client[c].run
          /\ q.mRoom = client[c].mRoom /\ q.roomNo = client[c].roomNo
          /\ \/ /\ client[c].sender = "asleep" /\ q.sender = "typing"
                /\ q.recver = client[c].recver
             \/ /\ client[c].recver = "asleep" /\ q.recver = "receiving"
                /\ q.sender = client[c].sender
    <3>1. CASE Wake(c, "sender", "typing")
      <4>1. [client[c] EXCEPT !["sender"] = "typing"] \in Programs
        BY <1>2, ProgramType DEF SenderStates
      <4> QED  BY <1>2, <3>1, <4>1 DEF Wake, Programs
    <3>2. CASE Wake(c, "recver", "receiving")
      <4>1. [client[c] EXCEPT !["recver"] = "receiving"] \in Programs
        BY <1>2, ProgramType DEF RecverStates
      <4> QED  BY <1>2, <3>2, <4>1 DEF Wake, Programs
    <3> QED  BY <1>8, <3>1, <3>2
  <2>2. /\ client'[c] = q /\ Shape(q) /\ link[c] # "away" /\ q.main = "joining"
        /\ q.sender # "leaving"
        /\ "entering" \notin {q.main, q.sender, client[c].main, client[c].sender}
        /\ client[c].sender # "leaving"
    BY <1>2, <1>4, <2>1, ContinuesFact DEF Shape
  <2>3. ~IsDown(c) => q.run /\ q.sender # "done"
    BY <1>2, <2>1 DEF Control
  <2>4. IsConnected(c) => Agree(c)'
    BY <1>2, <1>3, <2>1, <2>2 DEF Agree, Picked
  <2> QED  BY <1>1, <2>1, <2>2, <2>3, <2>4, QuietStep
<1>9. CASE LeaveRoom(c)
  <2>1. CASE Send(c, "ROOM_EXIT", 0) /\ Continues(c, [client[c] EXCEPT !.sender = "lobby"])
    <3> DEFINE q == [client[c] EXCEPT !.sender = "lobby"]
    <3>1. /\ q.main = client[c].main /\ q.sender = "lobby" /\ q.recver = client[c].recver
          /\ q.run = client[c].run /\ q.mRoom = client[c].mRoom /\ q.roomNo = client[c].roomNo
          /\ client[c].sender = "leaving"
      BY <1>2, <1>9 DEF Programs, LeaveRoom
    <3>2. Continues(c, q)
      BY <2>1
    <3> HIDE DEF q
    <3>3. client'[c] = q /\ Shape(q) /\ q.main = "joining" /\ q.mRoom = LOBBY
      BY <1>2, <3>1, <3>2, ContinuesFact DEF Shape, Programs, MainStates
    <3>4. /\ (IsConnected(c) /\ Settled(c)) \/ IsDown(c)
          /\ IsConnected(c) => user[c].room # LOBBY /\ q.run
      BY <1>2, <1>4, <3>1 DEF Connection, Flight, Control, LinkStates, IsDown
    <3>5. ASSUME IsConnected(c)', toServer'[c] = <<[type |-> "ROOM_EXIT", arg |-> 0]>>
          PROVE  Agree(c)'
      BY <3>1, <3>3, <3>5 DEF Agree, RoomAfter, Picked
    <3> QED  BY <1>1, <2>1, <3>1, <3>2, <3>3, <3>4, <3>5, SendingStep DEF LOBBY, Types
  <2>2. CASE GivesUp(c)
    BY <1>1, <1>9, <2>2, GivesUpInv DEF GivesUp, LeaveRoom
  <2> QED  BY <1>9, <2>1, <2>2 DEF LeaveRoom
<1>10. CASE Receive(c)
  <2>1. PICK q \in Programs :
          /\ Continues(c, q) /\ UNCHANGED <<link, toServer>>
          /\ q.main = client[c].main /\ q.sender = client[c].sender
          /\ q.mRoom = client[c].mRoom /\ q.roomNo = client[c].roomNo
          /\ client[c].recver = "receiving"
          /\ q.run = client[c].run \/ IsDown(c)
          /\ q.recver \in {"done", "asleep", "receiving"}
    <3> DEFINE to == IF ~client[c].run THEN "done"
                     ELSE IF client[c].mRoom = LOBBY THEN "asleep" ELSE "receiving"
    <3>1. CASE Recv(c) /\ Continues(c, [client[c] EXCEPT !.recver = to])
      <4>1. [client[c] EXCEPT !.recver = to] \in Programs /\ to \in {"done", "asleep", "receiving"}
        BY <1>2, ProgramType DEF RecverStates
      <4> HIDE DEF to
      <4> QED  BY <1>2, <1>10, <3>1, <4>1 DEF Receive, Recv, Programs
    <3>2. CASE /\ RecvFails(c)
               /\ Continues(c, [client[c] EXCEPT !.recver = "done", !.run = FALSE])
      <4>1. [client[c] EXCEPT !.recver = "done", !.run = FALSE] \in Programs
        BY <1>2, ProgramType DEF RecverStates
      <4> QED  BY <1>2, <1>10, <3>2, <4>1 DEF Receive, RecvFails, Programs
    <3> QED  BY <1>10, <3>1, <3>2 DEF Receive
  <2>2. client'[c] = q /\ Shape(q) /\ link[c] # "away"
    BY <1>2, <1>4, <2>1, ContinuesFact DEF Shape
  <2>3. ~IsDown(c) => q.run /\ q.sender # "done"
    BY <1>2, <2>1 DEF Control
  <2>4. IsConnected(c) => Agree(c)'
    BY <1>2, <1>3, <2>1, <2>2 DEF Agree, Picked
  <2> QED  BY <1>1, <2>1, <2>2, <2>3, <2>4, QuietStep
<1> QED  BY <1>5, <1>6, <1>7, <1>8, <1>9, <1>10 DEF MainThread, SendThread, RecvThread

-----------------------------------------------------------------------------
(* Steps of the server.                                                     *)

\* What its user does in a room is from where the packet thread finds it to be,
\* unless the user has entered another or is new.
Enters(p) == p.type \in {"ROOM_ENTER", "NICKNAME_CREATED"}

\* A worker does to the user what the packet announced, and queues a packet
\* that says where the packet thread will find it to be from.  Where it finds
\* the packets before it to be from changes only when that packet tells.
LEMMA WorkerFact ==
  ASSUME Inv, NEW c \in Clients, Worker(c)
  PROVE  /\ UNCHANGED <<link, client, casting>>
         /\ user'[c].room = RoomAfter(c)
         /\ \E p \in Packets : /\ Enqueue(p) /\ p.ClientIndex = c
                               /\ p.SendType # "UNI" => RoomOf(p)' = p.where
                               /\ \/ Enters(p)
                                  \/ \A q : q.ClientIndex = c => RoomOf(q)' = RoomOf(q)
<1> USE DEF Enters
<1>1. /\ user[c] \in UserInfo /\ user \in [Clients -> UserInfo]
      /\ user[c].room \in Rooms \cup {LOBBY} /\ toServer[c] # <<>>
      /\ Flight(c)
  BY WorkerType DEF Inv, TypeOK, UserInfo
<1>2. toServer[c][1] = Head(toServer[c])
  BY <1>1, WorkerType DEF Inv, TypeOK
<1>3. CASE SERVER_ENTER(c)
  <2>1. user'[c].room = LOBBY
    BY <1>1, <1>3 DEF SERVER_ENTER, UserInfo
  <2>2. PICK p : p = Packet("NICKNAME_CREATED", c, "UNI", FALSE, LOBBY)
    OBVIOUS
  <2>3. p \in Packets /\ p.ClientIndex = c /\ p.SendType = "UNI" /\ Enters(p)
    BY <1>1, <2>1, <2>2 DEF Packet, Packets, Types
  <2> QED  BY <1>1, <1>2, <1>3, <2>1, <2>2, <2>3 DEF SERVER_ENTER, Received, RoomAfter
<1>4. CASE CHAT_UNICAST(c)
  <2>1. PICK p : p = Packet("NICKNAME_NOT_FOUND", c, "UNI", FALSE, LOBBY)
    OBVIOUS
  <2>2. p \in Packets /\ p.ClientIndex = c /\ p.SendType = "UNI"
    BY <1>1, <2>1 DEF Packet, Packets, Types
  <2>3. user' = user /\ \A q : RoomOf(q)' = RoomOf(q)
    BY <1>4 DEF CHAT_UNICAST, RoomOf
  <2> QED  BY <1>1, <1>2, <1>4, <2>1, <2>2, <2>3 DEF CHAT_UNICAST, Received, RoomAfter
<1>5. CASE SERVER_EXIT(c)
  <2>1. /\ user' = user /\ user[c].room # LOBBY /\ RoomAfter(c) = user[c].room
        /\ Enqueue(Packet("SERVER_EXIT", c, "MULTI", TRUE, user[c].room))
        /\ UNCHANGED <<link, client, casting>>
    BY <1>1, <1>2, <1>5 DEF SERVER_EXIT, Received, RoomAfter, Flight
  <2>2. PICK p : p = Packet("SERVER_EXIT", c, "MULTI", TRUE, user[c].room)
    OBVIOUS
  <2>3. p \in Packets /\ p.ClientIndex = c /\ p.SendType = "MULTI" /\ p.where = user[c].room
    BY <1>1, <2>1, <2>2 DEF Packet, Packets, Types
  <2>4. RoomOf(p)' = p.where /\ \A q : RoomOf(q)' = RoomOf(q)
    BY <2>1, <2>3 DEF RoomOf
  <2> QED  BY <2>1, <2>2, <2>3, <2>4
<1>6. CASE ROOM_ENTER(c)
  <2>1. /\ Head(toServer[c]).type = "ROOM_ENTER" /\ user[c].room = LOBBY /\ Arg(c) \in Rooms
        /\ RoomAfter(c) = Arg(c) /\ UNCHANGED <<link, client, casting>>
    BY <1>1, <1>2, <1>6 DEF ROOM_ENTER, Received, RoomAfter, Flight, Arg
  <2>2. user' = [user EXCEPT ![c].room = Arg(c)] /\ Enqueue(Packet("ROOM_ENTER", c, "MULTI", FALSE, Arg(c)))
    BY <1>6, <2>1 DEF ROOM_ENTER
  <2>3. user'[c].room = Arg(c) /\ Arg(c) # LOBBY
    BY <1>1, <2>1, <2>2, RoomsFact DEF UserInfo
  <2>4. PICK p : p = Packet("ROOM_ENTER", c, "MULTI", FALSE, Arg(c))
    OBVIOUS
  <2>5. p \in Packets /\ p.ClientIndex = c /\ p.SendType = "MULTI" /\ p.where = Arg(c) /\ Enters(p)
    BY <1>1, <2>1, <2>4 DEF Packet, Packets, Types
  <2>6. RoomOf(p)' = p.where
    BY <2>3, <2>5 DEF RoomOf
  <2> QED  BY <2>1, <2>2, <2>3, <2>4, <2>5, <2>6
<1>7. CASE ROOM_EXIT(c)
  <2>1. /\ Head(toServer[c]).type = "ROOM_EXIT" /\ user[c].room # LOBBY
        /\ RoomAfter(c) = LOBBY /\ UNCHANGED <<link, client, casting>>
    BY <1>1, <1>2, <1>7 DEF ROOM_EXIT, Received, RoomAfter, Flight
  <2>2. /\ user' = [user EXCEPT ![c] = [room |-> LOBBY, prev |-> user[c].room]]
        /\ Enqueue(Packet("ROOM_EXIT", c, "MULTI", FALSE, user[c].room))
    BY <1>7, <2>1 DEF ROOM_EXIT
  <2>3. user'[c].room = LOBBY /\ user'[c].prev = user[c].room
    BY <1>1, <2>2
  <2>4. PICK p : p = Packet("ROOM_EXIT", c, "MULTI", FALSE, user[c].room)
    OBVIOUS
  <2>5. p \in Packets /\ p.ClientIndex = c /\ p.SendType = "MULTI" /\ p.where = user[c].room
    BY <1>1, <2>1, <2>4 DEF Packet, Packets, Types
  <2>6. RoomOf(p)' = p.where
    BY <2>3, <2>5 DEF RoomOf
  <2>7. \A q : q.ClientIndex = c => RoomOf(q)' = RoomOf(q)
    BY <2>1, <2>3 DEF RoomOf
  <2> QED  BY <2>1, <2>2, <2>3, <2>4, <2>5, <2>6, <2>7
<1>8. ASSUME Received(c, "CHAT_BROADCAST"), UNCHANGED <<link, user, client, casting>>,
             Enqueue(Packet("CHAT_BROADCAST", c, "BROAD", FALSE, EveryRoom))
      PROVE  /\ user'[c].room = RoomAfter(c)
             /\ \E p \in Packets : /\ Enqueue(p) /\ p.ClientIndex = c
                                   /\ p.SendType # "UNI" => RoomOf(p)' = p.where
                                   /\ \/ Enters(p)
                                      \/ \A q : q.ClientIndex = c => RoomOf(q)' = RoomOf(q)
  <2>1. PICK p : p = Packet("CHAT_BROADCAST", c, "BROAD", FALSE, EveryRoom)
    OBVIOUS
  <2>2. p \in Packets /\ p.ClientIndex = c /\ p.SendType = "BROAD" /\ p.where = EveryRoom
    BY <1>1, <2>1 DEF Packet, Packets, Types
  <2>3. RoomOf(p)' = p.where /\ \A q : RoomOf(q)' = RoomOf(q)
    BY <1>8, <2>2 DEF RoomOf
  <2> QED  BY <1>1, <1>2, <1>8, <2>1, <2>2, <2>3 DEF Received, RoomAfter
<1>9. ASSUME Received(c, "CHAT_MULTICAST"), UNCHANGED <<link, user, client, casting>>,
              Enqueue(Packet("CHAT_MULTICAST", c, "MULTI", FALSE, user[c].room))
       PROVE  /\ user'[c].room = RoomAfter(c)
              /\ \E p \in Packets : /\ Enqueue(p) /\ p.ClientIndex = c
                                    /\ p.SendType # "UNI" => RoomOf(p)' = p.where
                                   /\ \/ Enters(p)
                                      \/ \A q : q.ClientIndex = c => RoomOf(q)' = RoomOf(q)
  <2>1. user' = user /\ user[c].room # LOBBY /\ RoomAfter(c) = user[c].room
    BY <1>1, <1>2, <1>9 DEF Received, RoomAfter, Flight
  <2>2. PICK p : p = Packet("CHAT_MULTICAST", c, "MULTI", FALSE, user[c].room)
    OBVIOUS
  <2>3. p \in Packets /\ p.ClientIndex = c /\ p.SendType = "MULTI" /\ p.where = user[c].room
    BY <1>1, <2>1, <2>2 DEF Packet, Packets, Types
  <2>4. RoomOf(p)' = p.where /\ \A q : RoomOf(q)' = RoomOf(q)
    BY <2>1, <2>3 DEF RoomOf
  <2> QED  BY <1>9, <2>1, <2>2, <2>3, <2>4
<1>10. CASE CHAT_CAST(c)
  BY <1>8, <1>9, <1>10 DEF CHAT_CAST
<1> QED  BY <1>3, <1>4, <1>5, <1>6, <1>7, <1>10 DEF Worker

LEMMA WorkerInv ==
  ASSUME Inv, NEW c \in Clients, Worker(c)
  PROVE  Inv'
<1>1. /\ TypeOK' /\ UNCHANGED <<link, client, casting>> /\ user'[c].room = RoomAfter(c)
      /\ toServer[c] # <<>> /\ toServer' = [toServer EXCEPT ![c] = Tail(@)]
  BY WorkerType, WorkerFact DEF Inv
<1>2. PICK p \in Packets : /\ Enqueue(p) /\ p.ClientIndex = c
                           /\ p.SendType # "UNI" => RoomOf(p)' = p.where
                           /\ \/ Enters(p)
                              \/ \A q : q.ClientIndex = c => RoomOf(q)' = RoomOf(q)
  BY WorkerFact
<1>3. \A d \in Clients : Control(d) /\ Connection(d) /\ Agree(d) /\ Flight(d)
  BY DEF Inv
<1>4. toServer'[c] = <<>>
  <2>1. toServer[c] \in Seq(Messages) /\ Len(toServer[c]) = 1 /\ DOMAIN toServer = Clients
    BY <1>1, <1>3 DEF Inv, TypeOK, Flight
  <2>2. Tail(toServer[c]) \in Seq(Messages) /\ Len(Tail(toServer[c])) = 0
    BY <2>1, HeadTailProperties
  <2>3. Tail(toServer[c]) = <<>>
    BY <2>2, EmptySeq
  <2> QED  BY <1>1, <2>1, <2>3
<1>5. \A d \in Clients \ {c} : user'[d] = user[d] /\ toServer'[d] = toServer[d]
  <2>1. PICK info \in UserInfo : user' = [user EXCEPT ![c] = info]
    BY WorkerType DEF Inv
  <2> QED  BY <1>1, <2>1 DEF Inv, TypeOK
<1>8. ASSUME NEW d \in Clients
      PROVE  Control(d)' /\ Connection(d)' /\ Agree(d)' /\ Flight(d)'
  <2>1. Control(d)'
    BY <1>1, <1>3 DEF Control, IsDown
  <2>2. CASE d = c
    <3>1. Connection(d)' /\ Agree(d)'
      BY <1>1, <1>3, <1>4, <2>2 DEF Connection, Agree, RoomAfter, Picked
    <3>2. Flight(d)'
      BY <1>1, <1>3, <1>4, <2>2 DEF Flight, Settled
    <3> QED  BY <2>1, <3>1, <3>2
  <2>3. CASE d # c
    <3>1. Connection(d)' /\ Agree(d)'
      BY <1>1, <1>3, <1>5, <2>3 DEF Connection, Agree, RoomAfter, Picked
    <3>2. Flight(d)'
      BY <1>1, <1>3, <1>5, <2>3 DEF Flight, Settled
    <3> QED  BY <2>1, <3>1, <3>2
  <2> QED  BY <2>2, <2>3
<1> DEFINE n == Len(mPacketQueue)
<1>6. /\ mPacketQueue \in Seq(Packets) /\ n \in Nat /\ DOMAIN mPacketQueue = 1..n
      /\ DOMAIN mPacketQueue' = 1..(n + 1) /\ mPacketQueue'[n + 1] = p
      /\ \A i \in 1..n : mPacketQueue'[i] = mPacketQueue[i] /\ mPacketQueue[i] \in Packets
  BY <1>2 DEF Inv, TypeOK, Enqueue
<1>7. ASSUME NEW q, NEW i \in Nat, Overtaken(q, i)
      PROVE  Overtaken(q, i)'
  BY <1>6, <1>7 DEF Overtaken
<1>9. ASSUME NEW i \in 1..(n + 1)
      PROVE  IsFound(i)'
  <2>1. PICK q : q = mPacketQueue'[i]
    OBVIOUS
  <2> SUFFICES ASSUME q.SendType # "UNI"
               PROVE  RoomOf(q)' = q.where \/ Overtaken(q, i)'
    BY <2>1 DEF IsFound
  <2>2. CASE i = n + 1
    BY <1>2, <1>6, <2>1, <2>2
  <2>3. CASE i \in 1..n
    <3>1. /\ q = mPacketQueue[i] /\ q \in Packets /\ i \in Nat
          /\ IsFound(i)
      BY <1>6, <2>1, <2>3 DEF Inv, CastWhereSent
    <3>2. RoomOf(q) = q.where \/ Overtaken(q, i)
      BY <3>1 DEF IsFound
    <3>3. CASE q.ClientIndex # c
      <4>1. q.ClientIndex \in Clients \ {c}
        BY <3>1, <3>3 DEF Packets
      <4>2. RoomOf(q)' = RoomOf(q)
        BY <1>5, <4>1 DEF RoomOf
      <4> QED  BY <1>7, <3>1, <3>2, <4>2
    <3>4. CASE q.ClientIndex = c /\ Enters(p)
      <4>1. n + 1 > i /\ n + 1 \in DOMAIN mPacketQueue'
        BY <1>6, <2>3
      <4>2. Overtaken(q, i)'
        BY <1>2, <1>6, <3>4, <4>1 DEF Overtaken, Enters
      <4> QED  BY <4>2
    <3>5. CASE q.ClientIndex = c /\ ~Enters(p)
      BY <1>2, <1>7, <3>1, <3>2, <3>5
    <3> QED  BY <3>3, <3>4, <3>5
  <2> QED  BY <1>6, <2>2, <2>3
<1>10. CastWhereSent'
  <2>1. ASSUME IsCasting'
        PROVE  (casting.room = casting.packet.where \/ Overtaken(casting.packet, 0))'
    <3>1. PICK q : q = casting.packet
      OBVIOUS
    <3>2. casting.room = q.where \/ Overtaken(q, 0)
      BY <1>1, <2>1, <3>1 DEF Inv, CastWhereSent, IsCasting
    <3>3. casting.room = q.where \/ Overtaken(q, 0)'
      BY <1>7, <3>2
    <3> QED  BY <1>1, <3>1, <3>3 DEF Overtaken
  <2> QED  BY <1>6, <1>9, <2>1 DEF CastWhereSent
<1> QED  BY <1>1, <1>8, <1>10 DEF Inv

\* What the packet thread leaves of the queue is as it was, one place further on.
LEMMA TailFact ==
  ASSUME Inv, mPacketQueue # <<>>, mPacketQueue' = Tail(mPacketQueue), UNCHANGED user
  PROVE  /\ \A i \in DOMAIN mPacketQueue' : IsFound(i)'
         /\ \A p : p = Head(mPacketQueue) /\ p.SendType # "UNI" =>
              RoomOf(p) = p.where \/ Overtaken(p, 0)'
<1> DEFINE n == Len(mPacketQueue)
<1>1. /\ mPacketQueue \in Seq(Packets)
      /\ Tail(mPacketQueue) \in Seq(Packets)
      /\ Len(Tail(mPacketQueue)) = n - 1 /\ n \in Nat \ {0}
      /\ \A i \in 1..(n - 1) : Tail(mPacketQueue)[i] = mPacketQueue[i + 1]
      /\ Head(mPacketQueue) = mPacketQueue[1]
  BY HeadTailProperties, EmptySeq DEF Inv, TypeOK
<1>2. /\ DOMAIN mPacketQueue = 1..n /\ DOMAIN mPacketQueue' = 1..(n - 1)
      /\ \A i \in 1..(n - 1) : mPacketQueue'[i] = mPacketQueue[i + 1]
  BY <1>1
<1>3. ASSUME NEW q, NEW i \in Nat, Overtaken(q, i + 1)
      PROVE  Overtaken(q, i)'
  <2>1. PICK j \in 1..n : /\ j > i + 1 /\ mPacketQueue[j].ClientIndex = q.ClientIndex
                          /\ mPacketQueue[j].type \in {"ROOM_ENTER", "NICKNAME_CREATED"}
    BY <1>2, <1>3 DEF Overtaken
  <2>2. PICK k : k = j - 1
    OBVIOUS
  <2>3. k \in 1..(n - 1) /\ k > i /\ k + 1 = j
    BY <1>1, <2>1, <2>2
  <2>4. mPacketQueue'[k] = mPacketQueue[j]
    BY <1>2, <2>3
  <2> QED  BY <1>2, <2>1, <2>3, <2>4 DEF Overtaken
<1>4. ASSUME NEW q, NEW i \in Nat, i + 1 \in 1..n, q = mPacketQueue[i + 1], q.SendType # "UNI"
      PROVE  RoomOf(q) = q.where \/ Overtaken(q, i)'
  <2>1. IsFound(i + 1)
    BY <1>2, <1>4 DEF Inv, CastWhereSent
  <2>2. RoomOf(q) = q.where \/ Overtaken(q, i + 1)
    BY <1>4, <2>1 DEF IsFound
  <2> QED  BY <1>3, <1>4, <2>2
<1>5. ASSUME NEW i \in 1..(n - 1)
      PROVE  IsFound(i)'
  <2>1. PICK q : q = mPacketQueue'[i]
    OBVIOUS
  <2>2. i + 1 \in 1..n /\ i \in Nat /\ q = mPacketQueue[i + 1]
    BY <1>1, <1>2, <1>5, <2>1
  <2>3. RoomOf(q)' = RoomOf(q)
    BY DEF RoomOf
  <2>4. q.SendType # "UNI" => RoomOf(q)' = q.where \/ Overtaken(q, i)'
    BY <1>4, <2>2, <2>3
  <2> QED  BY <2>1, <2>4 DEF IsFound
<1>6. ASSUME NEW p, p = Head(mPacketQueue), p.SendType # "UNI"
      PROVE  RoomOf(p) = p.where \/ Overtaken(p, 0)'
  <2>1. 0 \in Nat /\ 0 + 1 \in 1..n /\ p = mPacketQueue[0 + 1]
    BY <1>1, <1>6
  <2> QED  BY <1>4, <1>6, <2>1
<1> QED  BY <1>2, <1>5, <1>6

\* The packet thread leaves every user where it was, and casts where it is told.
LEMMA PacketThreadFact ==
  ASSUME Inv, PacketThread
  PROVE  /\ TypeOK' /\ UNCHANGED <<user, client, toServer>>
         /\ CastWhereSent'
         /\ \A c \in Clients :
              \/ link'[c] = link[c]
              \/ IsConnected(c) /\ link'[c] = "closing"
<1>1. TypeOK'
  BY PacketThreadType DEF Inv
<1>2. Nothing.next = 0
  BY DEF Nothing
<1>3. CASE UniCast
  <2>1. UNCHANGED <<link, user, client, toServer, casting>> /\ mPacketQueue # <<>>
        /\ mPacketQueue' = Tail(mPacketQueue) /\ ~IsCasting
    BY <1>3 DEF UniCast
  <2>2. CastWhereSent'
    BY <2>1, TailFact DEF CastWhereSent, IsCasting
  <2> QED  BY <1>1, <2>1, <2>2
<1>4. CASE StartCast
  <2>1. PICK p : p = Head(mPacketQueue)
    OBVIOUS
  <2>2. /\ UNCHANGED <<link, user, client, toServer>> /\ mPacketQueue # <<>>
        /\ mPacketQueue' = Tail(mPacketQueue) /\ p.SendType # "UNI"
        /\ \/ casting' = Nothing
           \/ casting' = [packet |-> p, room |-> RoomOf(p), next |-> 1]
    BY <1>4, <2>1 DEF StartCast, clientVars
  <2>3. /\ \A i \in DOMAIN mPacketQueue' : IsFound(i)'
        /\ RoomOf(p) = p.where \/ Overtaken(p, 0)'
    BY <2>1, <2>2, TailFact
  <2>4. CASE casting' = Nothing
    <3>1. ~IsCasting'
      BY <1>2, <2>4 DEF IsCasting
    <3> QED  BY <1>1, <2>2, <2>3, <3>1 DEF CastWhereSent
  <2>5. CASE casting' = [packet |-> p, room |-> RoomOf(p), next |-> 1]
    <3>1. casting'.packet = p /\ casting'.room = RoomOf(p)
      BY <2>5
    <3>2. (casting.room = casting.packet.where \/ Overtaken(casting.packet, 0))'
      BY <2>3, <3>1 DEF Overtaken
    <3> QED  BY <1>1, <2>2, <2>3, <3>2 DEF CastWhereSent
  <2> QED  BY <2>2, <2>4, <2>5
<1>5. CASE CastToNext
  <2>1. /\ UNCHANGED <<user, client, toServer, mPacketQueue>> /\ IsCasting
        /\ \/ casting' = Nothing
           \/ casting' = [casting EXCEPT !.next = casting.next + 1]
        /\ \/ link' = link
           \/ /\ IsConnected(casting.next)
              /\ link' = [link EXCEPT ![casting.next] = "closing"]
    BY <1>5 DEF CastToNext
  <2>2. casting \in [packet : Packets, room : Rooms \cup {EveryRoom}, next : Clients]
    BY <1>2, <2>1 DEF Inv, TypeOK, IsCasting
  <2>3. \/ casting' = Nothing
        \/ casting'.packet = casting.packet /\ casting'.room = casting.room
    BY <2>1, <2>2
  <2>4. CastWhereSent'
    BY <1>2, <2>1, <2>3 DEF Inv, CastWhereSent, IsFound, Overtaken, RoomOf, IsCasting
  <2>5. \A c \in Clients :
          link'[c] = link[c] \/ (IsConnected(c) /\ link'[c] = "closing")
    BY <2>1 DEF Inv, TypeOK
  <2> QED  BY <1>1, <2>1, <2>4, <2>5
<1> QED  BY <1>3, <1>4, <1>5 DEF PacketThread

LEMMA PacketThreadInv ==
  ASSUME Inv, PacketThread
  PROVE  Inv'
<1>1. ASSUME NEW c \in Clients
      PROVE  Control(c)' /\ Connection(c)' /\ Agree(c)' /\ Flight(c)'
  <2>1. /\ UNCHANGED <<user, client, toServer>>
        /\ Control(c) /\ Connection(c) /\ Agree(c) /\ Flight(c)
        /\ \/ link'[c] = link[c]
           \/ IsConnected(c) /\ link'[c] = "closing"
    BY <1>1, PacketThreadFact DEF Inv
  <2> QED  BY <2>1 DEF Control, Connection, Agree, Flight, IsDown, RoomAfter, Picked, Settled
<1> QED  BY <1>1, PacketThreadFact DEF Inv

-----------------------------------------------------------------------------
(* The invariant.                                                           *)

LEMMA InitInv == Init => Inv
<1> SUFFICES ASSUME Init PROVE Inv
  OBVIOUS
<1>1. Outside \in Programs /\ <<>> \in Seq(Messages) /\ <<>> \in Seq(Packets)
  BY DEF Outside, Programs, MainStates, SenderStates, RecverStates
<1>2. TypeOK
  BY <1>1 DEF Init, ClientInit, TypeOK, LinkStates, UserInfo
<1>3. /\ Outside.main = "none" /\ Outside.sender = "none" /\ Outside.recver = "none"
      /\ Outside.run /\ Outside.mRoom = LOBBY /\ Nothing.next = 0
  BY DEF Outside, Nothing
<1>4. ASSUME NEW c \in Clients
      PROVE  Control(c) /\ Connection(c) /\ Agree(c) /\ Flight(c)
  <2>1. link[c] = "away" /\ client[c] = Outside /\ toServer[c] = <<>>
    BY DEF Init, ClientInit
  <2> QED  BY <1>3, <2>1 DEF Control, Shape, Connection, Agree, Flight, IsDown
<1>5. CastWhereSent
  BY <1>3 DEF Init, CastWhereSent, IsCasting
<1> QED  BY <1>2, <1>4, <1>5 DEF Inv

LEMMA StepInv == Inv /\ [Next]_vars => Inv'
<1> SUFFICES ASSUME Inv, [Next]_vars PROVE Inv'
  OBVIOUS
<1>1. ASSUME NEW c \in Clients, User(c) PROVE Inv'
  BY <1>1, UserInv
<1>2. ASSUME NEW c \in Clients, Threads(c) PROVE Inv'
  BY <1>2, ThreadsInv
<1>3. ASSUME NEW c \in Clients, Vanish(c) \/ CloseClient(c) PROVE Inv'
  BY <1>3, EndsInv DEF Vanish, CloseClient
<1>4. ASSUME NEW c \in Clients, Worker(c) PROVE Inv'
  BY <1>4, WorkerInv
<1>5. CASE PacketThread
  BY <1>5, PacketThreadInv
<1>6. CASE UNCHANGED vars
  BY <1>6 DEF vars, clientVars, serverVars, Inv, TypeOK, Control, Connection, Agree, Flight,
     CastWhereSent, IsFound, Overtaken, IsDown, RoomAfter, Picked, Settled, RoomOf, IsCasting
<1> QED  BY <1>1, <1>2, <1>3, <1>4, <1>5, <1>6 DEF Next

THEOREM Invariance == Spec => []Inv
BY InitInv, StepInv, PTL DEF Spec

\* The variables of the clients, of their users and of the packet thread are
\* typed, whatever the users do.
THEOREM TypeCorrect == Spec => []TypeOK
<1>1. Inv => TypeOK
  BY DEF Inv
<1> QED  BY <1>1, Invariance, PTL

\* The client and the server agree about the room once the server has read what
\* the client sent, also when the slot had another user before.
THEOREM RoomsAgree == Spec => []RoomAgreement
<1>1. Inv => RoomAgreement
  <2> SUFFICES ASSUME Inv, NEW c \in Clients, link[c] = "open", toServer[c] = <<>>, IsSomewhere(c)
               PROVE  user[c].room = client[c].mRoom
    BY DEF RoomAgreement
  <2>1. Agree(c) /\ Shape(client[c])
    BY DEF Inv, Control
  <2> QED  BY <2>1 DEF Agree, RoomAfter, Picked, IsSomewhere
<1> QED  BY <1>1, Invariance, PTL

\* What is said in a room, and the news of it, is cast in that room, also when the
\* packet thread is late and the sender has left; what goes astray was overtaken by
\* its sender, who has entered another room, or by a new user of the slot.
THEOREM CastsStayInTheirRoom == Spec => []CastWhereSent
<1>1. Inv => CastWhereSent
  BY DEF Inv
<1> QED  BY <1>1, Invariance, PTL

\* main and SendThread are never at the console together.
THEOREM OneThreadAtConsole == Spec => []ConsoleHasOneUser
<1>1. Inv => ConsoleHasOneUser
  BY DEF Inv, ConsoleHasOneUser, Control, Shape
<1> QED  BY <1>1, Invariance, PTL
=============================================================================

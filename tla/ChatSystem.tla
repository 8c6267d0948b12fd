----------------------------- MODULE ChatSystem -----------------------------
(***************************************************************************)
(* The v1.1 server with v1.1 clients: ChatServer, and for every connection *)
(* the client's page, what its display shows, and the two byte streams.    *)
(* The packets the server receives are now those a user can make its       *)
(* client send.  After picking a room or typing /lobby or /quit a user     *)
(* does nothing until the page changes.  That is how users are taken to    *)
(* be, for the client does not make them wait: one that picks two rooms at *)
(* once is in both, and one that types /lobby twice stops the server.      *)
(***************************************************************************)
EXTENDS ChatServer

CONSTANTS
  Speech,     \* the kinds of chat packets users send
  Coalescing, \* one recv may return several packets (TCP is a byte stream)
  MaxStream   \* bound on the packets in one direction of a connection

ASSUME ChatSystemAssumption ==
  /\ Coalescing \in BOOLEAN
  /\ Speech \subseteq {"C_UNICAST", "C_MULTICAST", "C_BROADCAST"}
  /\ MaxStream \in Nat \ {0}

VARIABLES
  clientState,  \* Client::state_, or "ABSENT", or "GONE" once disconnected
  waiting,      \* clients whose user asked for another page
  shownRooms,   \* LobbyDisplay::chatRoomIds_
  shownUsers,   \* the keys of RoomDisplay::users_
  toServer,     \* packets in Client::sendQueue_ and in the stream
  toClient,     \* packets in the stream and in Client::recvQueue_
  miscast       \* types of the packets handled by a display of another class

clientVars == <<clientState, waiting, shownRooms, shownUsers, miscast>>
sysVars == <<vars, clientVars, toServer, toClient>>

ClientStates == {"ABSENT", "LOGIN", "PENDING", "LOBBY", "CHATROOM", "GONE"}

SysTypeOK ==
  /\ TypeOK
  /\ clientState \in [Users -> ClientStates]
  /\ waiting \in SUBSET Users
  /\ shownRooms \in [Users -> SUBSET RoomIds]
  /\ shownUsers \in [Users -> SUBSET Users]
  /\ toServer \in [Users -> Seq(ClientPackets)]
  /\ toClient \in [Users -> Seq(ServerPackets)]
  /\ miscast \in SUBSET {p.type : p \in ServerPackets}

SysInit ==
  /\ Init
  /\ clientState = [u \in Users |-> "ABSENT"]
  /\ waiting = {}
  /\ shownRooms = [u \in Users |-> {}]
  /\ shownUsers = [u \in Users |-> {}]
  /\ toServer = [u \in Users |-> <<>>]
  /\ toClient = [u \in Users |-> <<>>]
  /\ miscast = {}

-----------------------------------------------------------------------------
(* What the user does: Client::StateProcess runs the page of state_.        *)

Connected(u) == clientState[u] \notin {"ABSENT", "GONE"}

\* The user acts on page s, and the client queues a packet.
Act(u, s, p) ==
  /\ fault = "none"
  /\ clientState[u] = s
  /\ u \notin waiting
  /\ Len(toServer[u]) < MaxStream
  /\ toServer' = [toServer EXCEPT ![u] = Append(@, p)]
  /\ UNCHANGED <<vars, toClient, shownRooms, shownUsers, miscast>>

SendNickname(u) ==
  \E n \in Nicknames :
    /\ Act(u, "LOGIN", [type |-> "C_SERVER_ENTER", nickname |-> n])
    /\ clientState' = [clientState EXCEPT ![u] = "PENDING"]
    /\ UNCHANGED waiting

\* Mutation: the cursor moves one line too far.
Selections_OneMore(u) ==
  shownRooms[u] \cup ({0, Cardinality(shownRooms[u]) + 1} \cap RoomIds)

\* LobbyDisplay::GetSelection: the line under the last room creates one, and
\* so does a room whose id is 0.
Selections(u) == shownRooms[u] \cup {0}

LobbyPage(u) ==
  /\ UNCHANGED clientState
  /\ \E selected \in Selections(u) :
       \/ /\ selected = 0
          /\ Act(u, "LOBBY", [type |-> "C_ROOM_CREATE"])
          /\ UNCHANGED waiting
       \/ /\ selected # 0
          /\ Act(u, "LOBBY", [type |-> "C_ROOM_ENTER", rid |-> selected])
          /\ waiting' = waiting \cup {u}

\* RoomDisplay::SendChat: what a line typed in a room becomes.  "/ text"
\* whispers to the empty nickname, which the server decodes to another name.
ChatRoomPage(u) ==
  /\ UNCHANGED clientState
  /\ \/ /\ \E p \in ClientPackets : p.type \in Speech /\ Act(u, "CHATROOM", p)
        /\ UNCHANGED waiting
     \/ /\ \E t \in {"C_ROOM_EXIT", "C_SERVER_EXIT"} : Act(u, "CHATROOM", [type |-> t])
        /\ waiting' = waiting \cup {u}

\* The window is closed, the program ends.
CloseClient(u) ==
  /\ fault = "none"
  /\ Connected(u)
  /\ clientState' = [clientState EXCEPT ![u] = "GONE"]
  /\ waiting' = waiting \ {u}
  /\ shownRooms' = [shownRooms EXCEPT ![u] = {}]
  /\ shownUsers' = [shownUsers EXCEPT ![u] = {}]
  /\ toClient' = [toClient EXCEPT ![u] = <<>>]
  /\ UNCHANGED <<vars, toServer, miscast>>

-----------------------------------------------------------------------------
(* What the client does with the packets it receives.                       *)

\* RecvThread takes k packets out of the stream with one recv; the factory
\* decodes the first and the others are dropped.  s is the page after it.
Receive(u, s) ==
  /\ fault = "none"
  /\ Connected(u)
  /\ toClient[u] # <<>>
  /\ \E k \in 1..(IF Coalescing THEN Len(toClient[u]) ELSE 1) :
       toClient' = [toClient EXCEPT ![u] = SubSeq(@, k + 1, Len(@))]
  /\ clientState' = [clientState EXCEPT ![u] = s]
  /\ waiting' = IF s = clientState[u] THEN waiting ELSE waiting \ {u}
  /\ UNCHANGED vars

Received(u) == Head(toClient[u])

\* A handler casts display_ to the class it expects without looking at it:
\* the client is lost when the display is another one.
Miscast(u) ==
  /\ fault = "none"
  /\ Connected(u)
  /\ toClient[u] # <<>>
  /\ \/ /\ Received(u).type = "S_LOBBY_ROOM_INFO"
        /\ Received(u).roomId # {}
        /\ clientState[u] # "LOBBY"
     \/ /\ Received(u).type \in {"S_ROOM_NAME", "S_UNICAST_OK", "S_UNICAST_NO",
                                 "S_MULTICAST", "S_BROADCAST"}
        /\ clientState[u] # "CHATROOM"
     \/ /\ Received(u).type = "S_ROOM_ENTER"
        /\ clientState[u] \notin {"LOBBY", "CHATROOM"}
     \/ /\ Received(u).type = "S_ROOM_EXIT"
        /\ Received(u).uid # u
        /\ clientState[u] # "CHATROOM"
  /\ miscast' = miscast \cup {Received(u).type}
  /\ clientState' = [clientState EXCEPT ![u] = "GONE"]
  /\ waiting' = waiting \ {u}
  /\ shownRooms' = [shownRooms EXCEPT ![u] = {}]
  /\ shownUsers' = [shownUsers EXCEPT ![u] = {}]
  /\ toClient' = [toClient EXCEPT ![u] = <<>>]
  /\ UNCHANGED <<vars, toServer>>

\* A new LobbyDisplay knows no rooms; the client asks for them.
F_SERVER_ENTER_OK(u) ==
  /\ Receive(u, "LOBBY")
  /\ Received(u).type = "S_SERVER_ENTER_OK"
  /\ toServer' = [toServer EXCEPT ![u] = Append(@, [type |-> "C_LOBBY_ROOM_INFO"])]
  /\ UNCHANGED <<shownRooms, shownUsers, miscast>>

F_LOBBY_ROOM_INFO(u) ==
  /\ Receive(u, clientState[u])
  /\ Received(u).type = "S_LOBBY_ROOM_INFO"
  /\ Received(u).roomId # {} => clientState[u] = "LOBBY"
  /\ shownRooms' = [shownRooms EXCEPT ![u] = IF Received(u).roomId = {} THEN @
                                                      ELSE Received(u).roomId]
  /\ UNCHANGED <<shownUsers, toServer, miscast>>

\* The first S_ROOM_ENTER received in the lobby opens the room's page.
F_ROOM_ENTER(u) ==
  /\ clientState[u] \in {"LOBBY", "CHATROOM"}
  /\ Receive(u, "CHATROOM")
  /\ Received(u).type = "S_ROOM_ENTER"
  /\ shownUsers' = [shownUsers EXCEPT ![u] =
                      (IF clientState[u] = "LOBBY" THEN {} ELSE @) \cup {Received(u).uid}]
  /\ shownRooms' = [shownRooms EXCEPT ![u] = {}]
  /\ UNCHANGED <<toServer, miscast>>

\* Mutation: anybody's exit is taken for one's own.
F_ROOM_EXIT_Anybody(u) ==
  /\ Received(u).type = "S_ROOM_EXIT"
  /\ Receive(u, "LOBBY")
  /\ shownUsers' = [shownUsers EXCEPT ![u] = {}]
  /\ shownRooms' = [shownRooms EXCEPT ![u] = {}]
  /\ UNCHANGED <<toServer, miscast>>

\* One's own exit opens a new LobbyDisplay, which knows no rooms.
F_ROOM_EXIT(u) ==
  /\ Received(u).type = "S_ROOM_EXIT"
  /\ \/ /\ Received(u).uid = u
        /\ Receive(u, "LOBBY")
        /\ shownUsers' = [shownUsers EXCEPT ![u] = {}]
        /\ shownRooms' = [shownRooms EXCEPT ![u] = {}]
     \/ /\ Received(u).uid # u
        /\ clientState[u] = "CHATROOM"
        /\ Receive(u, "CHATROOM")
        /\ shownUsers' = [shownUsers EXCEPT ![u] = @ \ {Received(u).uid}]
        /\ UNCHANGED shownRooms
  /\ UNCHANGED <<toServer, miscast>>

\* The room's name and the lines of chat are printed and change no state.
F_ROOM_NAME_or_RECV_CAST(u) ==
  /\ clientState[u] = "CHATROOM"
  /\ Receive(u, "CHATROOM")
  /\ Received(u).type \in {"S_ROOM_NAME", "S_UNICAST_OK", "S_UNICAST_NO",
                           "S_MULTICAST", "S_BROADCAST"}
  /\ UNCHANGED <<shownRooms, shownUsers, toServer, miscast>>

LogicThread(u) ==
  /\ toClient[u] # <<>>
  /\ \/ F_SERVER_ENTER_OK(u) \/ F_LOBBY_ROOM_INFO(u) \/ F_ROOM_ENTER(u)
     \/ F_ROOM_EXIT(u) \/ F_ROOM_NAME_or_RECV_CAST(u) \/ Miscast(u)

-----------------------------------------------------------------------------
(* The server's steps, with their effect on the streams.                    *)

SysCreateUser ==
  /\ CreateUser
  /\ clientState' = [clientState EXCEPT ![userId] = "LOGIN"]
  /\ UNCHANGED <<waiting, shownRooms, shownUsers, toServer, toClient, miscast>>

\* One receive returns the first k packets of the stream, of which one is
\* decoded.  Posting the next receive fails when the client has reset the
\* connection.
SysRecvCompletion(u) ==
  /\ toServer[u] # <<>>
  /\ RecvCompletion(u, Head(toServer[u]))
  /\ recvPending' # recvPending => clientState[u] = "GONE"
  /\ \E k \in 1..(IF Coalescing THEN Len(toServer[u]) ELSE 1) :
       toServer' = [toServer EXCEPT ![u] = SubSeq(@, k + 1, Len(@))]
  /\ UNCHANGED <<clientVars, toClient>>

\* The end of the stream, or a reset that overtakes what is left in it.
SysFailedCompletion(u) ==
  /\ clientState[u] = "GONE"
  /\ FailedCompletion(u)
  /\ toServer' = [toServer EXCEPT ![u] = <<>>]
  /\ UNCHANGED <<clientVars, toClient>>

SysStaleCompletion(u) ==
  /\ StaleCompletion(u)
  /\ UNCHANGED <<clientVars, toServer, toClient>>

\* A worker removes a user whose client is gone, or whose socket the logic thread
\* closes in the handler of the user's C_SERVER_EXIT.
SysOverlap(u) ==
  /\ \/ clientState[u] = "GONE"
     \/ jobQueue # <<>> /\ sender = u /\ packet.type = "C_SERVER_EXIT"
  /\ Overlap(u)
  /\ UNCHANGED <<clientVars, toServer, toClient>>

SysLogicStep ==
  /\ LogicStep
  /\ UNCHANGED <<clientVars, toServer, toClient>>

\* WSASend to an open socket whose peer is there; else the send fails.
SysSendPackage ==
  /\ SendPackage
  /\ LET u == Head(sendQueue).session
     IN  IF u \in recvPending \cap userList /\ Connected(u)
         THEN /\ Len(toClient[u]) < MaxStream
              /\ toClient' = [toClient EXCEPT ![u] = Append(@, Head(sendQueue).packet)]
         ELSE UNCHANGED toClient
  /\ UNCHANGED <<clientVars, toServer>>

ClientStep(u) ==
  \/ SendNickname(u) \/ LobbyPage(u) \/ ChatRoomPage(u)
  \/ CloseClient(u) \/ LogicThread(u)

SysNext ==
  \/ SysCreateUser
  \/ \E u \in Users :
       \/ ClientStep(u) \/ SysRecvCompletion(u)
       \/ SysFailedCompletion(u) \/ SysStaleCompletion(u) \/ SysOverlap(u)
  \/ SysLogicStep
  \/ SysSendPackage

SysSpec == SysInit /\ [][SysNext]_sysVars

\* The server's threads and the clients' receiving threads run.  Receiving is
\* strongly fair because MaxJobs makes the workers wait, which the code's
\* unbounded queue never does.  Nobody is obliged to type, or to connect.
SysFairness ==
  /\ \A u \in Users : SF_sysVars(SysRecvCompletion(u)) /\ WF_sysVars(LogicThread(u))
  /\ WF_sysVars(SysLogicStep)
  /\ WF_sysVars(SysSendPackage)

FairSysSpec == SysSpec /\ SysFairness

-----------------------------------------------------------------------------
(* Properties.                                                              *)

\* Until a removal overlaps a handler (RoomSteps), and of users that wait for the
\* page they asked for: no handler calls a method of a room that is not there, or
\* visits a deleted member.  The handlers make no such check; that the lists of
\* rooms are old, the packets late and the removals between any two handlers does
\* not matter, across both queues and both streams.
HandlersFindTheirRooms == fault \notin {"nullRoom", "staleMember"}

\* Until a removal overlaps a handler, and of users that wait for the page they
\* asked for: Room::users_ and User::currRoom_ agree exactly, so that nobody sits
\* in two rooms, though EnterRoom leaves none, and nobody deleted sits in one.
MembershipExact ==
  \A r \in RoomIds : users[r] = {u \in userList : currRoom[u] = r}

\* Until a removal overlaps a handler, and as long as nobody whispers (a whisper
\* reaches users in the lobby): a page is handed only packets its display
\* understands, whatever others do in the room while the page changes.
DisplaysFit == miscast = {}

\* Nothing is under way between client u and the server.
Settled(u) ==
  /\ Connected(u) /\ u \in recvPending \cap userList
  /\ toServer[u] = <<>> /\ toClient[u] = <<>>
  /\ \A i \in DOMAIN jobQueue : jobQueue[i].session # u
  /\ \A i \in DOMAIN sendQueue : sendQueue[i].session # u

\* Once nothing is under way, the client shows the room's page exactly when the
\* server has the user in a room.
PagesMatchRooms ==
  \A u \in Users : Settled(u) => (clientState[u] = "CHATROOM" <=> ~IsInLobby(u))

\* A user that asks for another page gets it, unless the server has let the
\* user go.
RequestsAnswered ==
  \A u \in Users : u \in waiting ~> (u \notin waiting \/ u \notin userList \/ fault # "none")

-----------------------------------------------------------------------------
(* RoomTalk, the abstract specification, implemented by the two queues, the *)
(* handlers, the streams and the displays.                                  *)

\* What f makes of the elements of s it is defined for, in their order.
Sift(s, f) ==
  LET I == {i \in DOMAIN s : s[i] \in DOMAIN f}
  IN  [k \in 1..Cardinality(I) |->
         f[s[CHOOSE i \in I : Cardinality({j \in I : j <= i}) = k]]]

\* What f makes of the packets on their way to u, in the order they will be
\* shown: the stream first, then what the send thread has not sent.
OnTheWay(u, f) ==
  Sift(toClient[u], f)
    \o Sift(sendQueue, [p \in [session : {u}, packet : DOMAIN f] |-> f[p.packet]])

\* The packets that are news of rooms, and what they tell.
NewsOf ==
  [p \in {q \in ServerPackets : q.type \in {"S_ROOM_ENTER", "S_ROOM_EXIT", "S_MULTICAST"}} |->
     CASE p.type = "S_ROOM_ENTER" -> [kind |-> "enter", who |-> p.uid]
       [] p.type = "S_ROOM_EXIT" -> [kind |-> "exit", who |-> p.uid]
       [] p.type = "S_MULTICAST" -> [kind |-> "say", who |-> 0]]

Outside == NoRoom - 1
Present == {u \in Users : Connected(u)}
Seat == [u \in Users |-> IF u \in userList THEN currRoom[u] ELSE Outside]
Inbox == [u \in Users |-> IF Connected(u) THEN OnTheWay(u, NewsOf) ELSE <<>>]

Talk == INSTANCE RoomTalk WITH
  Rooms <- RoomIds,
  Lobby <- NoRoom,
  MayMiss <- Coalescing,
  present <- Present,
  seat <- Seat,
  inbox <- Inbox,
  shown <- shownUsers

\* Until a removal overlaps a handler: whoever sits in a room is told of everything
\* that happens there, in the order it happens, and nobody else is; the queue all
\* handlers share, the send thread and the streams neither lose, repeat, reorder
\* nor misdirect it.  Where receives return several packets, a user misses what
\* follows the first of one.  (RoomSteps has the same of the handlers' lines.)
ImplementsRoomTalk == Talk!Spec

\* Until a removal overlaps a handler, and of users that wait for the page they
\* asked for: whatever is under way, what each connected member of a room is going
\* to see is members of that room only, oneself included; who is in the lobby
\* is going to see nobody; and of two members the one that was there first is
\* going to see the other.
ViewsAgree ==
  \A u \in {v \in userList : Connected(v)} :
    /\ Talk!View(u) \subseteq Talk!Members(currRoom[u])
    /\ IF IsInLobby(u) THEN Talk!View(u) = {} ELSE u \in Talk!View(u)
    /\ \A v \in userList :
         ~IsInLobby(u) /\ Connected(v) /\ currRoom[v] = currRoom[u] =>
           u \in Talk!View(v) \/ v \in Talk!View(u)
=============================================================================

----------------------------- MODULE ChatClient -----------------------------
(***************************************************************************)
(* The v1.1 client's threads.  main only waits in Close.  The page thread  *)
(* runs the page of state_ and blocks for input; the logic thread handles  *)
(* what was received, replaces the display and changes state_; two threads *)
(* send and receive.  state_, display_ and bIsWorkerRun_ are shared        *)
(* without a lock, so the steps of a page and of a handler are apart.  The *)
(* server is seen from one connection: ChatSystem is about many clients    *)
(* and about several packets in one recv.                                  *)
(*                                                                         *)
(* Users type while the page thread reads and the page they see is the one *)
(* of state_, wait for the page they asked for, and type no empty line and *)
(* no cursor key in a room.                                                *)
(***************************************************************************)
EXTENDS Integers, Sequences, FiniteSetsExt

CONSTANTS
  Lines,     \* what the user types in rooms
  MaxRooms,  \* the rooms the server can have: at that many a new one is ignored
  MaxPackets \* bound on the packets under way when somebody types

ASSUME ChatClientAssumption ==
  Lines \subseteq {"talk", "/lobby", "/quit"} /\ {MaxRooms, MaxPackets} \subseteq Nat \ {0}

VARIABLES
  state_,
  display_,            \* the kind of display, or "deleted"
  bIsWorkerRun_,
  page,                \* the page thread: its place, display, and line read
  logic,               \* what the logic thread has left to do of a handler
  sender, recver, main,
  sendQueue_, recvQueue_,
  toServer, toClient,  \* packets in the socket's two directions
  server,              \* what the server knows: the connection, its rooms, the user in one
  lobby,               \* LobbyDisplay: the sizes of chatRoomIds_ and chatRooms_, the cursor
  roomPacket,          \* how many rooms the list names that is being handled
  shown, asked         \* the user: the page it sees, and what it waits for

user == <<shown, asked>>
lists == <<lobby, roomPacket>>
queues == <<sendQueue_, recvQueue_>>
net == <<toServer, toClient, server>>
workers == <<sender, recver, main, bIsWorkerRun_>>
vars == <<state_, display_, page, logic, workers, queues, net, lists, user>>

ClientPackets == {"C_SERVER_ENTER", "C_SERVER_EXIT", "C_LOBBY_ROOM_INFO", "C_ROOM_CREATE",
                  "C_ROOM_ENTER", "C_ROOM_EXIT", "C_MULTICAST"}
ServerPackets ==
  [type : {"S_LOBBY_ROOM_INFO"}, rooms : 0..MaxRooms]
    \cup [type : {"S_SERVER_ENTER_OK", "S_ROOM_ENTER", "S_ROOM_NAME", "S_ROOM_EXIT", "S_MULTICAST"}]
NoRooms == [ids |-> 0, names |-> 0, cursor |-> 0]
Places == {"choose", "nickname", "pending", "enter", "lobby", "lobbyLoop", "getch", "arrow",
           "cursor", "select", "room", "roomLoop", "getline", "typed", "talk", "onSend", "ended"}
NoLine == [text |-> "", whole |-> TRUE]

\* The page drawn for a state.
PageOf == [LOGIN |-> "login", PENDING |-> "login", LOBBY |-> "lobby", CHATROOM |-> "room"]

TypeOK ==
  /\ state_ \in DOMAIN PageOf
  /\ display_ \in {"login", "lobby", "room", "deleted"}
  /\ page \in [at : Places, display : {"none", "login", "lobby", "room", "deleted"},
               line : [text : Lines \cup {""}, whole : BOOLEAN]]
  /\ logic \in Seq({"delete", "lobby", "room", "draw", "ids", "names", "print", "push"} \cup DOMAIN PageOf)
  /\ sender \in {"running", "ended"} /\ recver \in {"running", "recv", "closing", "aborted", "ended"}
  /\ main \in {"joinSender", "joinRecver", "closed"} /\ bIsWorkerRun_ \in BOOLEAN
  /\ sendQueue_ \in Seq(ClientPackets) /\ toServer \in Seq(ClientPackets)
  /\ recvQueue_ \in Seq(ServerPackets) /\ toClient \in Seq(ServerPackets)
  /\ server \in [connected : BOOLEAN, rooms : 0..MaxRooms, inRoom : BOOLEAN]
  /\ lobby \in [ids : 0..MaxRooms, names : 0..MaxRooms, cursor : 0..MaxRooms]
  /\ roomPacket \in 0..MaxRooms
  /\ shown \in {"login", "lobby", "room"} /\ asked \in {"none", "page", "end"}

Init ==
  /\ state_ = "LOGIN" /\ display_ = "login"
  /\ page = [at |-> "choose", display |-> "none", line |-> NoLine]
  /\ logic = <<>>
  /\ sender = "running" /\ recver = "running" /\ main = "joinSender" /\ bIsWorkerRun_ = TRUE
  /\ sendQueue_ = <<>> /\ recvQueue_ = <<>> /\ toServer = <<>> /\ toClient = <<>>
  /\ server \in [connected : {TRUE}, rooms : 0..MaxRooms, inRoom : {FALSE}]
  /\ lobby = NoRooms /\ roomPacket = 0 /\ shown = "login" /\ asked = "none"

-----------------------------------------------------------------------------
(* The user.                                                                *)

\* The program has not ended, nor aborted on a thread's attempt to join itself.
Alive == recver # "aborted" /\ main # "closed"

UnderWay == Len(sendQueue_) + Len(toServer) + Len(toClient) + Len(recvQueue_)

\* The user types k on page s, and the page thread goes on at `to'.
Types(s, from, to) ==
  /\ page.at = from /\ Alive
  /\ shown = s /\ PageOf[state_] = s /\ asked = "none"
  /\ UnderWay < MaxPackets
  /\ page' = [page EXCEPT !.at = to]
  /\ UNCHANGED <<state_, display_, logic, workers, queues, net, lists, user>>

TypeNickname == Types("login", "nickname", "pending")

\* Enter, or a cursor key.  A page thread that is still in the room's getline
\* takes Enter for an empty line.
TypeInLobby ==
  \/ Types("lobby", "getch", "select")
  \/ Types("lobby", "getch", "arrow")
  \/ Types("lobby", "getline", "roomLoop")

\* A line.  A page thread that is still in the lobby's getch takes its first
\* character for a key, and leaves the rest to getline.
TypeInRoom ==
  /\ page.line = NoLine
  /\ \E from \in {"getch", "getline"}, text \in Lines :
       /\ page.at = from /\ Alive
       /\ shown = "room" /\ state_ = "CHATROOM" /\ asked = "none"
       /\ UnderWay < MaxPackets
       /\ page' = [page EXCEPT !.at = IF from = "getch" THEN "lobbyLoop" ELSE "typed",
                               !.line = [text |-> text, whole |-> from = "getline"]]
  /\ UNCHANGED <<state_, display_, logic, workers, queues, net, lists, user>>

-----------------------------------------------------------------------------
(* The page thread.                                                         *)

PageStep(from, to) ==
  /\ page.at = from /\ Alive
  /\ page' = [page EXCEPT !.at = to]
  /\ UNCHANGED <<display_, logic, workers, recvQueue_, net, roomPacket, shown>>

PushQueue(p) == sendQueue_' = Append(sendQueue_, p)

\* StateProcessThread and StateProcess: the page of the state.
StateProcess ==
  /\ page.at = "choose"
  /\ \E to \in {"choose", "nickname", "lobby", "room", "ended"} :
       /\ to = IF ~bIsWorkerRun_ THEN "ended"
               ELSE [LOGIN |-> "nickname", PENDING |-> "choose",
                     LOBBY |-> "lobby", CHATROOM |-> "room"][state_]
       /\ to # "choose"
       /\ PageStep("choose", to)
  /\ UNCHANGED <<state_, sendQueue_, lobby, asked>>

\* The nickname has been read.
SendNickname ==
  \/ /\ PageStep("pending", "enter")
     /\ state_' = "PENDING"
     /\ UNCHANGED <<sendQueue_, lobby, asked>>
  \/ /\ PageStep("enter", "choose")
     /\ PushQueue("C_SERVER_ENTER")
     /\ UNCHANGED <<state_, lobby, asked>>

\* A page keeps the display it starts with.
TakeDisplay ==
  /\ page.at \in {"lobby", "room"} /\ Alive
  /\ page' = [page EXCEPT !.at = IF @ = "lobby" THEN "lobbyLoop" ELSE "roomLoop", !.display = display_]
  /\ UNCHANGED <<state_, display_, logic, workers, queues, net, lists, user>>

\* A cursor key moves the display's cursor, if the state is the lobby's still,
\* over the rooms and the line below them.  Enter asks for the room under the
\* cursor or, from that line, for a new one, which is not entered.
LobbyPage ==
  \/ /\ PageStep("lobbyLoop", IF state_ = "LOBBY" THEN "getch" ELSE "choose")
     /\ UNCHANGED <<state_, sendQueue_, lobby, asked>>
  \/ /\ PageStep("arrow", IF state_ = "LOBBY" THEN "cursor" ELSE "choose")
     /\ UNCHANGED <<state_, sendQueue_, lobby, asked>>
  \/ /\ PageStep("cursor", "lobbyLoop")
     /\ \E c \in {Max({lobby.cursor - 1, 0}), Min({lobby.cursor + 1, lobby.names})} :
          lobby' = [lobby EXCEPT !.cursor = c]
     /\ UNCHANGED <<state_, sendQueue_, asked>>
  \/ /\ PageStep("select", "lobbyLoop")
     /\ IF lobby.cursor = lobby.names
        THEN PushQueue("C_ROOM_CREATE") /\ UNCHANGED asked
        ELSE PushQueue("C_ROOM_ENTER") /\ asked' = "page"
     /\ UNCHANGED <<state_, lobby>>

\* Mutation: what is queued is the line.
SendChat_AsTyped(line) == line.text

\* RoomDisplay::SendChat: what is sent for a line.  A command without its first
\* character is talk.
SendChat(line) ==
  CASE line = [text |-> "/lobby", whole |-> TRUE] -> "C_ROOM_EXIT"
    [] line = [text |-> "/quit", whole |-> TRUE]  -> "C_SERVER_EXIT"
    [] OTHER -> "C_MULTICAST"

ChatRoomPage ==
  \/ /\ PageStep("roomLoop", IF state_ = "CHATROOM" THEN "getline" ELSE "choose")
     /\ UNCHANGED <<state_, sendQueue_, lobby, asked>>
  \/ /\ page.line # NoLine
     /\ PageStep("getline", "typed")
     /\ UNCHANGED <<state_, sendQueue_, lobby, asked>>
  \/ /\ PageStep("typed", IF state_ = "CHATROOM" THEN "talk" ELSE "choose")
     /\ UNCHANGED <<state_, sendQueue_, lobby, asked>>
  \/ /\ PageStep("talk", "onSend")
     /\ PushQueue(SendChat(page.line))
     /\ asked' = CASE SendChat(page.line) = "C_ROOM_EXIT" -> "page"
                   [] SendChat(page.line) = "C_SERVER_EXIT" -> "end"
                   [] OTHER -> asked
     /\ UNCHANGED <<state_, lobby>>

\* The display's OnSend, and the line is forgotten.
OnSend ==
  /\ page.at = "onSend" /\ Alive
  /\ page' = [page EXCEPT !.at = "roomLoop", !.line = NoLine]
  /\ UNCHANGED <<state_, display_, logic, workers, queues, net, lists, user>>

PageThread ==
  StateProcess \/ SendNickname \/ TakeDisplay \/ LobbyPage \/ ChatRoomPage \/ OnSend

-----------------------------------------------------------------------------
(* The logic thread: a handler is the sequence of its steps.                *)

\* Mutation: the state is the lobby's before its display is there.
F_SERVER_ENTER_OK_StateFirst == <<"LOBBY", "delete", "lobby", "draw", "push">>

F_SERVER_ENTER_OK == <<"delete", "lobby", "draw", "LOBBY", "push">>

\* The first enter in the lobby is the user's own; it opens the room's page.
F_ROOM_ENTER ==
  IF state_ = "LOBBY" THEN <<"delete", "room", "draw", "CHATROOM", "print">> ELSE <<"print">>

\* Mutation: the state stays the room's.
F_ROOM_EXIT_KeepsState == <<"delete", "lobby", "draw">>

\* The user's own exit.
F_ROOM_EXIT == <<"delete", "lobby", "LOBBY", "draw">>

\* Mutation: the names are set before the ids.
SetRoomList_NamesFirst == <<"names", "ids">>

\* LobbyDisplay::SetRoomList, while the page thread may move the cursor.
SetRoomList == <<"ids", "names">>

\* RecvProcess: a list of no rooms is ignored; a room's name and what is said
\* are printed by the room's display.
Handler(p) ==
  CASE p.type = "S_SERVER_ENTER_OK" -> F_SERVER_ENTER_OK
    [] p.type = "S_LOBBY_ROOM_INFO" -> IF p.rooms = 0 THEN <<>> ELSE SetRoomList
    [] p.type = "S_ROOM_ENTER"      -> F_ROOM_ENTER
    [] p.type = "S_ROOM_EXIT"       -> F_ROOM_EXIT
    [] OTHER -> <<"print">>

RecvProcess ==
  /\ logic = <<>> /\ recvQueue_ # <<>> /\ bIsWorkerRun_ /\ Alive
  /\ LET p == Head(recvQueue_)
     IN  /\ logic' = Handler(p)
         /\ roomPacket' = IF p.type = "S_LOBBY_ROOM_INFO" THEN p.rooms ELSE 0
  /\ recvQueue_' = Tail(recvQueue_)
  /\ UNCHANGED <<state_, display_, page, workers, sendQueue_, net, lobby, user>>

HandlerStep ==
  /\ logic # <<>> /\ Alive
  /\ LET step == Head(logic)
     IN  /\ display_' = IF step = "delete" THEN "deleted"
                        ELSE IF step \in {"lobby", "room"} THEN step ELSE display_
         /\ page' = IF step = "delete" /\ page.display # "none"
                    THEN [page EXCEPT !.display = "deleted"] ELSE page
         /\ state_' = IF step \in DOMAIN PageOf THEN step ELSE state_
         /\ lobby' = CASE step = "delete" -> NoRooms
                       [] step = "ids" -> [lobby EXCEPT !.ids = roomPacket]
                       [] step = "names" -> [lobby EXCEPT !.names = roomPacket]
                       [] OTHER -> lobby
         /\ shown' = IF step = "draw" THEN display_ ELSE shown
         /\ asked' = IF step = "draw" /\ asked = "page" THEN "none" ELSE asked
         /\ IF step = "push" THEN PushQueue("C_LOBBY_ROOM_INFO") ELSE UNCHANGED sendQueue_
  /\ logic' = Tail(logic)
  /\ UNCHANGED <<workers, recvQueue_, net, roomPacket>>

LogicThread == RecvProcess \/ HandlerStep

-----------------------------------------------------------------------------
(* The other threads.                                                       *)

\* Mutation: the thread sends on after a send has failed.
SendThread_Forever ==
  /\ sender = "running" /\ Alive /\ sendQueue_ # <<>>
  /\ sendQueue_' = Tail(sendQueue_)
  /\ IF server.connected THEN toServer' = Append(toServer, Head(sendQueue_)) /\ UNCHANGED bIsWorkerRun_
     ELSE bIsWorkerRun_' \in {bIsWorkerRun_, FALSE} /\ UNCHANGED toServer
  /\ UNCHANGED <<state_, display_, page, logic, sender, recver, main, recvQueue_, toClient, server, lists, user>>

\* A send to a server that has closed fails, at the latest the second time;
\* nothing tells a successful one from a packet lost.
SendThread ==
  /\ sender = "running" /\ Alive
  /\ IF ~bIsWorkerRun_
     THEN sender' = "ended" /\ UNCHANGED <<bIsWorkerRun_, sendQueue_, toServer>>
     ELSE /\ sendQueue_ # <<>>
          /\ sendQueue_' = Tail(sendQueue_)
          /\ IF server.connected
             THEN toServer' = Append(toServer, Head(sendQueue_)) /\ UNCHANGED bIsWorkerRun_
             ELSE bIsWorkerRun_' \in BOOLEAN /\ UNCHANGED toServer
          /\ UNCHANGED sender
  /\ UNCHANGED <<state_, display_, page, logic, recver, main, recvQueue_, toClient, server, lists, user>>

\* recv returns a packet, or the end of the stream.
Recv ==
  /\ recver = "recv" /\ Alive
  /\ \/ /\ toClient # <<>>
        /\ recvQueue_' = Append(recvQueue_, Head(toClient))
        /\ toClient' = Tail(toClient)
        /\ recver' = "running"
     \/ /\ toClient = <<>> /\ ~server.connected
        /\ recver' = "closing"
        /\ UNCHANGED <<recvQueue_, toClient>>
  /\ UNCHANGED <<state_, display_, page, logic, sender, main, bIsWorkerRun_, sendQueue_, toServer,
                 server, lists, user>>

\* The loop's check; and Close, called by RecvThread: it waits for the sending
\* thread, and then for itself, which throws.
RecvThread ==
  \/ Recv
  \/ /\ Alive
     /\ \/ recver = "running" /\ recver' = IF bIsWorkerRun_ THEN "recv" ELSE "ended"
        \/ recver = "closing" /\ sender = "ended" /\ recver' = "aborted"
     /\ UNCHANGED <<state_, display_, page, logic, sender, main, bIsWorkerRun_, queues, net, lists, user>>

\* Close, called by main.
Close ==
  /\ Alive
  /\ \/ main = "joinSender" /\ sender = "ended" /\ main' = "joinRecver" /\ UNCHANGED bIsWorkerRun_
     \/ main = "joinRecver" /\ recver = "ended" /\ main' = "closed" /\ bIsWorkerRun_' = FALSE
  /\ UNCHANGED <<state_, display_, page, logic, sender, recver, queues, net, lists, user>>

-----------------------------------------------------------------------------
(* The server, and the others in the room.                                  *)

RoomList(n) == [type |-> "S_LOBBY_ROOM_INFO", rooms |-> n]
Packet(t) == [type |-> t]
MoreRooms == Min({server.rooms + 1, MaxRooms})

\* Mutation: the room's name goes out before the news of who enters.
Answer_NameFirst(p) ==
  CASE p = "C_SERVER_ENTER" -> <<Packet("S_SERVER_ENTER_OK"), RoomList(server.rooms)>>
    [] p = "C_LOBBY_ROOM_INFO" -> <<RoomList(server.rooms)>>
    [] p = "C_ROOM_CREATE" -> <<RoomList(MoreRooms)>>
    [] p = "C_ROOM_ENTER" -> <<Packet("S_ROOM_NAME"), Packet("S_ROOM_ENTER")>>
    [] p = "C_ROOM_EXIT" -> <<Packet("S_ROOM_EXIT")>>
    [] p = "C_MULTICAST" -> <<Packet("S_MULTICAST")>>
    [] p = "C_SERVER_EXIT" -> <<>>

Answer(p) ==
  CASE p = "C_SERVER_ENTER" -> <<Packet("S_SERVER_ENTER_OK"), RoomList(server.rooms)>>
    [] p = "C_LOBBY_ROOM_INFO" -> <<RoomList(server.rooms)>>
    [] p = "C_ROOM_CREATE" -> <<RoomList(MoreRooms)>>
    [] p = "C_ROOM_ENTER" -> <<Packet("S_ROOM_ENTER"), Packet("S_ROOM_NAME")>>
    [] p = "C_ROOM_EXIT" -> <<Packet("S_ROOM_EXIT")>>
    [] p = "C_MULTICAST" -> <<Packet("S_MULTICAST")>>
    [] p = "C_SERVER_EXIT" -> <<>>

Serve ==
  /\ server.connected /\ toServer # <<>>
  /\ LET p == Head(toServer)
     IN  /\ toClient' = toClient \o Answer(p)
         /\ server' = [connected |-> p # "C_SERVER_EXIT",
                       rooms |-> IF p = "C_ROOM_CREATE" THEN MoreRooms ELSE server.rooms,
                       inRoom |-> p = "C_ROOM_ENTER" \/ (server.inRoom /\ p # "C_ROOM_EXIT")]
  /\ toServer' = Tail(toServer)
  /\ UNCHANGED <<state_, display_, page, logic, workers, queues, lists, user>>

OthersAct ==
  /\ server.connected /\ server.inRoom /\ UnderWay < MaxPackets
  /\ \E t \in {"S_ROOM_ENTER", "S_MULTICAST"} : toClient' = Append(toClient, Packet(t))
  /\ UNCHANGED <<state_, display_, page, logic, workers, queues, toServer, server, lists, user>>

\* The server ends.
ServerCloses ==
  /\ server.connected
  /\ server' = [server EXCEPT !.connected = FALSE]
  /\ toServer' = <<>>
  /\ UNCHANGED <<state_, display_, page, logic, workers, queues, toClient, lists, user>>

-----------------------------------------------------------------------------
Next ==
  \/ TypeNickname \/ TypeInLobby \/ TypeInRoom
  \/ PageThread \/ LogicThread \/ SendThread \/ RecvThread \/ Close
  \/ Serve \/ OthersAct \/ ServerCloses

\* The threads and the server run; nobody has to type, and the server may stay.
Fairness ==
  /\ WF_vars(PageThread) /\ WF_vars(LogicThread) /\ WF_vars(SendThread) /\ WF_vars(RecvThread)
  /\ WF_vars(Close) /\ WF_vars(Serve)

Spec == Init /\ [][Next]_vars /\ Fairness

-----------------------------------------------------------------------------
(* Properties.                                                              *)

\* A page uses the display it started with only while that is the one on the
\* screen: the logic thread has not deleted it under the page's hands.  Only
\* the OnSend after a /lobby may come after the answer to it.
PageUsesItsDisplay ==
  /\ page.at \in {"cursor", "select"} => page.display = "lobby"
  /\ page.at = "talk" => page.display = "room"
  /\ page.at = "onSend" => page.display = "room" \/ SendChat(page.line) = "C_ROOM_EXIT"

\* The cursor is on a room whose id is known or on the line below the rooms,
\* also between the two assignments of SetRoomList.
SelectionHasId ==
  page.at \in {"cursor", "select"} =>
    lobby.cursor < lobby.ids \/ lobby.cursor = lobby.names

\* A handler's next step finds the kind of display it casts display_ to.
HandlersFitDisplay ==
  logic # <<>> =>
    /\ Head(logic) \in {"ids", "names"} => display_ = "lobby"
    /\ Head(logic) = "print" => display_ = "room"
    /\ Head(logic) = "draw" => display_ # "deleted"

\* A user that has given its nickname gets to the lobby's page, and a page that
\* was asked for is drawn and is then the page of the state, unless the server
\* goes: the answers and the page thread's assignments cannot cross.
AnswersShown ==
  /\ state_ = "PENDING" ~> (page.at = "getch" \/ ~server.connected)
  /\ asked = "page" ~> (asked = "none" /\ shown = PageOf[state_]) \/ ~server.connected

\* A send that fails ends the program: by main's Close, or by an abort in the
\* Close of the receiving thread.
FailedSendEnds == ~bIsWorkerRun_ ~> ~Alive
=============================================================================

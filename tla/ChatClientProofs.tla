-------------------------- MODULE ChatClientProofs --------------------------
(***************************************************************************)
(* What the v1.1 client's threads may rely on without a lock, for any      *)
(* number of rooms and of packets under way.  A handler goes through a     *)
(* fixed sequence of stages; packets under way to the client suit the page *)
(* it will be on when it comes to them, because a user waits for the page  *)
(* it asked for; and the page thread is at a few places only while a page  *)
(* is changed.                                                             *)
(***************************************************************************)
EXTENDS ChatClient, SequenceTheorems, TLAPS

\* What is on its way to the server, and what to the logic thread.
Requests == toServer \o sendQueue_
News == recvQueue_ \o toClient

-----------------------------------------------------------------------------
(* The invariant.                                                           *)

\* The step the handler ends with, which tells the handlers apart.
EndsWith(step) == logic # <<>> /\ logic[Len(logic)] = step

Arriving == EndsWith("push")
Entering == EndsWith("print") /\ state_ = "LOBBY"
Leaving == EndsWith("draw")
Listing == EndsWith("names")

\* The page the logic thread is on once it is through with its handler.
Here ==
  IF Arriving \/ Leaving THEN "lobby" ELSE IF Entering THEN "room" ELSE PageOf[state_]

Stage(steps, state, display, page_, waits) ==
  logic = steps /\ state_ = state /\ display_ = display /\ shown = page_ /\ asked \in waits

AtRest ==
  \/ Stage(<<>>, "LOGIN", "login", "login", {"none"})
  \/ Stage(<<>>, "PENDING", "login", "login", {"none"})
  \/ Stage(<<>>, "LOBBY", "lobby", "lobby", {"none", "page"})
  \/ Stage(<<>>, "CHATROOM", "room", "room", {"none", "page", "end"})

InF_SERVER_ENTER_OK ==
  \/ Stage(<<"delete", "lobby", "draw", "LOBBY", "push">>, "PENDING", "login", "login", {"none"})
  \/ Stage(<<"lobby", "draw", "LOBBY", "push">>, "PENDING", "deleted", "login", {"none"})
  \/ Stage(<<"draw", "LOBBY", "push">>, "PENDING", "lobby", "login", {"none"})
  \/ Stage(<<"LOBBY", "push">>, "PENDING", "lobby", "lobby", {"none"})
  \/ Stage(<<"push">>, "LOBBY", "lobby", "lobby", {"none"})

InF_ROOM_ENTER ==
  \/ Stage(<<"delete", "room", "draw", "CHATROOM", "print">>, "LOBBY", "lobby", "lobby", {"page"})
  \/ Stage(<<"room", "draw", "CHATROOM", "print">>, "LOBBY", "deleted", "lobby", {"page"})
  \/ Stage(<<"draw", "CHATROOM", "print">>, "LOBBY", "room", "lobby", {"page"})
  \/ Stage(<<"CHATROOM", "print">>, "LOBBY", "room", "room", {"none"})

InPrint == Stage(<<"print">>, "CHATROOM", "room", "room", {"none", "page", "end"})

InF_ROOM_EXIT ==
  \/ Stage(<<"delete", "lobby", "LOBBY", "draw">>, "CHATROOM", "room", "room", {"page"})
  \/ Stage(<<"lobby", "LOBBY", "draw">>, "CHATROOM", "deleted", "room", {"page"})
  \/ Stage(<<"LOBBY", "draw">>, "CHATROOM", "lobby", "room", {"page"})
  \/ Stage(<<"draw">>, "LOBBY", "lobby", "room", {"page"})

InSetRoomList ==
  \/ Stage(<<"ids", "names">>, "LOBBY", "lobby", "lobby", {"none", "page"})
  \/ Stage(<<"names">>, "LOBBY", "lobby", "lobby", {"none", "page"})

Stages ==
  AtRest \/ InF_SERVER_ENTER_OK \/ InF_ROOM_ENTER \/ InPrint \/ InF_ROOM_EXIT \/ InSetRoomList

IsList(p) == p.type = "S_LOBBY_ROOM_INFO"
IsExit(p) == p.type = "S_ROOM_EXIT"

\* Before the login: one request, and then its answer.
LoginStream ==
  Here = "login" =>
    /\ ~server.inRoom
    /\ server.connected => Len(Requests) <= 1 /\ \A i \in DOMAIN Requests : Requests[i] = "C_SERVER_ENTER"
    /\ server.connected /\ Requests # <<>> => News = <<>>
    /\ page.at \in {"nickname", "pending", "enter"} \/ state_ = "LOGIN" =>
         News = <<>> /\ (server.connected => Requests = <<>>)
    /\ News # <<>> => News[1].type = "S_SERVER_ENTER_OK"
    /\ \A i \in DOMAIN News : i # 1 => IsList(News[i])

\* In the lobby: lists, and once the server has the user in a room, the news
\* of its own entrance and then the room's.
LobbyStream ==
  Here = "lobby" =>
    /\ \A i \in DOMAIN News : IsList(News[i]) \/ News[i].type \in {"S_ROOM_ENTER", "S_ROOM_NAME", "S_MULTICAST"}
    /\ \A i, j \in DOMAIN News : i < j /\ IsList(News[j]) => IsList(News[i])
    /\ \A i \in DOMAIN News :
         ~IsList(News[i]) /\ (\A j \in 1..(i - 1) : IsList(News[j])) => News[i].type = "S_ROOM_ENTER"
    /\ server.inRoom <=> \E i \in DOMAIN News : ~IsList(News[i])
    /\ server.connected =>
         \A i \in DOMAIN Requests :
           /\ Requests[i] \in {"C_LOBBY_ROOM_INFO", "C_ROOM_CREATE", "C_ROOM_ENTER"}
           /\ Requests[i] = "C_ROOM_ENTER" => i = Len(Requests) /\ asked = "page"
    /\ server.inRoom => asked = "page" /\ (server.connected => Requests = <<>>)
    /\ Leaving => ~server.inRoom /\ (server.connected => Requests = <<>>)

\* In a room: its news, and last of all the user's own exit.
RoomStream ==
  Here = "room" =>
    /\ \A i \in DOMAIN News : News[i].type \in {"S_ROOM_ENTER", "S_ROOM_NAME", "S_MULTICAST", "S_ROOM_EXIT"}
    /\ \A i \in DOMAIN News : IsExit(News[i]) => i = Len(News) /\ ~server.inRoom
    /\ ~server.inRoom => asked = "page" /\ (server.connected => Requests = <<>>)
    /\ server.connected =>
         \A i \in DOMAIN Requests :
           /\ Requests[i] \in {"C_MULTICAST", "C_ROOM_EXIT", "C_SERVER_EXIT"}
           /\ Requests[i] = "C_ROOM_EXIT" => i = Len(Requests) /\ asked = "page"
           /\ Requests[i] = "C_SERVER_EXIT" => i = Len(Requests) /\ asked = "end"
    /\ Entering => server.inRoom /\ (server.connected => Requests = <<>>)

\* Where the page thread can be.
Whereabouts ==
  /\ state_ = "LOGIN" => page.at \in {"choose", "nickname", "pending", "ended"}
  /\ state_ = "PENDING" => page.at \in {"choose", "enter", "ended"}
  /\ page.at \in {"nickname", "pending"} => state_ = "LOGIN"
  /\ page.at = "enter" => state_ = "PENDING" /\ logic = <<>>
  /\ page.at \in {"lobby", "arrow", "cursor", "select"} => state_ = "LOBBY" /\ Here = "lobby"
  /\ page.at \in {"room", "typed", "talk"} => state_ = "CHATROOM" /\ Here = "room"
  /\ page.at \in {"arrow", "cursor", "select", "typed", "talk"} => asked = "none"
  /\ Entering => page.at \in {"lobbyLoop", "getch"}
  /\ asked = "page" /\ state_ = "LOBBY" /\ ~Leaving => page.at \in {"lobbyLoop", "getch"}
  /\ asked # "none" /\ state_ = "CHATROOM" => page.at \in {"onSend", "roomLoop", "getline"}
  /\ asked = "end" => state_ = "CHATROOM"

\* The display it has there, and the line.
Hands ==
  /\ page.at \in {"lobbyLoop", "getch", "arrow", "cursor", "select"} /\ Here = "lobby" =>
       page.display = "lobby"
  /\ page.at \in {"roomLoop", "getline", "typed", "talk"} /\ Here = "room" => page.display = "room"
  /\ page.at = "onSend" =>
       \/ /\ Here = "room" /\ state_ = "CHATROOM" /\ page.display = "room"
          /\ asked = "page" => SendChat(page.line) = "C_ROOM_EXIT"
       \/ Here = "lobby" /\ SendChat(page.line) = "C_ROOM_EXIT"
  /\ page.line # NoLine =>
       \/ page.at = "onSend"
       \/ /\ page.at \in {"lobbyLoop", "choose", "room", "roomLoop", "getline", "typed", "talk", "ended"}
          /\ asked = "none" /\ state_ = "CHATROOM" /\ Here = "room"

\* The display's list and the lists under way only grow.
Lists ==
  /\ lobby.cursor <= lobby.names /\ lobby.names <= lobby.ids /\ lobby.names <= server.rooms
  /\ logic # <<"names">> => lobby.ids = lobby.names
  /\ logic = <<"names">> => lobby.ids = roomPacket
  /\ Arriving \/ Here = "login" => lobby.names = 0
  /\ Listing => lobby.names <= roomPacket /\ roomPacket <= server.rooms
  /\ \A i \in DOMAIN News :
       IsList(News[i]) =>
         /\ lobby.names <= News[i].rooms /\ News[i].rooms <= server.rooms
         /\ Listing => roomPacket <= News[i].rooms
         /\ \A j \in DOMAIN News : i < j /\ IsList(News[j]) => News[i].rooms <= News[j].rooms

Inv == TypeOK /\ Stages /\ LoginStream /\ LobbyStream /\ RoomStream /\ Whereabouts /\ Hands /\ Lists

-----------------------------------------------------------------------------
(* Sequences and stages.                                                    *)

\* t is s with x behind it; t is s without its first element.
Grows(s, t, x) ==
  Len(t) = Len(s) + 1 /\ (\A i \in 1..Len(s) : t[i] = s[i]) /\ t[Len(t)] = x
Shrinks(s, t) ==
  Len(t) = Len(s) - 1 /\ \A i \in 1..Len(t) : t[i] = s[i + 1]

\* Pushing to the second of two queues puts the packet behind all under way.
LEMMA PushGrows ==
  ASSUME NEW S, NEW s \in Seq(S), NEW t \in Seq(S), NEW x \in S
  PROVE  Grows(s \o t, s \o Append(t, x), x) /\ Grows(s, Append(s, x), x)
  BY ConcatProperties, AppendProperties, LenProperties DEF Grows

\* Taking from the first of two queues takes the first packet under way.
LEMMA TakeShrinks ==
  ASSUME NEW S, NEW s \in Seq(S), NEW t \in Seq(S), s # <<>>
  PROVE  /\ Shrinks(s \o t, Tail(s) \o t)
         /\ s \o t # <<>> /\ (s \o t)[1] = Head(s)
<1>1. /\ Tail(s) \in Seq(S) /\ Len(Tail(s)) = Len(s) - 1 /\ Len(s) \in Nat \ {0}
      /\ \A i \in 1..Len(Tail(s)) : Tail(s)[i] = s[i + 1]
  BY HeadTailProperties, EmptySeq, LenProperties
<1>2. Len(s \o t) = Len(s) + Len(t) /\ Len(Tail(s) \o t) = Len(s) - 1 + Len(t) /\ Len(t) \in Nat
  BY <1>1, ConcatProperties, LenProperties
<1>3. ASSUME NEW i \in 1..Len(Tail(s) \o t) PROVE (Tail(s) \o t)[i] = (s \o t)[i + 1]
  BY <1>1, <1>2, <1>3, ConcatProperties
<1>4. (s \o t)[1] = s[1] /\ Head(s) = s[1]
  BY <1>1, <1>2, ConcatProperties
<1> QED
  BY <1>1, <1>2, <1>3, <1>4 DEF Shrinks

\* Passing a packet from queue to stream changes nothing of what is under way.
LEMMA PassKeeps ==
  ASSUME NEW S, NEW s \in Seq(S), NEW t \in Seq(S), t # <<>>
  PROVE  Append(s, Head(t)) \o Tail(t) = s \o t
<1>1. Head(t) \in S /\ Tail(t) \in Seq(S) /\ Len(Tail(t)) = Len(t) - 1 /\ Len(t) \in Nat \ {0}
      /\ (\A i \in 1..Len(Tail(t)) : Tail(t)[i] = t[i + 1]) /\ Head(t) = t[1]
  BY HeadTailProperties, EmptySeq, LenProperties
<1>2. Append(s, Head(t)) \in Seq(S) /\ Len(Append(s, Head(t))) = Len(s) + 1 /\ Len(s) \in Nat
      /\ Append(s, Head(t))[Len(s) + 1] = Head(t)
      /\ \A i \in 1..Len(s) : Append(s, Head(t))[i] = s[i]
  BY <1>1, AppendProperties, LenProperties
<1> DEFINE u == Append(s, Head(t)) \o Tail(t)
<1>3. u \in Seq(S) /\ s \o t \in Seq(S) /\ Len(u) = Len(s) + Len(t) /\ Len(s \o t) = Len(s) + Len(t)
  BY <1>1, <1>2, ConcatProperties
<1>4. ASSUME NEW i \in 1..Len(u) PROVE u[i] = (s \o t)[i]
  BY <1>1, <1>2, <1>3, <1>4, ConcatProperties
<1> QED
  BY <1>3, <1>4, SeqEqual

\* The parts of the types, by what changes together.
PageType ==
  page \in [at : Places, display : {"none", "login", "lobby", "room", "deleted"},
            line : [text : Lines \cup {""}, whole : BOOLEAN]]
LogicType ==
  /\ state_ \in DOMAIN PageOf
  /\ display_ \in {"login", "lobby", "room", "deleted"}
  /\ logic \in Seq({"delete", "lobby", "room", "draw", "ids", "names", "print", "push"} \cup DOMAIN PageOf)
ThreadsType ==
  /\ sender \in {"running", "ended"} /\ recver \in {"running", "recv", "closing", "aborted", "ended"}
  /\ main \in {"joinSender", "joinRecver", "closed"} /\ bIsWorkerRun_ \in BOOLEAN
RequestsType == sendQueue_ \in Seq(ClientPackets) /\ toServer \in Seq(ClientPackets)
NewsType == recvQueue_ \in Seq(ServerPackets) /\ toClient \in Seq(ServerPackets)
ServerType == server \in [connected : BOOLEAN, rooms : 0..MaxRooms, inRoom : BOOLEAN]
ListsType ==
  /\ lobby \in [ids : 0..MaxRooms, names : 0..MaxRooms, cursor : 0..MaxRooms]
  /\ roomPacket \in 0..MaxRooms
UserType == shown \in {"login", "lobby", "room"} /\ asked \in {"none", "page", "end"}

\* TypeOK is its parts, now and in the next state.
LEMMA TypeParts ==
  /\ TypeOK <=> /\ PageType /\ LogicType /\ ThreadsType /\ RequestsType
                /\ NewsType /\ ServerType /\ ListsType /\ UserType
  /\ TypeOK' <=> /\ PageType' /\ LogicType' /\ ThreadsType' /\ RequestsType'
                 /\ NewsType' /\ ServerType' /\ ListsType' /\ UserType'
  BY Zenon DEF TypeOK, PageType, LogicType, ThreadsType, RequestsType, NewsType, ServerType, ListsType, UserType

\* A part of the types stays true while its variables stay.
LEMMA TypesKept ==
  /\ PageType /\ UNCHANGED page => PageType'
  /\ LogicType /\ UNCHANGED <<state_, display_, logic>> => LogicType'
  /\ ThreadsType /\ UNCHANGED workers => ThreadsType'
  /\ RequestsType /\ UNCHANGED <<sendQueue_, toServer>> => RequestsType'
  /\ NewsType /\ UNCHANGED <<recvQueue_, toClient>> => NewsType'
  /\ ServerType /\ UNCHANGED server => ServerType'
  /\ ListsType /\ UNCHANGED lists => ListsType'
  /\ UserType /\ UNCHANGED user => UserType'
<1>1. LogicType /\ UNCHANGED <<state_, display_, logic>> => LogicType'
  BY DEF LogicType
<1>2. ThreadsType /\ UNCHANGED workers => ThreadsType'
  BY DEF ThreadsType, workers
<1>3. PageType /\ UNCHANGED page => PageType'
  BY DEF PageType
<1>4. RequestsType /\ UNCHANGED <<sendQueue_, toServer>> => RequestsType'
  BY DEF RequestsType
<1>5. NewsType /\ UNCHANGED <<recvQueue_, toClient>> => NewsType'
  BY DEF NewsType
<1>6. ServerType /\ UNCHANGED server => ServerType'
  BY DEF ServerType
<1>7. ListsType /\ UNCHANGED lists => ListsType'
  BY DEF ListsType, lists
<1>8. UserType /\ UNCHANGED user => UserType'
  BY DEF UserType, user
<1> QED
  BY <1>1, <1>2, <1>3, <1>4, <1>5, <1>6, <1>7, <1>8

\* The types of the two streams.
LEMMA StreamTypes ==
  TypeOK => Requests \in Seq(ClientPackets) /\ News \in Seq(ServerPackets)
  BY ConcatProperties DEF TypeOK, Requests, News

\* The last step of each sequence of steps.
LEMMA Endings ==
  /\ \A steps \in {<<"delete", "lobby", "draw", "LOBBY", "push">>, <<"lobby", "draw", "LOBBY", "push">>,
                   <<"draw", "LOBBY", "push">>, <<"LOBBY", "push">>, <<"push">>} :
       logic = steps => EndsWith("push")
  /\ \A steps \in {<<"delete", "room", "draw", "CHATROOM", "print">>, <<"room", "draw", "CHATROOM", "print">>,
                   <<"draw", "CHATROOM", "print">>, <<"CHATROOM", "print">>, <<"print">>} :
       logic = steps => EndsWith("print")
  /\ \A steps \in {<<"delete", "lobby", "LOBBY", "draw">>, <<"lobby", "LOBBY", "draw">>,
                   <<"LOBBY", "draw">>, <<"draw">>} :
       logic = steps => EndsWith("draw")
  /\ \A steps \in {<<"ids", "names">>, <<"names">>} : logic = steps => EndsWith("names")
<1>1. logic = <<"delete", "lobby", "draw", "LOBBY", "push">> => EndsWith("push")
  BY DEF EndsWith
<1>2. logic = <<"lobby", "draw", "LOBBY", "push">> => EndsWith("push")
  BY DEF EndsWith
<1>3. logic = <<"draw", "LOBBY", "push">> => EndsWith("push")
  BY DEF EndsWith
<1>4. logic = <<"LOBBY", "push">> => EndsWith("push")
  BY DEF EndsWith
<1>5. logic = <<"push">> => EndsWith("push")
  BY DEF EndsWith
<1>6. logic = <<"delete", "room", "draw", "CHATROOM", "print">> => EndsWith("print")
  BY DEF EndsWith
<1>7. logic = <<"room", "draw", "CHATROOM", "print">> => EndsWith("print")
  BY DEF EndsWith
<1>8. logic = <<"draw", "CHATROOM", "print">> => EndsWith("print")
  BY DEF EndsWith
<1>9. logic = <<"CHATROOM", "print">> => EndsWith("print")
  BY DEF EndsWith
<1>10. logic = <<"print">> => EndsWith("print")
  BY DEF EndsWith
<1>11. logic = <<"delete", "lobby", "LOBBY", "draw">> => EndsWith("draw")
  BY DEF EndsWith
<1>12. logic = <<"lobby", "LOBBY", "draw">> => EndsWith("draw")
  BY DEF EndsWith
<1>13. logic = <<"LOBBY", "draw">> => EndsWith("draw")
  BY DEF EndsWith
<1>14. logic = <<"draw">> => EndsWith("draw")
  BY DEF EndsWith
<1>15. logic = <<"ids", "names">> => EndsWith("names")
  BY DEF EndsWith
<1>16. logic = <<"names">> => EndsWith("names")
  BY DEF EndsWith
<1> QED
  BY <1>1, <1>2, <1>3, <1>4, <1>5, <1>6, <1>7, <1>8, <1>9, <1>10, <1>11, <1>12, <1>13, <1>14, <1>15, <1>16

\* What each group of stages is on its way to.
LEMMA StageFacts ==
  /\ AtRest => logic = <<>> /\ ~Arriving /\ ~Entering /\ ~Leaving /\ ~Listing /\ Here = PageOf[state_]
  /\ InF_SERVER_ENTER_OK => Arriving /\ ~Entering /\ ~Leaving /\ ~Listing /\ Here = "lobby"
  /\ InF_ROOM_ENTER => ~Arriving /\ Entering /\ ~Leaving /\ ~Listing /\ Here = "room"
  /\ InPrint => ~Arriving /\ ~Entering /\ ~Leaving /\ ~Listing /\ Here = "room"
  /\ InF_ROOM_EXIT => ~Arriving /\ ~Entering /\ Leaving /\ ~Listing /\ Here = "lobby"
  /\ InSetRoomList => ~Arriving /\ ~Entering /\ ~Leaving /\ Listing /\ Here = "lobby"
<1>1. AtRest => logic = <<>>
  BY DEF AtRest, Stage
<1>2. InF_SERVER_ENTER_OK => EndsWith("push")
  BY Endings, Zenon DEF InF_SERVER_ENTER_OK, Stage
<1>3. InF_ROOM_ENTER => EndsWith("print") /\ state_ = "LOBBY"
  BY Endings, Zenon DEF InF_ROOM_ENTER, Stage
<1>4. InPrint => EndsWith("print") /\ state_ = "CHATROOM"
  BY Endings, Zenon DEF InPrint, Stage
<1>5. InF_ROOM_EXIT => EndsWith("draw")
  BY Endings, Zenon DEF InF_ROOM_EXIT, Stage
<1>6. InSetRoomList => EndsWith("names") /\ state_ = "LOBBY"
  BY Endings, Zenon DEF InSetRoomList, Stage
<1> QED
  BY <1>1, <1>2, <1>3, <1>4, <1>5, <1>6 DEF EndsWith, Arriving, Entering, Leaving, Listing, Here, PageOf

\* A step that changes none of what a stage is about.
LEMMA StagesKept ==
  ASSUME UNCHANGED <<state_, display_, logic, shown, asked>>
  PROVE  /\ Stages => Stages'
         /\ Here' = Here /\ Arriving' = Arriving /\ Entering' = Entering
         /\ Leaving' = Leaving /\ Listing' = Listing
<1>1. Stages => Stages'
  BY DEF Stages, AtRest, InF_SERVER_ENTER_OK, InF_ROOM_ENTER, InPrint, InF_ROOM_EXIT, InSetRoomList, Stage
<1> QED
  BY <1>1 DEF Here, Arriving, Entering, Leaving, Listing, EndsWith

-----------------------------------------------------------------------------
(* The user and the page thread.                                            *)

\* Of a step of the page alone, only what is said of pages is to be shown.
LEMMA PageMoves ==
  ASSUME Inv, UNCHANGED <<state_, display_, logic, workers, queues, net, lists, user>>,
         PageType',
         Whereabouts', Hands',
         page'.at \in {"nickname", "pending", "enter"} =>
           page.at \in {"nickname", "pending", "enter"} \/ state_ = "LOGIN"
  PROVE  Inv'
<1> USE DEF user, lists, queues, net
<1>1. TypeOK'
  BY TypeParts, TypesKept DEF Inv
<1>2. /\ Stages' /\ Here' = Here /\ Arriving' = Arriving /\ Entering' = Entering
      /\ Leaving' = Leaving /\ Listing' = Listing
  BY StagesKept DEF Inv
<1>3. Requests' = Requests /\ News' = News
  BY DEF Requests, News
<1>4. LoginStream'
  BY <1>2, <1>3 DEF Inv, LoginStream, IsList
<1>5. LobbyStream' /\ RoomStream'
  BY <1>2, <1>3 DEF Inv, LobbyStream, RoomStream, IsList, IsExit
<1>6. Lists'
  BY <1>2, <1>3 DEF Inv, Lists, IsList
<1> QED
  BY <1>1, <1>2, <1>4, <1>5, <1>6 DEF Inv

\* The facts about pages at hand in the proofs below.
LEMMA PageFacts ==
  ASSUME Inv
  PROVE  /\ PageType
         /\ Whereabouts /\ Hands
         /\ state_ \in {"LOGIN", "PENDING", "LOBBY", "CHATROOM"} /\ asked \in {"none", "page", "end"}
         /\ display_ \in {"login", "lobby", "room", "deleted"}
         /\ PageOf["LOGIN"] = "login" /\ PageOf["PENDING"] = "login"
         /\ PageOf["LOBBY"] = "lobby" /\ PageOf["CHATROOM"] = "room"
  BY DEF Inv, TypeOK, PageOf, PageType

\* A nickname is typed: the page thread moves on, nothing else.
LEMMA TypeNicknameKeeps == ASSUME Inv, TypeNickname PROVE Inv'
<1> USE PageFacts DEF TypeNickname, Types
<1>1. page.at = "nickname" /\ page' = [page EXCEPT !.at = "pending"]
  OBVIOUS
<1>2. PageType'
  BY <1>1 DEF Places, PageType
<1>3. UNCHANGED <<state_, display_, logic, shown, asked>>
  BY DEF user
<1>4. Here' = Here /\ Entering' = Entering /\ Leaving' = Leaving
  BY <1>3, StagesKept
<1>5. Whereabouts'
  BY <1>1, <1>3, <1>4 DEF Whereabouts
<1>6. Hands'
  BY <1>1, <1>3, <1>4 DEF Hands
<1> QED
  BY <1>1, <1>2, <1>5, <1>6, PageMoves

\* What a step of the user or the page thread leaves alone.
Still == UNCHANGED <<state_, display_, logic, workers, queues, net, lists, user>>

\* A user that waits for nothing is on the page its display shows.
LEMMA InOnesPlace ==
  ASSUME Inv, asked = "none"
  PROVE  /\ state_ = "LOBBY" /\ shown = "lobby" => Here = "lobby"
         /\ state_ = "CHATROOM" => Here = "room"
         /\ state_ \in {"LOGIN", "PENDING"} /\ ~Arriving => Here = "login"
<1>1. Stages
  BY DEF Inv
<1>2. InF_ROOM_ENTER => state_ = "LOBBY" /\ shown = "room"
  BY DEF InF_ROOM_ENTER, Stage
<1>3. ~InF_ROOM_EXIT
  BY DEF InF_ROOM_EXIT, Stage
<1>4. /\ InF_SERVER_ENTER_OK \/ InSetRoomList => state_ # "CHATROOM"
      /\ InPrint => state_ = "CHATROOM"
      /\ InSetRoomList => state_ = "LOBBY"
  BY DEF InF_SERVER_ENTER_OK, InSetRoomList, InPrint, Stage
<1> QED
  BY <1>1, <1>2, <1>3, <1>4, StageFacts DEF Stages, PageOf

\* A key is pressed in the lobby.
LEMMA TypeInLobbyKeeps == ASSUME Inv, TypeInLobby PROVE Inv'
<1> USE PageFacts DEF TypeInLobby, Types
<1>1. Still /\ UNCHANGED <<state_, display_, logic, shown, asked>>
  BY DEF Still, user
<1>2. Here' = Here /\ Entering' = Entering /\ Leaving' = Leaving
  BY <1>1, StagesKept
<1>3. state_ = "LOBBY" /\ asked = "none" /\ shown = "lobby"
  BY Zenon DEF PageOf
<1>4. Here = "lobby" /\ ~Entering
  BY <1>3, InOnesPlace DEF Here, Arriving, Leaving, Entering, EndsWith
<1>5. \/ page.at = "getch" /\ page' = [page EXCEPT !.at = "select"]
      \/ page.at = "getch" /\ page' = [page EXCEPT !.at = "arrow"]
      \/ page.at = "getline" /\ page' = [page EXCEPT !.at = "roomLoop"]
  OBVIOUS
<1>6. /\ PageType'
      /\ page'.at \in {"select", "arrow", "roomLoop"}
      /\ page.at = "getch" => page.display = page'.display
      /\ page.at = "getline" => page'.at = "roomLoop"
      /\ page'.line = page.line
  BY <1>5 DEF Places, PageType
<1>7. Whereabouts'
  BY <1>1, <1>2, <1>3, <1>4, <1>6 DEF Whereabouts
<1>8. Hands'
  BY <1>1, <1>2, <1>3, <1>4, <1>5, <1>6 DEF Hands
<1> QED
  BY <1>1, <1>6, <1>7, <1>8, PageMoves DEF Still

\* A line is typed in a room.
LEMMA TypeInRoomKeeps == ASSUME Inv, TypeInRoom PROVE Inv'
<1> USE PageFacts
<1>1. Still /\ UNCHANGED <<state_, display_, logic, shown, asked>>
  BY DEF TypeInRoom, Still, user
<1>2. Here' = Here /\ Entering' = Entering /\ Leaving' = Leaving
  BY <1>1, StagesKept
<1>3. state_ = "CHATROOM" /\ asked = "none" /\ page.line = NoLine
  BY DEF TypeInRoom
<1>4. Here = "room" /\ ~Entering /\ ~Leaving
  BY <1>3, InOnesPlace DEF Here, Arriving, Leaving, Entering, EndsWith
<1>5. PICK from \in {"getch", "getline"}, text \in Lines :
        /\ page.at = from
        /\ page' = [page EXCEPT !.at = IF from = "getch" THEN "lobbyLoop" ELSE "typed",
                                !.line = [text |-> text, whole |-> from = "getline"]]
  BY DEF TypeInRoom
<1>6. PageType'
  BY <1>5 DEF Places, PageType
<1>7. /\ page'.at = "lobbyLoop" \/ (page'.at = "typed" /\ page.at = "getline")
      /\ page'.display = page.display
  BY <1>5
<1>8. Whereabouts'
  BY <1>1, <1>2, <1>3, <1>4, <1>7 DEF Whereabouts
<1>9. Hands'
  BY <1>1, <1>2, <1>3, <1>4, <1>7 DEF Hands
<1> QED
  BY <1>1, <1>6, <1>7, <1>8, <1>9, PageMoves DEF Still

\* The loop of StateProcess looks at the state and picks a page.
LEMMA StateProcessKeeps == ASSUME Inv, StateProcess PROVE Inv'
<1> USE PageFacts
<1>1. Still /\ UNCHANGED <<state_, display_, logic, shown, asked>>
  BY DEF StateProcess, PageStep, Still, user, queues, lists
<1>2. Here' = Here /\ Entering' = Entering /\ Leaving' = Leaving
  BY <1>1, StagesKept
<1>0. PICK to \in {"choose", "nickname", "lobby", "room", "ended"} :
        /\ to = IF ~bIsWorkerRun_ THEN "ended"
                ELSE [LOGIN |-> "nickname", PENDING |-> "choose",
                      LOBBY |-> "lobby", CHATROOM |-> "room"][state_]
        /\ to # "choose" /\ page.at = "choose" /\ page' = [page EXCEPT !.at = to]
  BY Zenon DEF StateProcess, PageStep
<1>3. /\ page.at = "choose" /\ page' = [page EXCEPT !.at = to]
      /\ to \in {"nickname", "lobby", "room", "ended"}
      /\ to = "nickname" => state_ = "LOGIN"
      /\ to = "lobby" => state_ = "LOBBY"
      /\ to = "room" => state_ = "CHATROOM"
  <2>1. to = "ended" \/ to = [LOGIN |-> "nickname", PENDING |-> "choose",
                              LOBBY |-> "lobby", CHATROOM |-> "room"][state_]
    BY <1>0, Zenon
  <2>2. CASE state_ = "LOGIN"
    BY <1>0, <2>1, <2>2
  <2>3. CASE state_ = "PENDING"
    BY <1>0, <2>1, <2>3
  <2>4. CASE state_ = "LOBBY"
    BY <1>0, <2>1, <2>4
  <2>5. CASE state_ = "CHATROOM"
    BY <1>0, <2>1, <2>5
  <2> QED
    BY <2>2, <2>3, <2>4, <2>5
<1>4. PageType'
  BY <1>3 DEF Places, PageType
<1>5. page'.at = to /\ page'.display = page.display /\ page'.line = page.line
  BY <1>3
<1>6. /\ to = "lobby" => Here = "lobby"
      /\ to = "room" => Here = "room"
  <2>1. CASE state_ = "CHATROOM"
    BY <1>3, <2>1, InOnesPlace DEF Whereabouts
  <2>2. CASE state_ = "LOBBY"
    BY <1>3, <2>2 DEF Whereabouts, Here
  <2> QED
    BY <1>3, <2>1, <2>2
<1>7. Whereabouts'
  BY <1>1, <1>2, <1>3, <1>5, <1>6 DEF Whereabouts
<1>8. Hands'
  BY <1>1, <1>2, <1>3, <1>5 DEF Hands
<1> QED
  BY <1>1, <1>3, <1>4, <1>5, <1>7, <1>8, PageMoves DEF Still

\* The nickname is read before anything is sent.
LEMMA SendNicknameKeeps == ASSUME Inv, SendNickname PROVE Inv'
<1> USE PageFacts
<1>1. /\ page.at \in {"pending", "enter"}
      /\ UNCHANGED <<display_, logic, workers, recvQueue_, toServer, toClient, server, lists, shown, asked>>
  BY DEF SendNickname, PageStep, net, lists
<1>2. /\ state_ \in {"LOGIN", "PENDING"} /\ page.line = NoLine
      /\ logic = <<>> /\ Stages
      /\ page.at = "pending" => state_ = "LOGIN"
      /\ page.at = "enter" => state_ = "PENDING"
  <2>1. state_ = "LOGIN" => logic = <<>>
    BY DEF Inv, Stages, AtRest, InF_SERVER_ENTER_OK, InF_ROOM_ENTER, InPrint, InF_ROOM_EXIT, InSetRoomList, Stage
  <2> QED
    BY <1>1, <2>1 DEF Whereabouts, Hands, Inv
<1>3. Stage(<<>>, state_, "login", "login", {"none"})
  <2>1. AtRest
    BY <1>2, StageFacts DEF Stages, EndsWith, Arriving, Entering, Leaving, Listing, InPrint, Stage
  <2> QED
    BY <1>2, <2>1 DEF AtRest, Stage
<1>4. state_' \in {state_, "PENDING"}
  BY <1>2 DEF SendNickname
<1>5. Stages' /\ AtRest' /\ AtRest
  BY <1>1, <1>2, <1>3, <1>4 DEF Stages, AtRest, Stage
<1>6. /\ ~Arriving' /\ ~Entering' /\ ~Leaving' /\ ~Listing' /\ Here' = "login" /\ logic' = <<>>
      /\ ~Arriving /\ ~Entering /\ ~Leaving /\ ~Listing /\ Here = "login"
  <2>1. PageOf[state_] = "login" /\ PageOf[state_'] = "login"
    BY <1>2, <1>4
  <2> QED
    BY <1>1, <1>2, <2>1 DEF Arriving, Entering, Leaving, Listing, Here, EndsWith
<1>7. /\ page' = [page EXCEPT !.at = page'.at]
      /\ \/ page.at = "pending" /\ page'.at = "enter" /\ state_' = "PENDING" /\ sendQueue_' = sendQueue_
         \/ /\ page.at = "enter" /\ page'.at = "choose" /\ state_' = "PENDING"
            /\ sendQueue_' = Append(sendQueue_, "C_SERVER_ENTER")
  BY <1>2 DEF SendNickname, PageStep, PushQueue, PageType
<1>8. PageType'
      /\ page'.line = page.line
  BY <1>7 DEF Places, PageType
<1>9. TypeOK'
  <2>1. LogicType'
    BY <1>1, <1>7, TypeParts DEF LogicType, Inv, PageOf
  <2>2. RequestsType'
    BY <1>1, <1>7, TypeParts DEF RequestsType, ClientPackets, Inv
  <2> QED
    BY <1>1, <1>8, <2>1, <2>2, TypeParts, TypesKept DEF user, Inv
<1>10. News' = News
  BY <1>1 DEF News
<1>11. LoginStream'
  <2>1. ~server'.inRoom /\ (server'.connected => Requests = <<>>) /\ News = <<>>
    BY <1>1, <1>6 DEF LoginStream, Inv
  <2>2. page.at = "enter" => Grows(Requests, Requests', "C_SERVER_ENTER")
    BY <1>1, <1>7, PushGrows, TypeParts DEF Requests, Inv, RequestsType, ClientPackets
  <2>3. page.at = "pending" => Requests' = Requests
    BY <1>1, <1>7 DEF Requests
  <2>4. /\ server'.connected => Len(Requests') <= 1 /\ \A i \in DOMAIN Requests' : Requests'[i] = "C_SERVER_ENTER"
        /\ page'.at = "enter" /\ server'.connected => Requests' = <<>>
    BY <1>7, <2>1, <2>2, <2>3 DEF Grows
  <2> QED
    BY <1>6, <1>7, <1>10, <2>1, <2>4 DEF LoginStream
<1>12. LobbyStream' /\ RoomStream'
  BY <1>6 DEF LobbyStream, RoomStream
<1>13. Whereabouts'
  BY <1>1, <1>2, <1>3, <1>6, <1>7 DEF Whereabouts, Stage
<1>14. Hands'
  BY <1>2, <1>7, <1>8 DEF Hands
<1>15. Lists'
  BY <1>1, <1>6, <1>10 DEF Lists, lists, Inv, IsList
<1> QED
  BY <1>5, <1>9, <1>11, <1>12, <1>13, <1>14, <1>15 DEF Inv

\* The display that is on the screen of a page that is there to stay.
LEMMA DisplayOnScreen ==
  ASSUME Inv
  PROVE  /\ state_ = "LOBBY" /\ Here = "lobby" => display_ = "lobby"
         /\ state_ = "CHATROOM" /\ Here = "room" => display_ = "room"
<1>1. Stages
  BY DEF Inv
<1>2. AtRest => (state_ = "LOBBY" => display_ = "lobby") /\ (state_ = "CHATROOM" => display_ = "room")
  BY DEF AtRest, Stage
<1>3. InF_SERVER_ENTER_OK => state_ # "CHATROOM" /\ (state_ = "LOBBY" => display_ = "lobby")
  BY DEF InF_SERVER_ENTER_OK, Stage
<1>4. InF_ROOM_EXIT => (state_ = "LOBBY" => display_ = "lobby")
  BY DEF InF_ROOM_EXIT, Stage
<1>5. InSetRoomList => state_ = "LOBBY" /\ display_ = "lobby"
  BY DEF InSetRoomList, Stage
<1>6. InPrint => state_ = "CHATROOM" /\ display_ = "room"
  BY DEF InPrint, Stage
<1>7. InF_ROOM_ENTER => state_ = "LOBBY"
  BY DEF InF_ROOM_ENTER, Stage
<1> QED
  BY <1>1, <1>2, <1>3, <1>4, <1>5, <1>6, <1>7, StageFacts DEF Stages

\* LobbyPage and ChatRoomPage take the display of the state they were picked for.
LEMMA TakeDisplayKeeps == ASSUME Inv, TakeDisplay PROVE Inv'
<1> USE PageFacts
<1>1. Still /\ UNCHANGED <<state_, display_, logic, shown, asked>>
  BY DEF TakeDisplay, Still, user
<1>2. Here' = Here /\ Entering' = Entering /\ Leaving' = Leaving
  BY <1>1, StagesKept
<1>3. /\ \/ page.at = "lobby" /\ page'.at = "lobbyLoop"
         \/ page.at = "room" /\ page'.at = "roomLoop"
      /\ page'.display = display_ /\ page'.line = page.line
  BY DEF TakeDisplay, PageType
<1>4. PageType'
  BY DEF TakeDisplay, Places, PageType
<1>5. /\ page.at = "lobby" => display_ = "lobby" /\ state_ = "LOBBY" /\ Here = "lobby"
      /\ page.at = "room" => display_ = "room" /\ state_ = "CHATROOM" /\ Here = "room"
  BY DisplayOnScreen DEF Whereabouts
<1>6. Whereabouts'
  BY <1>1, <1>2, <1>3, <1>5 DEF Whereabouts
<1>7. Hands'
  BY <1>1, <1>2, <1>3, <1>5 DEF Hands
<1> QED
  BY <1>1, <1>3, <1>4, <1>6, <1>7, PageMoves DEF Still

\* OnSend draws the line that was sent, perhaps after its answer has come.
LEMMA OnSendKeeps == ASSUME Inv, OnSend PROVE Inv'
<1> USE PageFacts
<1>1. Still /\ UNCHANGED <<state_, display_, logic, shown, asked>>
  BY DEF OnSend, Still, user
<1>2. Here' = Here /\ Entering' = Entering /\ Leaving' = Leaving
  BY <1>1, StagesKept
<1>3. page.at = "onSend" /\ page'.at = "roomLoop" /\ page'.display = page.display /\ page'.line = NoLine
  BY DEF OnSend, PageType
<1>4. PageType'
  BY DEF OnSend, Places, PageType, NoLine
<1>5. Whereabouts'
  BY <1>1, <1>2, <1>3 DEF Whereabouts
<1>6. Hands'
  BY <1>1, <1>2, <1>3 DEF Hands
<1> QED
  BY <1>1, <1>3, <1>4, <1>5, <1>6, PageMoves DEF Still

\* The steps between a page's loop and its calls.
LEMMA PageLoopKeeps ==
  ASSUME Inv, Still,
         \/ /\ page.at \in {"lobbyLoop", "arrow"}
            /\ page' = [page EXCEPT !.at = IF state_ # "LOBBY" THEN "choose"
                                           ELSE IF page.at = "arrow" THEN "cursor" ELSE "getch"]
         \/ /\ page.at = "roomLoop"
            /\ page' = [page EXCEPT !.at = IF state_ = "CHATROOM" THEN "getline" ELSE "choose"]
         \/ /\ page.at = "getline" /\ page.line # NoLine
            /\ page' = [page EXCEPT !.at = "typed"]
         \/ /\ page.at = "typed"
            /\ page' = [page EXCEPT !.at = IF state_ = "CHATROOM" THEN "talk" ELSE "choose"]
  PROVE  Inv'
<1> USE PageFacts
<1>1. UNCHANGED <<state_, display_, logic, shown, asked>>
  BY DEF Still, user
<1>2. Here' = Here /\ Entering' = Entering /\ Leaving' = Leaving
  BY <1>1, StagesKept
<1>3. page'.display = page.display /\ page'.line = page.line
  BY DEF PageType
<1>4. \/ page.at \in {"lobbyLoop", "arrow", "roomLoop", "typed"} /\ page'.at = "choose"
                 /\ (page.at \in {"lobbyLoop", "arrow"} => state_ # "LOBBY")
                 /\ (page.at \in {"roomLoop", "typed"} => state_ # "CHATROOM")
      \/ page.at = "lobbyLoop" /\ page'.at = "getch" /\ state_ = "LOBBY"
      \/ page.at = "arrow" /\ page'.at = "cursor" /\ state_ = "LOBBY"
      \/ page.at = "roomLoop" /\ page'.at = "getline" /\ state_ = "CHATROOM"
      \/ page.at = "getline" /\ page'.at = "typed" /\ page.line # NoLine
      \/ page.at = "typed" /\ page'.at = "talk" /\ state_ = "CHATROOM"
  BY DEF PageType
<1>5. PageType'
  BY DEF Places, PageType
<1>6. Whereabouts'
  <2>1. CASE page'.at = "choose"
    BY <1>1, <1>2, <1>3, <1>4, <2>1 DEF Whereabouts, Entering
  <2>2. CASE page.at \in {"lobbyLoop", "arrow"} /\ page'.at # "choose"
    BY <1>1, <1>2, <1>3, <1>4, <2>2 DEF Whereabouts
  <2>3. CASE page.at \in {"roomLoop", "typed"} /\ page'.at # "choose"
    BY <1>1, <1>2, <1>3, <1>4, <2>3 DEF Whereabouts
  <2>4. CASE page.at = "getline"
    BY <1>1, <1>2, <1>3, <1>4, <2>4 DEF Whereabouts, Hands
  <2> QED
    BY <1>4, <2>1, <2>2, <2>3, <2>4
<1>7. Hands'
  BY <1>1, <1>2, <1>3, <1>4 DEF Hands, Whereabouts
<1> QED
  BY <1>4, <1>5, <1>6, <1>7, PageMoves DEF Still

\* FiniteSetsExt defines both by CHOOSE.
LEMMA ExtremesOfTwo ==
  ASSUME NEW a \in Int, NEW b \in Int
  PROVE  /\ Max({a, b}) \in {a, b} /\ Max({a, b}) >= a /\ Max({a, b}) >= b
         /\ Min({a, b}) \in {a, b} /\ Min({a, b}) <= a /\ Min({a, b}) <= b
<1>1. (\E x \in {a, b} : \A y \in {a, b} : x >= y) /\ (\E x \in {a, b} : \A y \in {a, b} : x <= y)
  OBVIOUS
<1>2. Max({a, b}) \in {a, b} /\ \A y \in {a, b} : Max({a, b}) >= y
  BY <1>1, Zenon DEF Max
<1>3. Min({a, b}) \in {a, b} /\ \A y \in {a, b} : Min({a, b}) <= y
  BY <1>1, Zenon DEF Min
<1> QED
  BY <1>2, <1>3

\* A cursor key.
LEMMA CursorKeeps ==
  ASSUME Inv, page.at = "cursor", page' = [page EXCEPT !.at = "lobbyLoop"],
         UNCHANGED <<state_, display_, logic, workers, queues, net, roomPacket, user>>,
         NEW c \in {Max({lobby.cursor - 1, 0}), Min({lobby.cursor + 1, lobby.names})},
         lobby' = [lobby EXCEPT !.cursor = c]
  PROVE  Inv'
<1> USE PageFacts
<1>1. ListsType /\ lobby.cursor <= lobby.names /\ Lists /\ ServerType
  BY TypeParts DEF Inv, Lists
<1>2. c \in 0..lobby.names
  <2>1. /\ lobby.cursor \in 0..lobby.names /\ lobby.names \in Nat
        /\ lobby.cursor - 1 \in Int /\ lobby.cursor + 1 \in Int
    BY <1>1, ChatClientAssumption DEF ListsType
  <2>2. CASE c = Max({lobby.cursor - 1, 0})
    <3>1. c \in {lobby.cursor - 1, 0} /\ c >= 0
      BY <2>1, <2>2, ExtremesOfTwo, 0 \in Int, Zenon
    <3> QED
      BY <2>1, <3>1
  <2>3. CASE c = Min({lobby.cursor + 1, lobby.names})
    <3>1. c \in {lobby.cursor + 1, lobby.names} /\ c <= lobby.names
      BY <2>1, <2>3, ExtremesOfTwo, lobby.names \in Int, Zenon
    <3> QED
      BY <2>1, <3>1
  <2> QED
    BY <2>2, <2>3
<1>3. /\ ListsType' /\ lobby'.names = lobby.names /\ lobby'.ids = lobby.ids
      /\ lobby'.cursor <= lobby'.names
  BY <1>1, <1>2, ChatClientAssumption DEF ListsType
<1>4. UNCHANGED <<state_, display_, logic, shown, asked, server, roomPacket>> /\ Requests' = Requests /\ News' = News
  BY DEF user, net, queues, Requests, News
<1>5. /\ Stages' /\ Here' = Here /\ Arriving' = Arriving /\ Entering' = Entering
      /\ Leaving' = Leaving /\ Listing' = Listing
  BY <1>4, StagesKept DEF Inv
<1>6. PageType' /\ page'.at = "lobbyLoop" /\ page'.display = page.display /\ page'.line = page.line
  BY DEF PageType, Places
<1>7. TypeOK'
  BY <1>3, <1>6, TypeParts, TypesKept DEF Inv, queues, net
<1>8. Whereabouts'
  BY <1>4, <1>5, <1>6 DEF Whereabouts
<1>9. Hands'
  BY <1>4, <1>5, <1>6 DEF Hands, Whereabouts
<1>10. LoginStream'
  BY <1>4, <1>5, <1>6 DEF Inv, LoginStream, IsList
<1>11. LobbyStream' /\ RoomStream'
  BY <1>4, <1>5 DEF Inv, LobbyStream, RoomStream, IsList, IsExit
<1>12. Lists'
  BY <1>1, <1>3, <1>4, <1>5 DEF Lists, IsList
<1> QED
  BY <1>5, <1>7, <1>8, <1>9, <1>10, <1>11, <1>12 DEF Inv

\* The page thread queues a packet.
LEMMA PushedRequest ==
  ASSUME Inv, NEW p \in ClientPackets, PushQueue(p), UNCHANGED toServer
  PROVE  /\ RequestsType' /\ Grows(Requests, Requests', p)
         /\ Requests \in Seq(ClientPackets) /\ Requests' \in Seq(ClientPackets)
<1>1. RequestsType
  BY TypeParts DEF Inv
<1>2. RequestsType' /\ Requests' = toServer \o Append(sendQueue_, p)
  BY <1>1, AppendProperties DEF RequestsType, PushQueue, Requests
<1> QED
  BY <1>1, <1>2, PushGrows, ConcatProperties DEF RequestsType, Requests

\* Enter is pressed in the lobby: a room is asked for, or a new one.
LEMMA SelectKeeps ==
  ASSUME Inv, page.at = "select", page' = [page EXCEPT !.at = "lobbyLoop"],
         UNCHANGED <<state_, display_, logic, workers, recvQueue_, net, lists, shown>>,
         IF lobby.cursor = lobby.names
         THEN PushQueue("C_ROOM_CREATE") /\ UNCHANGED asked
         ELSE PushQueue("C_ROOM_ENTER") /\ asked' = "page"
  PROVE  Inv'
<1> USE PageFacts
<1>1. state_ = "LOBBY" /\ Here = "lobby" /\ asked = "none" /\ page.line = NoLine /\ page.display = "lobby"
  BY DEF Whereabouts, Hands
<1>2. UNCHANGED <<state_, display_, logic, shown, recvQueue_, server, toServer, toClient, lobby, roomPacket>> /\ News' = News
  BY DEF net, News, lists
<1>3. PICK p \in ClientPackets :
        /\ PushQueue(p)
        /\ \/ p = "C_ROOM_CREATE" /\ asked' = "none"
           \/ p = "C_ROOM_ENTER" /\ asked' = "page" /\ lobby.cursor # lobby.names
  BY <1>1 DEF ClientPackets
<1>4. RequestsType' /\ Grows(Requests, Requests', p) /\ Requests \in Seq(ClientPackets)
  BY <1>2, <1>3, PushedRequest
<1>5. Arriving => asked' = "none"
  BY <1>3, TypeParts, ChatClientAssumption DEF Inv, Lists, ListsType
<1>6. ~Leaving /\ ~Entering
  <2>1. ~InF_ROOM_EXIT /\ ~InF_ROOM_ENTER
    BY <1>1, StageFacts DEF InF_ROOM_EXIT, Stage
  <2> QED
    BY <2>1, StageFacts DEF Inv, Stages
<1>7. Stages'
  <2>1. AtRest \/ InF_SERVER_ENTER_OK \/ InSetRoomList
    BY <1>1, <1>6, StageFacts DEF Inv, Stages, InPrint, Stage
  <2>2. CASE AtRest
    BY <1>1, <1>2, <1>3, <2>2 DEF AtRest, Stage, Stages
  <2>3. CASE InF_SERVER_ENTER_OK
    BY <1>1, <1>2, <1>3, <1>5, <2>3, StageFacts DEF InF_SERVER_ENTER_OK, Stage, Stages
  <2>4. CASE InSetRoomList
    BY <1>1, <1>2, <1>3, <2>4 DEF InSetRoomList, Stage, Stages
  <2> QED
    BY <2>1, <2>2, <2>3, <2>4
<1>8. /\ Here' = "lobby" /\ Arriving' = Arriving /\ Entering' = Entering
      /\ Leaving' = Leaving /\ Listing' = Listing
  BY <1>1, <1>2 DEF Here, Arriving, Entering, Leaving, Listing, EndsWith
<1>9. PageType' /\ page'.at = "lobbyLoop" /\ page'.display = page.display /\ page'.line = page.line
  BY DEF PageType, Places
<1>10. TypeOK'
  <2>1. UserType'
    BY <1>2, <1>3, TypeParts DEF Inv, UserType
  <2> QED
    BY <1>2, <1>4, <1>9, <2>1, TypeParts, TypesKept DEF Inv
<1>11. LoginStream' /\ RoomStream'
  BY <1>8 DEF LoginStream, RoomStream
<1>12. LobbyStream'
  <2>1. LobbyStream /\ ~server.inRoom
    BY <1>1 DEF Inv, LobbyStream
  <2>2. server.connected =>
         \A i \in DOMAIN Requests' :
           /\ Requests'[i] \in {"C_LOBBY_ROOM_INFO", "C_ROOM_CREATE", "C_ROOM_ENTER"}
           /\ Requests'[i] = "C_ROOM_ENTER" => i = Len(Requests') /\ asked' = "page"
    BY <1>1, <1>3, <1>4, <2>1 DEF LobbyStream, Grows
  <2> QED
    BY <1>1, <1>2, <1>6, <1>8, <2>1, <2>2 DEF LobbyStream, IsList
<1>13. Whereabouts'
  BY <1>1, <1>2, <1>3, <1>6, <1>8, <1>9 DEF Whereabouts
<1>14. Hands'
  BY <1>1, <1>8, <1>9 DEF Hands
<1>15. Lists'
  BY <1>2, <1>8 DEF Inv, Lists, IsList
<1> QED
  BY <1>7, <1>10, <1>11, <1>12, <1>13, <1>14, <1>15 DEF Inv

\* What a line typed in a room is sent as.
LEMMA ChatPackets ==
  ASSUME NEW line PROVE SendChat(line) \in {"C_ROOM_EXIT", "C_SERVER_EXIT", "C_MULTICAST"}
  BY DEF SendChat

\* A line is sent.
LEMMA TalkKeeps ==
  ASSUME Inv, page.at = "talk", page' = [page EXCEPT !.at = "onSend"],
         UNCHANGED <<state_, display_, logic, workers, recvQueue_, net, lists, shown>>,
         PushQueue(SendChat(page.line)),
         asked' = CASE SendChat(page.line) = "C_ROOM_EXIT" -> "page"
                    [] SendChat(page.line) = "C_SERVER_EXIT" -> "end"
                    [] OTHER -> asked
  PROVE  Inv'
<1> USE PageFacts
<1> DEFINE p == SendChat(page.line)
<1>1. state_ = "CHATROOM" /\ Here = "room" /\ asked = "none" /\ page.display = "room"
  BY DEF Whereabouts, Hands
<1>2. UNCHANGED <<state_, display_, logic, shown, recvQueue_, server, toServer, toClient, lobby, roomPacket>> /\ News' = News
  BY DEF net, News, lists
<1>3. /\ p \in ClientPackets /\ p \in {"C_ROOM_EXIT", "C_SERVER_EXIT", "C_MULTICAST"}
      /\ p = "C_ROOM_EXIT" => asked' = "page"
      /\ p = "C_SERVER_EXIT" => asked' = "end"
      /\ p = "C_MULTICAST" => asked' = "none"
  BY <1>1, ChatPackets DEF ClientPackets
<1>4. RequestsType' /\ Grows(Requests, Requests', p) /\ Requests \in Seq(ClientPackets)
  BY <1>2, <1>3, PushedRequest
<1> HIDE DEF p
<1>5. Stages'
  <2>1. AtRest \/ InPrint
    BY <1>1, StageFacts DEF Inv, Stages, InF_ROOM_ENTER, Stage
  <2>2. CASE AtRest
    BY <1>1, <1>2, <1>3, <2>2 DEF AtRest, Stage, Stages
  <2>3. CASE InPrint
    BY <1>1, <1>2, <1>3, <2>3 DEF InPrint, Stage, Stages
  <2> QED
    BY <2>1, <2>2, <2>3
<1>6. /\ Here' = "room" /\ Arriving' = Arriving /\ Entering' = Entering
      /\ Leaving' = Leaving /\ Listing' = Listing
      /\ ~Entering
  BY <1>1, <1>2 DEF Here, Arriving, Entering, Leaving, Listing, EndsWith
<1>7. PageType' /\ page'.at = "onSend" /\ page'.display = page.display /\ page'.line = page.line
  BY DEF PageType, Places
<1>8. TypeOK'
  <2>1. UserType'
    BY <1>2, <1>3, TypeParts DEF Inv, UserType
  <2> QED
    BY <1>2, <1>4, <1>7, <2>1, TypeParts, TypesKept DEF Inv
<1>9. LoginStream' /\ LobbyStream'
  BY <1>6 DEF LoginStream, LobbyStream
<1>10. RoomStream'
  <2>1. RoomStream /\ server.inRoom
    BY <1>1 DEF Inv, RoomStream
  <2>2. server.connected =>
         \A i \in DOMAIN Requests' :
           /\ Requests'[i] \in {"C_MULTICAST", "C_ROOM_EXIT", "C_SERVER_EXIT"}
           /\ Requests'[i] = "C_ROOM_EXIT" => i = Len(Requests') /\ asked' = "page"
           /\ Requests'[i] = "C_SERVER_EXIT" => i = Len(Requests') /\ asked' = "end"
    BY <1>1, <1>3, <1>4, <2>1 DEF RoomStream, Grows
  <2> QED
    BY <1>1, <1>2, <1>6, <2>1, <2>2 DEF RoomStream, IsExit
<1>11. Whereabouts'
  BY <1>1, <1>2, <1>3, <1>6, <1>7 DEF Whereabouts
<1>12. Hands'
  BY <1>1, <1>2, <1>3, <1>6, <1>7 DEF Hands, p
<1>13. Lists'
  BY <1>2, <1>6 DEF Inv, Lists, IsList
<1> QED
  BY <1>5, <1>8, <1>9, <1>10, <1>11, <1>12, <1>13 DEF Inv

\* Every step of the page thread.
LEMMA PageThreadKeeps == ASSUME Inv, PageThread PROVE Inv'
<1>1. CASE LobbyPage
  <2>1. CASE PageStep("lobbyLoop", IF state_ = "LOBBY" THEN "getch" ELSE "choose")
             /\ UNCHANGED <<state_, sendQueue_, lobby, asked>>
    <3>1. Still
      BY <2>1 DEF PageStep, Still, queues, lists, user
    <3> QED
      BY <2>1, <3>1, PageLoopKeeps DEF PageStep
  <2>2. CASE PageStep("arrow", IF state_ = "LOBBY" THEN "cursor" ELSE "choose")
             /\ UNCHANGED <<state_, sendQueue_, lobby, asked>>
    <3>1. Still
      BY <2>2 DEF PageStep, Still, queues, lists, user
    <3> QED
      BY <2>2, <3>1, PageLoopKeeps DEF PageStep
  <2>3. CASE /\ PageStep("cursor", "lobbyLoop")
             /\ \E c \in {Max({lobby.cursor - 1, 0}), Min({lobby.cursor + 1, lobby.names})} :
                  lobby' = [lobby EXCEPT !.cursor = c]
             /\ UNCHANGED <<state_, sendQueue_, asked>>
    <3>1. UNCHANGED <<state_, display_, logic, workers, queues, net, roomPacket, user>>
      BY <2>3 DEF PageStep, queues, user
    <3> QED
      BY <2>3, <3>1, CursorKeeps DEF PageStep
  <2>4. CASE /\ PageStep("select", "lobbyLoop")
             /\ IF lobby.cursor = lobby.names
                THEN PushQueue("C_ROOM_CREATE") /\ UNCHANGED asked
                ELSE PushQueue("C_ROOM_ENTER") /\ asked' = "page"
             /\ UNCHANGED <<state_, lobby>>
    <3>1. UNCHANGED <<state_, display_, logic, workers, recvQueue_, net, lists, shown>>
      BY <2>4 DEF PageStep, lists
    <3> QED
      BY <2>4, <3>1, SelectKeeps DEF PageStep
  <2> QED
    BY <1>1, <2>1, <2>2, <2>3, <2>4 DEF LobbyPage
<1>2. CASE ChatRoomPage
  <2>1. CASE PageStep("roomLoop", IF state_ = "CHATROOM" THEN "getline" ELSE "choose")
             /\ UNCHANGED <<state_, sendQueue_, lobby, asked>>
    <3>1. Still
      BY <2>1 DEF PageStep, Still, queues, lists, user
    <3> QED
      BY <2>1, <3>1, PageLoopKeeps DEF PageStep
  <2>2. CASE /\ page.line # NoLine /\ PageStep("getline", "typed")
             /\ UNCHANGED <<state_, sendQueue_, lobby, asked>>
    <3>1. Still
      BY <2>2 DEF PageStep, Still, queues, lists, user
    <3> QED
      BY <2>2, <3>1, PageLoopKeeps DEF PageStep
  <2>3. CASE PageStep("typed", IF state_ = "CHATROOM" THEN "talk" ELSE "choose")
             /\ UNCHANGED <<state_, sendQueue_, lobby, asked>>
    <3>1. Still
      BY <2>3 DEF PageStep, Still, queues, lists, user
    <3> QED
      BY <2>3, <3>1, PageLoopKeeps DEF PageStep
  <2>4. CASE /\ PageStep("talk", "onSend")
             /\ PushQueue(SendChat(page.line))
             /\ asked' = CASE SendChat(page.line) = "C_ROOM_EXIT" -> "page"
                           [] SendChat(page.line) = "C_SERVER_EXIT" -> "end"
                           [] OTHER -> asked
             /\ UNCHANGED <<state_, lobby>>
    <3>1. UNCHANGED <<state_, display_, logic, workers, recvQueue_, net, lists, shown>>
      BY <2>4 DEF PageStep, lists
    <3> QED
      BY <2>4, <3>1, TalkKeeps DEF PageStep
  <2> QED
    BY <1>2, <2>1, <2>2, <2>3, <2>4 DEF ChatRoomPage
<1> QED
  BY <1>1, <1>2, StateProcessKeeps, SendNicknameKeeps, TakeDisplayKeeps, OnSendKeeps DEF PageThread

\* The same of the next state.
LEMMA StageFactsNext ==
  (/\ AtRest => logic = <<>> /\ ~Arriving /\ ~Entering /\ ~Leaving /\ ~Listing /\ Here = PageOf[state_]
   /\ InF_SERVER_ENTER_OK => Arriving /\ ~Entering /\ ~Leaving /\ ~Listing /\ Here = "lobby"
   /\ InF_ROOM_ENTER => ~Arriving /\ Entering /\ ~Leaving /\ ~Listing /\ Here = "room"
   /\ InPrint => ~Arriving /\ ~Entering /\ ~Leaving /\ ~Listing /\ Here = "room"
   /\ InF_ROOM_EXIT => ~Arriving /\ ~Entering /\ Leaving /\ ~Listing /\ Here = "lobby"
   /\ InSetRoomList => ~Arriving /\ ~Entering /\ ~Leaving /\ Listing /\ Here = "lobby")'
  BY StageFacts, PTL

\* A stage has the types.
LEMMA StageTypes ==
  /\ Stages => LogicType /\ UserType
  /\ Stages' => LogicType' /\ UserType'
<1> DEFINE Steps == {"delete", "lobby", "room", "draw", "ids", "names", "print", "push"} \cup DOMAIN PageOf
<1>1. Steps = {"delete", "lobby", "room", "draw", "ids", "names", "print", "push",
               "LOGIN", "PENDING", "LOBBY", "CHATROOM"}
  BY DEF PageOf
<1> HIDE DEF Steps
<1>2. /\ <<>> \in Seq(Steps)
      /\ <<"delete", "lobby", "draw", "LOBBY", "push">> \in Seq(Steps)
      /\ <<"lobby", "draw", "LOBBY", "push">> \in Seq(Steps)
      /\ <<"draw", "LOBBY", "push">> \in Seq(Steps)
      /\ <<"LOBBY", "push">> \in Seq(Steps)
      /\ <<"push">> \in Seq(Steps)
  <2>1. <<>> \in Seq(Steps)
    BY <1>1
  <2>2. <<"delete", "lobby", "draw", "LOBBY", "push">> \in Seq(Steps)
    BY <1>1
  <2>3. <<"lobby", "draw", "LOBBY", "push">> \in Seq(Steps)
    BY <1>1
  <2>4. <<"draw", "LOBBY", "push">> \in Seq(Steps)
    BY <1>1
  <2>5. <<"LOBBY", "push">> \in Seq(Steps)
    BY <1>1
  <2>6. <<"push">> \in Seq(Steps)
    BY <1>1
  <2> QED
    BY <2>1, <2>2, <2>3, <2>4, <2>5, <2>6
<1>3. /\ <<"delete", "room", "draw", "CHATROOM", "print">> \in Seq(Steps)
      /\ <<"room", "draw", "CHATROOM", "print">> \in Seq(Steps)
      /\ <<"draw", "CHATROOM", "print">> \in Seq(Steps)
      /\ <<"CHATROOM", "print">> \in Seq(Steps)
  <2>1. <<"delete", "room", "draw", "CHATROOM", "print">> \in Seq(Steps)
    BY <1>1
  <2>2. <<"room", "draw", "CHATROOM", "print">> \in Seq(Steps)
    BY <1>1
  <2>3. <<"draw", "CHATROOM", "print">> \in Seq(Steps)
    BY <1>1
  <2>4. <<"CHATROOM", "print">> \in Seq(Steps)
    BY <1>1
  <2> QED
    BY <2>1, <2>2, <2>3, <2>4
<1>4. /\ <<"print">> \in Seq(Steps)
  <2>1. <<"print">> \in Seq(Steps)
    BY <1>1
  <2> QED
    BY <2>1
<1>5. /\ <<"delete", "lobby", "LOBBY", "draw">> \in Seq(Steps)
      /\ <<"lobby", "LOBBY", "draw">> \in Seq(Steps)
      /\ <<"LOBBY", "draw">> \in Seq(Steps)
      /\ <<"draw">> \in Seq(Steps)
  <2>1. <<"delete", "lobby", "LOBBY", "draw">> \in Seq(Steps)
    BY <1>1
  <2>2. <<"lobby", "LOBBY", "draw">> \in Seq(Steps)
    BY <1>1
  <2>3. <<"LOBBY", "draw">> \in Seq(Steps)
    BY <1>1
  <2>4. <<"draw">> \in Seq(Steps)
    BY <1>1
  <2> QED
    BY <2>1, <2>2, <2>3, <2>4
<1>6. /\ <<"ids", "names">> \in Seq(Steps)
      /\ <<"names">> \in Seq(Steps)
  <2>1. <<"ids", "names">> \in Seq(Steps)
    BY <1>1
  <2>2. <<"names">> \in Seq(Steps)
    BY <1>1
  <2> QED
    BY <2>1, <2>2
<1> DEFINE Rest == state_ \in {"LOGIN", "PENDING", "LOBBY", "CHATROOM"}
                   /\ display_ \in {"login", "lobby", "room", "deleted"} /\ UserType
           Stg == logic \in Seq(Steps) /\ Rest
<1> USE DEF Stage, UserType
<1>7. AtRest => Stg
  BY <1>2 DEF AtRest
<1>8. InF_SERVER_ENTER_OK => Stg
  BY <1>2 DEF InF_SERVER_ENTER_OK
<1>9. InF_ROOM_ENTER => Stg
  BY <1>3 DEF InF_ROOM_ENTER
<1>10. InPrint => Stg
  BY <1>4 DEF InPrint
<1>11. InF_ROOM_EXIT => Stg
  BY <1>5 DEF InF_ROOM_EXIT
<1>12. InSetRoomList => Stg
  BY <1>6 DEF InSetRoomList
<1>13. Stages => LogicType /\ UserType
  BY <1>7, <1>8, <1>9, <1>10, <1>11, <1>12 DEF Stages, LogicType, Steps, PageOf
<1>14. Stages' => LogicType' /\ UserType'
  BY <1>13, PTL
<1> QED
  BY <1>13, <1>14

-----------------------------------------------------------------------------
(* The logic thread takes a packet.                                         *)

\* What RecvProcess leaves alone, and the packet it takes.
LEMMA TakenNews ==
  ASSUME Inv, RecvProcess
  PROVE  /\ AtRest /\ News # <<>> /\ News[1] = Head(recvQueue_) /\ News[1] \in ServerPackets
         /\ Shrinks(News, News') /\ News \in Seq(ServerPackets) /\ News' \in Seq(ServerPackets)
         /\ UNCHANGED <<state_, display_, page, lobby, shown, asked, server>> /\ Requests' = Requests
         /\ logic' = Handler(News[1])
         /\ roomPacket' = IF IsList(News[1]) THEN News[1].rooms ELSE 0
         /\ ListsType' => PageType' /\ ThreadsType' /\ RequestsType' /\ NewsType' /\ ServerType' /\ ListsType'
<1>1. /\ logic = <<>> /\ recvQueue_ # <<>> /\ recvQueue_' = Tail(recvQueue_)
      /\ UNCHANGED <<state_, display_, page, workers, sendQueue_, toServer, toClient, server, lobby, shown, asked>>
      /\ logic' = Handler(Head(recvQueue_))
      /\ roomPacket' = IF Head(recvQueue_).type = "S_LOBBY_ROOM_INFO" THEN Head(recvQueue_).rooms ELSE 0
  BY DEF RecvProcess, net, user
<1>2. /\ PageType /\ ThreadsType /\ RequestsType /\ NewsType /\ ServerType
  BY TypeParts DEF Inv
<1>3. /\ NewsType' /\ Head(recvQueue_) \in ServerPackets
      /\ recvQueue_ \in Seq(ServerPackets) /\ recvQueue_' \in Seq(ServerPackets) /\ toClient \in Seq(ServerPackets)
  BY <1>1, <1>2, HeadTailProperties DEF NewsType
<1>4. /\ Shrinks(News, News') /\ News # <<>> /\ News[1] = Head(recvQueue_)
      /\ News \in Seq(ServerPackets) /\ News' \in Seq(ServerPackets)
  BY <1>1, <1>3, TakeShrinks, ConcatProperties DEF News
<1>5. PageType' /\ ThreadsType' /\ RequestsType' /\ ServerType'
  BY <1>1, <1>2, TypesKept
<1>6. AtRest
  BY <1>1, StageFacts DEF Inv, Stages, Arriving, Entering, Leaving, Listing, EndsWith, InPrint, Stage
<1>7. Requests' = Requests
  BY <1>1 DEF Requests
<1> QED
  BY <1>1, <1>3, <1>4, <1>5, <1>6, <1>7 DEF IsList

\* The answer to the nickname.
LEMMA RecvLogin == ASSUME Inv, RecvProcess, state_ \in {"LOGIN", "PENDING"} PROVE Inv'
<1> USE TakenNews
<1>1. /\ Here = "login" /\ logic = <<>> /\ asked = "none"
      /\ ~Arriving /\ ~Entering /\ ~Leaving /\ ~Listing
  BY StageFacts, PageFacts DEF AtRest, Stage
<1>2. /\ state_ = "PENDING" /\ News[1].type = "S_SERVER_ENTER_OK" /\ ~server.inRoom
      /\ server.connected => Requests = <<>>
      /\ page.at \notin {"nickname", "pending", "enter"}
      /\ \A i \in DOMAIN News : i # 1 => IsList(News[i])
  BY <1>1 DEF Inv, LoginStream
<1>3. Stage(<<"delete", "lobby", "draw", "LOBBY", "push">>, "PENDING", "login", "login", {"none"})'
  <2>1. logic' = F_SERVER_ENTER_OK
    BY <1>2 DEF Handler
  <2> QED
    BY <1>2, <2>1 DEF AtRest, Stage, F_SERVER_ENTER_OK
<1>4. InF_SERVER_ENTER_OK' /\ Stages'
  BY <1>3 DEF InF_SERVER_ENTER_OK, Stages
<1>5. Arriving' /\ ~Entering' /\ ~Leaving' /\ ~Listing' /\ Here' = "lobby"
  BY <1>4, StageFactsNext
<1>6. /\ roomPacket' = 0 /\ ListsType' /\ Lists /\ ListsType
  <2>1. ~IsList(News[1])
    BY <1>2 DEF IsList
  <2> QED
    BY <2>1, TypeParts, ChatClientAssumption DEF Inv, ListsType
<1>7. TypeOK'
  BY <1>4, <1>6, TypeParts, StageTypes
<1>8. LoginStream' /\ RoomStream'
  BY <1>5 DEF LoginStream, RoomStream
<1>9. \A i \in DOMAIN News' : IsList(News'[i]) /\ News'[i] = News[i + 1] /\ i + 1 \in DOMAIN News
  BY <1>2 DEF Shrinks
<1>10. LobbyStream'
  BY <1>2, <1>5, <1>9 DEF LobbyStream, IsList
<1>11. Whereabouts'
  BY <1>1, <1>2, <1>5 DEF Whereabouts, Inv
<1>12. Hands'
  BY <1>1, <1>2, <1>5 DEF Hands, Whereabouts, Inv
<1>13. Lists'
  <2>1. logic' # <<"names">> /\ logic # <<"names">>
    BY <1>1, <1>3 DEF Stage
  <2> QED
    BY <1>1, <1>5, <1>6, <1>9, <2>1 DEF Lists, IsList
<1> QED
  BY <1>4, <1>7, <1>8, <1>10, <1>11, <1>12, <1>13 DEF Inv

\* A list of rooms, in the lobby.
LEMMA RecvList == ASSUME Inv, RecvProcess, state_ = "LOBBY", IsList(News[1]) PROVE Inv'
<1> USE TakenNews
<1>1. /\ Here = "lobby" /\ logic = <<>> /\ display_ = "lobby" /\ shown = "lobby" /\ asked \in {"none", "page"}
      /\ ~Arriving /\ ~Entering /\ ~Leaving /\ ~Listing
  BY StageFacts, PageFacts DEF AtRest, Stage
<1> DEFINE n == News[1].rooms
<1>2. /\ n \in 0..MaxRooms /\ roomPacket' = n /\ ListsType'
      /\ lobby.names <= n /\ n <= server.rooms /\ lobby.names <= lobby.ids /\ lobby.names <= server.rooms
      /\ lobby.names \in Nat /\ lobby.ids = lobby.names /\ lobby.cursor <= lobby.names
  <2>1. n \in 0..MaxRooms
    BY DEF ServerPackets, IsList
  <2>2. ListsType'
    BY <2>1, TypeParts DEF Inv, ListsType
  <2>3. 1 \in DOMAIN News
    OBVIOUS
  <2>4. logic # <<"names">>
    BY <1>1
  <2> QED
    BY <2>1, <2>2, <2>3, <2>4, TypeParts, ChatClientAssumption DEF Inv, Lists, ListsType
<1>3. logic' = IF n = 0 THEN <<>> ELSE <<"ids", "names">>
  BY DEF Handler, SetRoomList, IsList
<1>4. /\ Stages' /\ ~Arriving' /\ ~Entering' /\ ~Leaving' /\ Here' = "lobby"
      /\ logic' # <<"names">>
  <2>1. CASE n = 0
    <3>1. AtRest'
      BY <1>1, <1>3, <2>1 DEF AtRest, Stage
    <3>2. logic' = <<>> /\ logic' # <<"names">> /\ state_' = "LOBBY"
      BY <1>3, <2>1
    <3> QED
      BY <3>1, <3>2, StageFactsNext, PageFacts DEF Stages
  <2>2. CASE n # 0
    <3>1. InSetRoomList'
      BY <1>1, <1>3, <2>2 DEF InSetRoomList, Stage
    <3> QED
      BY <1>3, <2>2, <3>1, StageFactsNext DEF Stages
  <2> QED
    BY <2>1, <2>2
<1>5. TypeOK'
  BY <1>2, <1>4, TypeParts, StageTypes
<1>6. LoginStream' /\ RoomStream'
  BY <1>4 DEF LoginStream, RoomStream
<1>7. /\ \A i \in DOMAIN News' : News'[i] = News[i + 1] /\ i + 1 \in DOMAIN News
      /\ \A i \in DOMAIN News : i # 1 => i - 1 \in DOMAIN News' /\ News'[i - 1] = News[i]
      /\ DOMAIN News \subseteq Nat \ {0} /\ DOMAIN News' \subseteq Nat \ {0}
  BY DEF Shrinks
<1>8. LobbyStream'
  <2>1. LobbyStream
    BY DEF Inv
  <2>2. \A i \in DOMAIN News' : IsList(News'[i]) \/ News'[i].type \in {"S_ROOM_ENTER", "S_ROOM_NAME", "S_MULTICAST"}
    BY <1>1, <1>7, <2>1 DEF LobbyStream, IsList
  <2>3. \A i, j \in DOMAIN News' : i < j /\ IsList(News'[j]) => IsList(News'[i])
    BY <1>1, <1>7, <2>1 DEF LobbyStream, IsList
  <2>4. ASSUME NEW i \in DOMAIN News', ~IsList(News'[i]), \A j \in 1..(i - 1) : IsList(News'[j])
        PROVE  News'[i].type = "S_ROOM_ENTER"
    <3>1. i + 1 \in DOMAIN News /\ ~IsList(News[i + 1]) /\ i \in Nat \ {0}
      BY <1>7, <2>4
    <3>2. ASSUME NEW j \in 1..((i + 1) - 1) PROVE IsList(News[j])
      <4>1. CASE j = 1
        BY <4>1
      <4>2. CASE j # 1
        <5>1. j - 1 \in 1..(i - 1)
          BY <3>1, <4>2
        <5>2. IsList(News'[j - 1]) /\ j \in DOMAIN News
          BY <2>4, <3>1, <5>1
        <5> QED
          BY <1>7, <4>2, <5>2
      <4> QED
        BY <4>1, <4>2
    <3> QED
      BY <1>1, <1>7, <2>1, <3>1, <3>2 DEF LobbyStream
  <2>5. server.inRoom <=> \E i \in DOMAIN News' : ~IsList(News'[i])
    BY <1>1, <1>7, <2>1, Zenon DEF LobbyStream
  <2> QED
    BY <1>1, <1>4, <2>1, <2>2, <2>3, <2>4, <2>5 DEF LobbyStream, IsList
<1>9. Whereabouts'
  BY <1>1, <1>4, PageFacts DEF Whereabouts
<1>10. Hands'
  BY <1>1, <1>4, PageFacts DEF Hands
<1>11. Lists'
  BY <1>1, <1>2, <1>4, <1>7 DEF Inv, Lists, IsList
<1> QED
  BY <1>4, <1>5, <1>6, <1>8, <1>9, <1>10, <1>11 DEF Inv

\* The user's own entrance, in the lobby.
LEMMA RecvEntrance == ASSUME Inv, RecvProcess, state_ = "LOBBY", ~IsList(News[1]) PROVE Inv'
<1> USE TakenNews
<1>1. /\ Here = "lobby" /\ logic = <<>> /\ display_ = "lobby" /\ shown = "lobby"
      /\ ~Arriving /\ ~Entering /\ ~Leaving /\ ~Listing
  BY StageFacts, PageFacts DEF AtRest, Stage
<1>2. LobbyStream /\ 1 \in DOMAIN News
  BY DEF Inv
<1>3. /\ News[1].type = "S_ROOM_ENTER" /\ server.inRoom /\ asked = "page"
      /\ server.connected => Requests = <<>>
  BY <1>1, <1>2 DEF LobbyStream
<1>4. page.at \in {"lobbyLoop", "getch"} /\ page.line = NoLine
  BY <1>1, <1>3, PageFacts DEF Whereabouts, Hands
<1>5. Stage(<<"delete", "room", "draw", "CHATROOM", "print">>, "LOBBY", "lobby", "lobby", {"page"})'
  <2>1. logic' = F_ROOM_ENTER
    BY <1>3 DEF Handler
  <2> QED
    BY <1>1, <1>3, <2>1 DEF Stage, F_ROOM_ENTER
<1>6. InF_ROOM_ENTER' /\ Stages'
  BY <1>5 DEF InF_ROOM_ENTER, Stages
<1>7. ~Arriving' /\ Entering' /\ ~Leaving' /\ ~Listing' /\ Here' = "room"
  BY <1>6, StageFactsNext
<1>8. roomPacket' = 0 /\ ListsType'
  BY TypeParts, ChatClientAssumption DEF Inv, ListsType
<1>9. TypeOK'
  BY <1>6, <1>8, TypeParts, StageTypes
<1>10. LoginStream' /\ LobbyStream'
  BY <1>7 DEF LoginStream, LobbyStream
<1>11. \A i \in DOMAIN News' :
         /\ News'[i] = News[i + 1] /\ i + 1 \in DOMAIN News /\ 1 < i + 1
         /\ News'[i].type \in {"S_ROOM_ENTER", "S_ROOM_NAME", "S_MULTICAST"}
  <2>1. \A i \in DOMAIN News' : News'[i] = News[i + 1] /\ i + 1 \in DOMAIN News /\ 1 < i + 1
    BY DEF Shrinks
  <2> QED
    BY <1>1, <1>2, <2>1 DEF LobbyStream
<1>12. RoomStream'
  <2>1. server'.connected => Requests' = <<>> /\ DOMAIN Requests' = {}
    BY <1>3
  <2>2. server'.inRoom /\ \A i \in DOMAIN News' :
          /\ News'[i].type \in {"S_ROOM_ENTER", "S_ROOM_NAME", "S_MULTICAST", "S_ROOM_EXIT"}
          /\ ~IsExit(News'[i])
    BY <1>3, <1>11 DEF IsExit
  <2> QED
    BY <1>7, <2>1, <2>2 DEF RoomStream, IsExit
<1>13. Whereabouts'
  BY <1>3, <1>4, <1>7, PageFacts DEF Whereabouts
<1>14. Hands'
  BY <1>4, <1>7, PageFacts DEF Hands
<1>15. Lists'
  <2>1. logic' # <<"names">> /\ logic # <<"names">>
    BY <1>1, <1>5 DEF Stage
  <2>2. \A i \in DOMAIN News' : ~IsList(News'[i])
    BY <1>11 DEF IsList
  <2> QED
    BY <1>7, <2>1, <2>2 DEF Inv, Lists
<1> QED
  BY <1>6, <1>9, <1>10, <1>12, <1>13, <1>14, <1>15 DEF Inv

\* News of the room, in the room.
LEMMA RecvNews == ASSUME Inv, RecvProcess, state_ = "CHATROOM", ~IsExit(News[1]) PROVE Inv'
<1> USE TakenNews
<1>1. /\ Here = "room" /\ logic = <<>> /\ display_ = "room" /\ shown = "room" /\ asked \in {"none", "page", "end"}
      /\ ~Arriving /\ ~Entering /\ ~Leaving /\ ~Listing
  BY StageFacts, PageFacts DEF AtRest, Stage
<1>2. RoomStream /\ 1 \in DOMAIN News
  BY DEF Inv
<1>3. News[1].type \in {"S_ROOM_ENTER", "S_ROOM_NAME", "S_MULTICAST"}
  BY <1>1, <1>2 DEF RoomStream, IsExit
<1>4. Stage(<<"print">>, "CHATROOM", "room", "room", {"none", "page", "end"})'
  <2>1. logic' = <<"print">>
    BY <1>3 DEF Handler, F_ROOM_ENTER
  <2> QED
    BY <1>1, <2>1 DEF Stage
<1>5. InPrint' /\ Stages'
  BY <1>4 DEF InPrint, Stages
<1>6. ~Arriving' /\ ~Entering' /\ ~Leaving' /\ ~Listing' /\ Here' = "room"
  BY <1>5, StageFactsNext
<1>7. roomPacket' = 0 /\ ListsType'
  BY <1>3, TypeParts, ChatClientAssumption DEF Inv, ListsType, IsList
<1>8. TypeOK'
  BY <1>5, <1>7, TypeParts, StageTypes
<1>9. LoginStream' /\ LobbyStream'
  BY <1>6 DEF LoginStream, LobbyStream
<1>10. /\ \A i \in DOMAIN News' : News'[i] = News[i + 1] /\ i + 1 \in DOMAIN News
       /\ Len(News') = Len(News) - 1 /\ DOMAIN News' \subseteq Nat
  BY DEF Shrinks
<1>11. RoomStream'
  <2>1. \A i \in DOMAIN News' :
          /\ News'[i].type \in {"S_ROOM_ENTER", "S_ROOM_NAME", "S_MULTICAST", "S_ROOM_EXIT"}
          /\ IsExit(News'[i]) => i = Len(News') /\ ~server'.inRoom
    BY <1>1, <1>2, <1>10 DEF RoomStream
  <2> QED
    BY <1>1, <1>2, <1>6, <2>1 DEF RoomStream, IsExit
<1>12. Whereabouts'
  BY <1>1, <1>6, PageFacts DEF Whereabouts
<1>13. Hands'
  BY <1>1, <1>6, PageFacts DEF Hands
<1>14. Lists'
  <2>1. logic' # <<"names">> /\ logic # <<"names">>
    BY <1>1, <1>4 DEF Stage
  <2>2. \A i \in DOMAIN News' : ~IsList(News'[i])
    BY <1>1, <1>2, <1>10 DEF IsList, RoomStream
  <2> QED
    BY <1>6, <2>1, <2>2 DEF Inv, Lists
<1> QED
  BY <1>5, <1>8, <1>9, <1>11, <1>12, <1>13, <1>14 DEF Inv

\* The user's own exit, the last of the room's news.
LEMMA RecvExit == ASSUME Inv, RecvProcess, state_ = "CHATROOM", IsExit(News[1]) PROVE Inv'
<1> USE TakenNews
<1>1. /\ Here = "room" /\ logic = <<>> /\ display_ = "room" /\ shown = "room"
      /\ ~Arriving /\ ~Entering /\ ~Leaving /\ ~Listing
  BY StageFacts, PageFacts DEF AtRest, Stage
<1>2. RoomStream /\ 1 \in DOMAIN News
  BY DEF Inv
<1>3. /\ Len(News) = 1 /\ ~server.inRoom /\ asked = "page" /\ (server.connected => Requests = <<>>)
      /\ Len(News') = 0 /\ DOMAIN News' = {}
  BY <1>1, <1>2 DEF RoomStream, Shrinks
<1>4. Stage(<<"delete", "lobby", "LOBBY", "draw">>, "CHATROOM", "room", "room", {"page"})'
  <2>1. logic' = F_ROOM_EXIT
    BY DEF Handler, IsExit
  <2> QED
    BY <1>1, <1>3, <2>1 DEF Stage, F_ROOM_EXIT
<1>5. InF_ROOM_EXIT' /\ Stages'
  BY <1>4 DEF InF_ROOM_EXIT, Stages
<1>6. ~Arriving' /\ ~Entering' /\ Leaving' /\ ~Listing' /\ Here' = "lobby"
  BY <1>5, StageFactsNext
<1>7. roomPacket' = 0 /\ ListsType'
  BY TypeParts, ChatClientAssumption DEF Inv, ListsType, IsExit, IsList
<1>8. TypeOK'
  BY <1>5, <1>7, TypeParts, StageTypes
<1>9. LoginStream' /\ RoomStream'
  BY <1>6 DEF LoginStream, RoomStream
<1>10. LobbyStream'
  BY <1>3, <1>6 DEF LobbyStream
<1>11. Whereabouts'
  BY <1>1, <1>3, <1>6, PageFacts DEF Whereabouts
<1>12. Hands'
  BY <1>1, <1>3, <1>6, PageFacts DEF Hands, Whereabouts
<1>13. Lists'
  <2>1. logic' # <<"names">> /\ logic # <<"names">>
    BY <1>1, <1>4 DEF Stage
  <2> QED
    BY <1>3, <1>6, <2>1 DEF Inv, Lists
<1> QED
  BY <1>5, <1>8, <1>9, <1>10, <1>11, <1>12, <1>13 DEF Inv

\* RecvProcess, by the page it is on and the packet it takes.
LEMMA RecvProcessKeeps == ASSUME Inv, RecvProcess PROVE Inv'
  BY RecvLogin, RecvList, RecvEntrance, RecvNews, RecvExit, PageFacts

-----------------------------------------------------------------------------
(* The logic thread goes through a handler.                                 *)

\* What a step leaves alone, and what it does to the page and to the list.
LEMMA StepFacts ==
  ASSUME Inv, HandlerStep
  PROVE  /\ logic # <<>> /\ logic' = Tail(logic)
         /\ News' = News /\ UNCHANGED <<server, roomPacket>>
         /\ ThreadsType' /\ NewsType' /\ ServerType' /\ PageType'
         /\ page'.at = page.at /\ page'.line = page.line
         /\ Head(logic) # "delete" => page' = page
         /\ Head(logic) # "push" => Requests' = Requests /\ RequestsType'
         /\ Head(logic) = "push" => PushQueue("C_LOBBY_ROOM_INFO") /\ UNCHANGED toServer
         /\ Head(logic) = "delete" => lobby' = NoRooms
         /\ Head(logic) \notin {"delete", "ids", "names"} => lobby' = lobby
         /\ Head(logic) \notin {"ids", "names"} => ListsType'
         /\ display_' = IF Head(logic) = "delete" THEN "deleted"
                        ELSE IF Head(logic) \in {"lobby", "room"} THEN Head(logic) ELSE display_
         /\ state_' = IF Head(logic) \in {"LOGIN", "PENDING", "LOBBY", "CHATROOM"} THEN Head(logic) ELSE state_
         /\ shown' = IF Head(logic) = "draw" THEN display_ ELSE shown
         /\ asked' = IF Head(logic) = "draw" /\ asked = "page" THEN "none" ELSE asked
<1> DEFINE step == Head(logic)
<1>1. /\ logic # <<>> /\ logic' = Tail(logic)
      /\ UNCHANGED <<workers, recvQueue_, toServer, toClient, server, roomPacket>>
      /\ page' = IF step = "delete" /\ page.display # "none"
                 THEN [page EXCEPT !.display = "deleted"] ELSE page
      /\ step # "push" => sendQueue_' = sendQueue_
      /\ step = "push" => PushQueue("C_LOBBY_ROOM_INFO")
      /\ lobby' = CASE step = "delete" -> NoRooms
                    [] step = "ids" -> [lobby EXCEPT !.ids = roomPacket]
                    [] step = "names" -> [lobby EXCEPT !.names = roomPacket]
                    [] OTHER -> lobby
  BY DEF HandlerStep, net
<1>2. /\ display_' = IF step = "delete" THEN "deleted"
                     ELSE IF step \in {"lobby", "room"} THEN step ELSE display_
      /\ state_' = IF step \in {"LOGIN", "PENDING", "LOBBY", "CHATROOM"} THEN step ELSE state_
      /\ shown' = IF step = "draw" THEN display_ ELSE shown
      /\ asked' = IF step = "draw" /\ asked = "page" THEN "none" ELSE asked
  <2>1. DOMAIN PageOf = {"LOGIN", "PENDING", "LOBBY", "CHATROOM"}
    BY DEF PageOf
  <2> QED
    BY <2>1, Zenon DEF HandlerStep
<1> HIDE DEF step
<1>3. /\ PageType /\ ThreadsType /\ RequestsType /\ NewsType /\ ServerType /\ ListsType
  BY TypeParts DEF Inv
<1>4. ThreadsType' /\ NewsType' /\ ServerType'
  BY <1>1, <1>3, TypesKept
<1>5. PageType' /\ page'.at = page.at /\ page'.line = page.line /\ (step # "delete" => page' = page)
  <2>1. CASE step = "delete" /\ page.display # "none"
    BY <1>1, <1>3, <2>1 DEF PageType
  <2>2. CASE ~(step = "delete" /\ page.display # "none")
    <3>1. page' = page
      BY <1>1, <2>2
    <3> QED
      BY <1>3, <3>1, TypesKept
  <2> QED
    BY <2>1, <2>2
<1>6. step # "push" => Requests' = Requests /\ RequestsType'
  BY <1>1, <1>3, TypesKept DEF Requests
<1>7. /\ step = "delete" => lobby' = NoRooms
      /\ step \notin {"delete", "ids", "names"} => lobby' = lobby
  BY <1>1
<1>8. step \notin {"ids", "names"} => ListsType'
  BY <1>1, <1>3, <1>7, ChatClientAssumption DEF ListsType, NoRooms
<1>9. News' = News
  BY <1>1 DEF News
<1> QED
  BY <1>1, <1>2, <1>4, <1>5, <1>6, <1>7, <1>8, <1>9 DEF step

\* A new or an unchanged list is no longer than those that come.
LEMMA ListsStay ==
  ASSUME Inv, HandlerStep, Head(logic) \notin {"ids", "names"},
         logic # <<"names">>, logic' # <<"names">>, ~Listing',
         Arriving' => Arriving, Here' # "login"
  PROVE  Lists'
<1>1. lobby' = lobby \/ lobby' = NoRooms
  BY StepFacts
<1>2. News' = News /\ UNCHANGED <<server, roomPacket>>
  BY StepFacts
<1>3. Lists /\ ServerType /\ ListsType /\ News \in Seq(ServerPackets)
  BY TypeParts, StreamTypes DEF Inv
<1>4. server.rooms \in Nat /\ \A i \in DOMAIN News : IsList(News[i]) => News[i].rooms \in Nat
  BY <1>3, ChatClientAssumption DEF ServerType, ServerPackets, IsList
<1>5. CASE lobby' = lobby
  BY <1>2, <1>3, <1>5 DEF Lists, IsList
<1>6. CASE lobby' = NoRooms
  BY <1>2, <1>3, <1>4, <1>6 DEF Lists, IsList, NoRooms
<1> QED
  BY <1>1, <1>5, <1>6

\* F_SERVER_ENTER_OK up to its request for a list.
LEMMA ArrivingKeeps == ASSUME Inv, HandlerStep, InF_SERVER_ENTER_OK, Head(logic) # "push" PROVE Inv'
<1> USE StepFacts
<1>1. Arriving /\ ~Entering /\ ~Leaving /\ ~Listing /\ Here = "lobby"
  BY StageFacts
<1>2. /\ InF_SERVER_ENTER_OK' /\ asked = "none" /\ asked' = "none" /\ state_ = "PENDING" /\ state_' \in {"PENDING", "LOBBY"}
      /\ Head(logic) \in {"delete", "lobby", "draw", "LOBBY"}
      /\ logic # <<"names">> /\ logic' # <<"names">>
  <2>1. CASE Stage(<<"delete", "lobby", "draw", "LOBBY", "push">>, "PENDING", "login", "login", {"none"})
    BY <2>1 DEF InF_SERVER_ENTER_OK, Stage
  <2>2. CASE Stage(<<"lobby", "draw", "LOBBY", "push">>, "PENDING", "deleted", "login", {"none"})
    BY <2>2 DEF InF_SERVER_ENTER_OK, Stage
  <2>3. CASE Stage(<<"draw", "LOBBY", "push">>, "PENDING", "lobby", "login", {"none"})
    BY <2>3 DEF InF_SERVER_ENTER_OK, Stage
  <2>4. CASE Stage(<<"LOBBY", "push">>, "PENDING", "lobby", "lobby", {"none"})
    BY <2>4 DEF InF_SERVER_ENTER_OK, Stage
  <2>5. CASE Stage(<<"push">>, "LOBBY", "lobby", "lobby", {"none"})
    BY <2>5 DEF Stage
  <2> QED
    BY <2>1, <2>2, <2>3, <2>4, <2>5 DEF InF_SERVER_ENTER_OK
<1>3. Arriving' /\ ~Entering' /\ ~Leaving' /\ ~Listing' /\ Here' = "lobby" /\ Stages'
  BY <1>2, StageFactsNext DEF Stages
<1>4. TypeOK'
  BY <1>2, <1>3, TypeParts, StageTypes
<1>5. LoginStream' /\ RoomStream'
  BY <1>3 DEF LoginStream, RoomStream
<1>6. LobbyStream'
  BY <1>1, <1>2, <1>3 DEF Inv, LobbyStream, IsList
<1>7. Whereabouts'
  BY <1>1, <1>2, <1>3, PageFacts DEF Whereabouts
<1>8. Hands'
  BY <1>1, <1>2, <1>3, PageFacts DEF Hands, Whereabouts
<1>9. Lists'
  BY <1>1, <1>2, <1>3, ListsStay
<1> QED
  BY <1>3, <1>4, <1>5, <1>6, <1>7, <1>8, <1>9 DEF Inv

\* The request for a list.
LEMMA ArrivedKeeps == ASSUME Inv, HandlerStep, InF_SERVER_ENTER_OK, Head(logic) = "push" PROVE Inv'
<1> USE StepFacts
<1>1. Arriving /\ ~Entering /\ ~Leaving /\ ~Listing /\ Here = "lobby"
  BY StageFacts
<1>2. Stage(<<"push">>, "LOBBY", "lobby", "lobby", {"none"})
  <2>1. ~Stage(<<"delete", "lobby", "draw", "LOBBY", "push">>, "PENDING", "login", "login", {"none"})
    BY DEF Stage
  <2>2. ~Stage(<<"lobby", "draw", "LOBBY", "push">>, "PENDING", "deleted", "login", {"none"})
    BY DEF Stage
  <2>3. ~Stage(<<"draw", "LOBBY", "push">>, "PENDING", "lobby", "login", {"none"})
    BY DEF Stage
  <2>4. ~Stage(<<"LOBBY", "push">>, "PENDING", "lobby", "lobby", {"none"})
    BY DEF Stage
  <2> QED
    BY <2>1, <2>2, <2>3, <2>4 DEF InF_SERVER_ENTER_OK
<1>3. Stage(<<>>, "LOBBY", "lobby", "lobby", {"none"})' /\ asked = "none" /\ asked' = "none" /\ state_ = "LOBBY"
      /\ logic' = <<>> /\ logic' # <<"names">> /\ logic # <<"names">>
  BY <1>2 DEF Stage
<1>4. AtRest' /\ Stages'
  BY <1>3 DEF AtRest, Stages, Stage
<1>5. ~Arriving' /\ ~Entering' /\ ~Leaving' /\ ~Listing' /\ Here' = "lobby"
  BY <1>3, <1>4, StageFactsNext, PageFacts DEF Stage
<1>6. RequestsType' /\ Grows(Requests, Requests', "C_LOBBY_ROOM_INFO") /\ Requests \in Seq(ClientPackets)
  BY PushedRequest DEF ClientPackets
<1>7. TypeOK'
  BY <1>2, <1>4, <1>6, TypeParts, StageTypes
<1>8. LoginStream' /\ RoomStream'
  BY <1>5 DEF LoginStream, RoomStream
<1>9. LobbyStream'
  <2>1. LobbyStream /\ ~server.inRoom
    BY <1>1, <1>3 DEF Inv, LobbyStream
  <2>2. server.connected =>
         \A i \in DOMAIN Requests' :
           /\ Requests'[i] \in {"C_LOBBY_ROOM_INFO", "C_ROOM_CREATE", "C_ROOM_ENTER"}
           /\ Requests'[i] = "C_ROOM_ENTER" => i = Len(Requests') /\ asked' = "page"
    BY <1>1, <1>3, <1>6, <2>1 DEF LobbyStream, Grows
  <2> QED
    BY <1>1, <1>3, <1>5, <2>1, <2>2 DEF LobbyStream, IsList
<1>10. Whereabouts'
  BY <1>1, <1>3, <1>5, PageFacts DEF Whereabouts, Stage
<1>11. Hands'
  BY <1>1, <1>3, <1>5, PageFacts DEF Hands, Whereabouts, Stage
<1>12. Lists'
  BY <1>3, <1>5, ListsStay
<1> QED
  BY <1>4, <1>7, <1>8, <1>9, <1>10, <1>11, <1>12 DEF Inv

\* F_ROOM_ENTER in the lobby.
LEMMA EnteringKeeps == ASSUME Inv, HandlerStep, InF_ROOM_ENTER PROVE Inv'
<1> USE StepFacts
<1>1. ~Arriving /\ Entering /\ ~Leaving /\ ~Listing /\ Here = "room"
  BY StageFacts
<1>2. /\ state_ = "LOBBY" /\ logic # <<"names">> /\ logic' # <<"names">>
      /\ Head(logic) \in {"delete", "room", "draw", "CHATROOM"}
      /\ \/ InF_ROOM_ENTER' /\ state_' = "LOBBY" /\ asked' \in {"none", "page"}
         \/ InPrint' /\ state_' = "CHATROOM" /\ asked' = "none"
  <2>1. CASE Stage(<<"delete", "room", "draw", "CHATROOM", "print">>, "LOBBY", "lobby", "lobby", {"page"})
    BY <2>1 DEF InF_ROOM_ENTER, Stage
  <2>2. CASE Stage(<<"room", "draw", "CHATROOM", "print">>, "LOBBY", "deleted", "lobby", {"page"})
    BY <2>2 DEF InF_ROOM_ENTER, Stage
  <2>3. CASE Stage(<<"draw", "CHATROOM", "print">>, "LOBBY", "room", "lobby", {"page"})
    BY <2>3 DEF InF_ROOM_ENTER, Stage
  <2>4. CASE Stage(<<"CHATROOM", "print">>, "LOBBY", "room", "room", {"none"})
    BY <2>4 DEF InPrint, Stage
  <2> QED
    BY <2>1, <2>2, <2>3, <2>4 DEF InF_ROOM_ENTER
<1>3. /\ ~Arriving' /\ ~Leaving' /\ ~Listing' /\ Here' = "room" /\ Stages'
      /\ Entering' => state_' = "LOBBY"
  BY <1>2, StageFactsNext DEF Stages
<1>4. TypeOK'
  BY <1>2, <1>3, TypeParts, StageTypes
<1>5. LoginStream' /\ LobbyStream'
  BY <1>3 DEF LoginStream, LobbyStream
<1>6. RoomStream'
  <2>1. RoomStream /\ server.inRoom /\ (server.connected => Requests = <<>> /\ DOMAIN Requests = {})
    BY <1>1 DEF Inv, RoomStream
  <2>2. \A i \in DOMAIN News :
          News[i].type \in {"S_ROOM_ENTER", "S_ROOM_NAME", "S_MULTICAST", "S_ROOM_EXIT"} /\ ~IsExit(News[i])
    BY <1>1, <2>1 DEF RoomStream
  <2>3. Requests' = Requests
    BY <1>2
  <2> QED
    BY <1>3, <2>1, <2>2, <2>3 DEF RoomStream, IsExit
<1>7. page.at \in {"lobbyLoop", "getch"} /\ page.line = NoLine
  BY <1>1, <1>2, PageFacts DEF Whereabouts, Hands
<1>8. Whereabouts'
  BY <1>2, <1>3, <1>7 DEF Whereabouts
<1>9. Hands'
  BY <1>3, <1>7 DEF Hands
<1>10. Lists'
  BY <1>2, <1>3, ListsStay
<1> QED
  BY <1>3, <1>4, <1>5, <1>6, <1>8, <1>9, <1>10 DEF Inv

\* A handler of a room's news draws it.
LEMMA PrintKeeps == ASSUME Inv, HandlerStep, InPrint PROVE Inv'
<1> USE StepFacts
<1>1. ~Arriving /\ ~Entering /\ ~Leaving /\ ~Listing /\ Here = "room"
  BY StageFacts
<1>2. /\ state_ = "CHATROOM" /\ state_' = "CHATROOM" /\ Head(logic) = "print" /\ asked' = asked
      /\ AtRest' /\ logic # <<"names">> /\ logic' # <<"names">> /\ page' = page
  BY DEF InPrint, AtRest, Stage
<1>3. ~Arriving' /\ ~Entering' /\ ~Leaving' /\ ~Listing' /\ Here' = "room" /\ Stages'
  BY <1>2, StageFactsNext, PageFacts DEF Stages
<1>4. TypeOK'
  BY <1>2, <1>3, TypeParts, StageTypes
<1>5. LoginStream' /\ LobbyStream'
  BY <1>3 DEF LoginStream, LobbyStream
<1>6. RoomStream'
  BY <1>1, <1>2, <1>3 DEF Inv, RoomStream, IsExit
<1>7. Whereabouts'
  BY <1>1, <1>2, <1>3, PageFacts DEF Whereabouts
<1>8. Hands'
  BY <1>1, <1>2, <1>3, PageFacts DEF Hands
<1>9. Lists'
  BY <1>2, <1>3, ListsStay
<1> QED
  BY <1>3, <1>4, <1>5, <1>6, <1>7, <1>8, <1>9 DEF Inv

\* F_ROOM_EXIT, to the end.
LEMMA LeavingKeeps == ASSUME Inv, HandlerStep, InF_ROOM_EXIT PROVE Inv'
<1> USE StepFacts
<1>1. ~Arriving /\ ~Entering /\ Leaving /\ ~Listing /\ Here = "lobby"
  BY StageFacts
<1>2. /\ state_ \in {"CHATROOM", "LOBBY"} /\ logic # <<"names">> /\ logic' # <<"names">>
      /\ Head(logic) \in {"delete", "lobby", "LOBBY", "draw"} /\ asked = "page"
      /\ state_ = "LOBBY" => Head(logic) = "draw"
      /\ \/ InF_ROOM_EXIT' /\ state_' \in {state_, "LOBBY"} /\ asked' = "page"
         \/ AtRest' /\ state_' = "LOBBY" /\ asked' = "none"
  <2>1. CASE Stage(<<"delete", "lobby", "LOBBY", "draw">>, "CHATROOM", "room", "room", {"page"})
    BY <2>1 DEF InF_ROOM_EXIT, Stage
  <2>2. CASE Stage(<<"lobby", "LOBBY", "draw">>, "CHATROOM", "deleted", "room", {"page"})
    BY <2>2 DEF InF_ROOM_EXIT, Stage
  <2>3. CASE Stage(<<"LOBBY", "draw">>, "CHATROOM", "lobby", "room", {"page"})
    BY <2>3 DEF InF_ROOM_EXIT, Stage
  <2>4. CASE Stage(<<"draw">>, "LOBBY", "lobby", "room", {"page"})
    BY <2>4 DEF AtRest, Stage
  <2> QED
    BY <2>1, <2>2, <2>3, <2>4 DEF InF_ROOM_EXIT
<1>3. /\ ~Arriving' /\ ~Entering' /\ ~Listing' /\ Here' = "lobby" /\ Stages'
      /\ asked' = "page" => Leaving'
  BY <1>2, StageFactsNext, PageFacts DEF Stages
<1>4. TypeOK'
  BY <1>2, <1>3, TypeParts, StageTypes
<1>5. LoginStream' /\ RoomStream'
  BY <1>3 DEF LoginStream, RoomStream
<1>6. LobbyStream'
  <2>1. LobbyStream /\ ~server.inRoom /\ (server.connected => Requests = <<>> /\ DOMAIN Requests = {})
    BY <1>1 DEF Inv, LobbyStream
  <2>2. Requests' = Requests
    BY <1>2
  <2> QED
    BY <1>1, <1>3, <2>1, <2>2 DEF LobbyStream, IsList
<1>7. Whereabouts'
  BY <1>1, <1>2, <1>3, PageFacts DEF Whereabouts
<1>8. Hands'
  <2>1. CASE state_ = "CHATROOM"
    <3>1. page.at \in {"onSend", "roomLoop", "getline"}
      BY <1>2, <2>1, PageFacts DEF Whereabouts
    <3> QED
      BY <1>1, <1>2, <1>3, <2>1, <3>1, PageFacts DEF Hands
  <2>2. CASE state_ = "LOBBY"
    <3>1. page' = page
      BY <1>2, <2>2
    <3> QED
      BY <1>1, <1>2, <1>3, <2>2, <3>1, PageFacts DEF Hands
  <2> QED
    BY <1>2, <2>1, <2>2
<1>9. Lists'
  BY <1>2, <1>3, ListsStay
<1> QED
  BY <1>3, <1>4, <1>5, <1>6, <1>7, <1>8, <1>9 DEF Inv

\* SetRoomList: the ids, then the names.
LEMMA ListingKeeps == ASSUME Inv, HandlerStep, InSetRoomList PROVE Inv'
<1> USE StepFacts
<1>1. ~Arriving /\ ~Entering /\ ~Leaving /\ Listing /\ Here = "lobby"
  BY StageFacts
<1>2. /\ state_ = "LOBBY" /\ state_' = "LOBBY" /\ asked' = asked
      /\ \/ logic = <<"ids", "names">> /\ Head(logic) = "ids" /\ logic' = <<"names">> /\ InSetRoomList'
         \/ logic = <<"names">> /\ Head(logic) = "names" /\ logic' = <<>> /\ AtRest'
  <2>1. CASE Stage(<<"ids", "names">>, "LOBBY", "lobby", "lobby", {"none", "page"})
    BY <2>1 DEF InSetRoomList, Stage
  <2>2. CASE Stage(<<"names">>, "LOBBY", "lobby", "lobby", {"none", "page"})
    BY <2>2 DEF AtRest, Stage
  <2> QED
    BY <2>1, <2>2 DEF InSetRoomList
<1>3. page' = page /\ Requests' = Requests /\ RequestsType'
  BY <1>2
<1>4. /\ ~Arriving' /\ ~Entering' /\ ~Leaving' /\ Here' = "lobby" /\ Stages'
      /\ logic' = <<>> => ~Listing'
  BY <1>2, StageFactsNext, PageFacts DEF Stages
<1>5. /\ lobby \in [ids : 0..MaxRooms, names : 0..MaxRooms, cursor : 0..MaxRooms] /\ roomPacket \in 0..MaxRooms
      /\ server.rooms \in Nat /\ \A i \in DOMAIN News : IsList(News[i]) => News[i].rooms \in Nat
  <2>1. ServerType /\ ListsType /\ News \in Seq(ServerPackets)
    BY TypeParts, StreamTypes DEF Inv
  <2> QED
    BY <2>1, ChatClientAssumption DEF ServerType, ListsType, ServerPackets, IsList
<1>6. /\ lobby.cursor <= lobby.names /\ lobby.names <= roomPacket /\ roomPacket <= server.rooms
      /\ logic # <<"names">> => lobby.ids = lobby.names
      /\ logic = <<"names">> => lobby.ids = roomPacket
  BY <1>1 DEF Inv, Lists
<1>7. \/ /\ Head(logic) = "ids" /\ lobby' = [lobby EXCEPT !.ids = roomPacket]
      \/ /\ Head(logic) = "names" /\ lobby' = [lobby EXCEPT !.names = roomPacket]
  BY <1>2 DEF HandlerStep
<1>8. ListsType'
  BY <1>5, <1>7 DEF ListsType
<1>9. TypeOK'
  BY <1>3, <1>4, <1>8, TypeParts, StageTypes
<1>10. LoginStream' /\ RoomStream'
  BY <1>4 DEF LoginStream, RoomStream
<1>11. LobbyStream'
  BY <1>1, <1>2, <1>3, <1>4 DEF Inv, LobbyStream, IsList
<1>12. Whereabouts'
  BY <1>1, <1>2, <1>3, <1>4, PageFacts DEF Whereabouts
<1>13. Hands'
  BY <1>1, <1>2, <1>3, <1>4, PageFacts DEF Hands
<1>14. Lists'
  <2>1. CASE logic = <<"ids", "names">>
    <3>1. /\ lobby'.cursor = lobby.cursor /\ lobby'.names = lobby.names /\ lobby'.ids = roomPacket
          /\ lobby.ids = lobby.names /\ logic' = <<"names">>
      BY <1>2, <1>5, <1>6, <1>7, <2>1
    <3> QED
      BY <1>1, <1>4, <1>5, <1>6, <3>1 DEF Inv, Lists, IsList
  <2>2. CASE logic = <<"names">>
    <3>1. /\ lobby'.cursor = lobby.cursor /\ lobby'.names = roomPacket /\ lobby'.ids = lobby.ids
          /\ lobby.ids = roomPacket /\ logic' = <<>> /\ logic' # <<"names">>
      BY <1>2, <1>5, <1>6, <1>7, <2>2
    <3> QED
      BY <1>1, <1>4, <1>5, <1>6, <3>1 DEF Inv, Lists, IsList
  <2> QED
    BY <1>2, <2>1, <2>2
<1> QED
  BY <1>4, <1>9, <1>10, <1>11, <1>12, <1>13, <1>14 DEF Inv

\* A handler's step, by the handler.
LEMMA HandlerStepKeeps == ASSUME Inv, HandlerStep PROVE Inv'
<1>1. ~AtRest
  BY StageFacts DEF HandlerStep
<1> QED
  BY <1>1, ArrivingKeeps, ArrivedKeeps, EnteringKeeps, PrintKeeps, LeavingKeeps, ListingKeeps DEF Inv, Stages

-----------------------------------------------------------------------------
(* The other threads, and the server.                                       *)

\* What these leave alone, and what remains to be shown of them.
LEMMA OutsideKeeps ==
  ASSUME Inv, UNCHANGED <<state_, display_, page, logic, lists, user>>,
         ThreadsType', RequestsType', NewsType', ServerType',
         LoginStream', LobbyStream', RoomStream', Lists'
  PROVE  Inv'
<1>1. UNCHANGED <<state_, display_, page, logic, shown, asked, lobby, roomPacket>>
  BY DEF lists, user
<1>2. /\ Stages' /\ Here' = Here /\ Entering' = Entering /\ Leaving' = Leaving
  BY <1>1, StagesKept DEF Inv
<1>3. TypeOK'
  BY <1>1, TypeParts, TypesKept DEF Inv, lists, user
<1>4. Whereabouts'
  BY <1>1, <1>2 DEF Inv, Whereabouts
<1>5. Hands'
  BY <1>1, <1>2 DEF Inv, Hands
<1> QED
  BY <1>2, <1>3, <1>4, <1>5 DEF Inv

\* A step of a thread that touches neither page, handler nor what is under way to the
\* client; it may be the one that ends the connection.
LEMMA QuietKeeps ==
  ASSUME Inv, UNCHANGED <<state_, display_, page, logic, lists, user>>,
         ThreadsType', RequestsType', NewsType', News' = News,
         \/ server' = server /\ (server.connected => Requests' = Requests)
         \/ server' = [server EXCEPT !.connected = FALSE]
  PROVE  Inv'
<1>1. UNCHANGED <<state_, display_, page, logic, shown, asked, lobby, roomPacket>>
  BY DEF lists, user
<1>2. /\ Here' = Here /\ Entering' = Entering /\ Leaving' = Leaving /\ Arriving' = Arriving /\ Listing' = Listing
  BY <1>1, StagesKept DEF Inv
<1>3. ServerType
  BY TypeParts DEF Inv
<1>4. /\ ServerType' /\ server'.rooms = server.rooms /\ server'.inRoom = server.inRoom
      /\ server'.connected => server.connected /\ Requests' = Requests
  BY <1>3 DEF ServerType
<1>5. LoginStream'
  BY <1>1, <1>2, <1>4 DEF Inv, LoginStream, IsList
<1>6. LobbyStream'
  BY <1>1, <1>2, <1>4 DEF Inv, LobbyStream, IsList
<1>7. RoomStream'
  BY <1>1, <1>2, <1>4 DEF Inv, RoomStream, IsExit
<1>8. Lists'
  BY <1>1, <1>2, <1>4 DEF Inv, Lists, IsList
<1> QED
  BY <1>4, <1>5, <1>6, <1>7, <1>8, OutsideKeeps

\* The sending thread sends, fails, or ends.
LEMMA SendThreadKeeps == ASSUME Inv, SendThread PROVE Inv'
<1>1. UNCHANGED <<state_, display_, page, logic, recver, main, recvQueue_, toClient, server, lists, user>>
  BY DEF SendThread
<1>2. ThreadsType /\ RequestsType /\ NewsType
  BY TypeParts DEF Inv
<1>3. NewsType' /\ News' = News
  BY <1>1, <1>2, TypesKept DEF News
<1>4. ThreadsType'
  <2>1. sender' \in {"running", "ended"}
    BY <1>2 DEF SendThread, ThreadsType
  <2>2. bIsWorkerRun_' \in BOOLEAN
    BY <1>2, Zenon DEF SendThread, ThreadsType
  <2> QED
    BY <1>1, <1>2, <2>1, <2>2 DEF ThreadsType
<1>5. RequestsType' /\ (server.connected => Requests' = Requests)
  <2>1. CASE sendQueue_' = sendQueue_ /\ toServer' = toServer
    BY <1>2, <2>1, TypesKept DEF Requests
  <2>2. CASE sendQueue_ # <<>> /\ sendQueue_' = Tail(sendQueue_)
             /\ IF server.connected THEN toServer' = Append(toServer, Head(sendQueue_)) ELSE toServer' = toServer
    <3>1. Head(sendQueue_) \in ClientPackets /\ sendQueue_' \in Seq(ClientPackets)
      BY <1>2, <2>2, HeadTailProperties DEF RequestsType
    <3>2. toServer' \in Seq(ClientPackets)
      BY <1>2, <2>2, <3>1, AppendProperties DEF RequestsType
    <3>3. server.connected => Requests' = Requests
      BY <1>2, <2>2, PassKeeps DEF Requests, RequestsType
    <3> QED
      BY <3>1, <3>2, <3>3 DEF RequestsType
  <2> QED
    BY <2>1, <2>2, Zenon DEF SendThread
<1> QED
  BY <1>1, <1>3, <1>4, <1>5, QuietKeeps

\* The receiving thread queues what has come, or closes.
LEMMA RecvThreadKeeps == ASSUME Inv, RecvThread \/ Close PROVE Inv'
<1>1. ThreadsType /\ RequestsType /\ NewsType
  BY TypeParts DEF Inv
<1>2. UNCHANGED <<state_, display_, page, logic, sender, sendQueue_, toServer, server, lists, user>>
  BY DEF RecvThread, Recv, Close, queues, net
<1>3. RequestsType' /\ Requests' = Requests
  BY <1>1, <1>2, TypesKept DEF Requests
<1>4. ThreadsType'
  <2>1. recver' \in {"running", "recv", "closing", "aborted", "ended"} /\ main' \in {"joinSender", "joinRecver", "closed"}
    BY <1>1 DEF RecvThread, Recv, Close, ThreadsType
  <2>2. bIsWorkerRun_' \in BOOLEAN
    BY <1>1, Zenon DEF RecvThread, Recv, Close, ThreadsType
  <2> QED
    BY <1>1, <1>2, <2>1, <2>2 DEF ThreadsType
<1>5. NewsType' /\ News' = News
  <2>1. CASE recvQueue_' = recvQueue_ /\ toClient' = toClient
    BY <1>1, <2>1, TypesKept DEF News
  <2>2. CASE toClient # <<>> /\ recvQueue_' = Append(recvQueue_, Head(toClient)) /\ toClient' = Tail(toClient)
    <3>1. Head(toClient) \in ServerPackets /\ toClient' \in Seq(ServerPackets)
      BY <1>1, <2>2, HeadTailProperties DEF NewsType
    <3>2. recvQueue_' \in Seq(ServerPackets)
      BY <1>1, <2>2, <3>1, AppendProperties DEF NewsType
    <3>3. News' = News
      BY <1>1, <2>2, PassKeeps DEF News, NewsType
    <3> QED
      BY <3>1, <3>2, <3>3 DEF NewsType
  <2> QED
    BY <2>1, <2>2 DEF RecvThread, Recv, Close, queues, net
<1> QED
  BY <1>2, <1>3, <1>4, <1>5, QuietKeeps

\* The server closes the connection.
LEMMA ServerClosesKeeps == ASSUME Inv, ServerCloses PROVE Inv'
<1>1. ThreadsType /\ RequestsType /\ NewsType
  BY TypeParts DEF Inv
<1>2. /\ UNCHANGED <<state_, display_, page, logic, workers, queues, toClient, lists, user>>
      /\ server' = [server EXCEPT !.connected = FALSE] /\ toServer' = <<>>
  BY DEF ServerCloses
<1>3. ThreadsType' /\ RequestsType' /\ NewsType' /\ News' = News
  BY <1>1, <1>2, TypesKept DEF RequestsType, News, queues
<1> QED
  BY <1>2, <1>3, QuietKeeps

\* t is s with x and y behind it.
GrowsByTwo(s, t, x, y) ==
  Len(t) = Len(s) + 2 /\ (\A i \in 1..Len(s) : t[i] = s[i]) /\ t[Len(s) + 1] = x /\ t[Len(s) + 2] = y

\* What the server's answers do to what is under way: none, one or two more packets.
LEMMA AnswerGrows ==
  ASSUME NEW S, NEW s \in Seq(S), NEW t \in Seq(S), NEW x \in S, NEW y \in S
  PROVE  /\ t \o <<>> = t
         /\ t \o <<x>> = Append(t, x) /\ t \o <<x>> \in Seq(S)
         /\ t \o <<x, y>> \in Seq(S) /\ GrowsByTwo(s \o t, s \o (t \o <<x, y>>), x, y)
<1>1. t \o <<>> = t /\ t \o <<x>> = Append(t, x) /\ t \o <<x>> \in Seq(S)
  OBVIOUS
<1> DEFINE u == t \o <<x, y>>
<1>2. /\ u \in Seq(S) /\ Len(u) = Len(t) + 2 /\ Len(t) \in Nat /\ Len(s) \in Nat
      /\ (\A i \in 1..Len(t) : u[i] = t[i]) /\ u[Len(t) + 1] = x /\ u[Len(t) + 2] = y
  OBVIOUS
<1> HIDE DEF u
<1>3. /\ Len(s \o u) = Len(s) + Len(t) + 2 /\ Len(s \o t) = Len(s) + Len(t)
      /\ \A i \in 1..(Len(s) + Len(t)) : (s \o u)[i] = (s \o t)[i]
      /\ (s \o u)[Len(s) + Len(t) + 1] = x /\ (s \o u)[Len(s) + Len(t) + 2] = y
  <2>1. Len(s \o u) = Len(s) + Len(t) + 2 /\ Len(s \o t) = Len(s) + Len(t)
    <3>1. Len(s \o u) = Len(s) + Len(u) /\ Len(s \o t) = Len(s) + Len(t)
      BY <1>2, ConcatProperties
    <3> QED
      BY <1>2, <3>1
  <2>2. \A i \in 1..(Len(s) + Len(u)) : (s \o u)[i] = IF i <= Len(s) THEN s[i] ELSE u[i - Len(s)]
    BY <1>2, ConcatProperties
  <2>3. \A i \in 1..(Len(s) + Len(t)) : (s \o t)[i] = IF i <= Len(s) THEN s[i] ELSE t[i - Len(s)]
    BY ConcatProperties
  <2>4. \A i \in 1..(Len(s) + Len(t)) : (s \o u)[i] = (s \o t)[i]
    BY <1>2, <2>2, <2>3
  <2>5. (s \o u)[Len(s) + Len(t) + 1] = x /\ (s \o u)[Len(s) + Len(t) + 2] = y
    BY <1>2, <2>2
  <2> QED
    BY <2>1, <2>4, <2>5
<1>4. GrowsByTwo(s \o t, s \o u, x, y)
  BY <1>2, <1>3 DEF GrowsByTwo
<1> QED
  BY <1>1, <1>2, <1>4 DEF u

\* A new room does not take one away.
LEMMA MoreRoomsIsMore ==
  ASSUME ServerType PROVE MoreRooms \in 0..MaxRooms /\ server.rooms <= MoreRooms
<1>1. server.rooms \in 0..MaxRooms /\ MaxRooms \in Nat /\ server.rooms + 1 \in Int /\ MaxRooms \in Int
  BY ChatClientAssumption DEF ServerType
<1>2. MoreRooms \in {server.rooms + 1, MaxRooms} /\ MoreRooms <= MaxRooms /\ MoreRooms <= server.rooms + 1
  BY <1>1, ExtremesOfTwo, Zenon DEF MoreRooms
<1> QED
  BY <1>1, <1>2

\* What the server's step does to the streams.
LEMMA ServeFacts ==
  ASSUME Inv, Serve
  PROVE  /\ UNCHANGED <<state_, display_, page, logic, shown, asked, lobby, roomPacket>>
         /\ UNCHANGED <<state_, display_, page, logic, lists, user>>
         /\ Here' = Here /\ Entering' = Entering /\ Leaving' = Leaving /\ Arriving' = Arriving /\ Listing' = Listing
         /\ server.connected /\ Requests # <<>> /\ Requests[1] \in ClientPackets /\ Shrinks(Requests, Requests')
         /\ Requests \in Seq(ClientPackets) /\ Requests' \in Seq(ClientPackets) /\ News \in Seq(ServerPackets)
         /\ ThreadsType' /\ RequestsType' /\ ServerType /\ ServerType' /\ NewsType
         /\ UNCHANGED recvQueue_ /\ toClient' = toClient \o Answer(Requests[1])
         /\ server'.connected <=> Requests[1] # "C_SERVER_EXIT"
         /\ server'.rooms = IF Requests[1] = "C_ROOM_CREATE" THEN MoreRooms ELSE server.rooms
         /\ server'.inRoom <=> Requests[1] = "C_ROOM_ENTER" \/ (server.inRoom /\ Requests[1] # "C_ROOM_EXIT")
<1>1. /\ server.connected /\ toServer # <<>> /\ toClient' = toClient \o Answer(Head(toServer))
      /\ server' = [connected |-> Head(toServer) # "C_SERVER_EXIT",
                    rooms |-> IF Head(toServer) = "C_ROOM_CREATE" THEN MoreRooms ELSE server.rooms,
                    inRoom |-> Head(toServer) = "C_ROOM_ENTER" \/ (server.inRoom /\ Head(toServer) # "C_ROOM_EXIT")]
      /\ toServer' = Tail(toServer)
      /\ UNCHANGED <<state_, display_, page, logic, workers, queues, lists, user>>
  BY DEF Serve
<1>2. ThreadsType /\ RequestsType /\ NewsType /\ ServerType
  BY TypeParts DEF Inv
<1>3. sendQueue_' = sendQueue_ /\ recvQueue_' = recvQueue_
      /\ UNCHANGED <<state_, display_, page, logic, shown, asked, lobby, roomPacket>>
  BY <1>1 DEF queues, lists, user
<1>4. /\ Requests # <<>> /\ Requests[1] = Head(toServer) /\ Head(toServer) \in ClientPackets
      /\ Shrinks(Requests, Requests') /\ toServer' \in Seq(ClientPackets)
  BY <1>1, <1>2, <1>3, TakeShrinks, HeadTailProperties DEF RequestsType, Requests
<1>5. RequestsType' /\ Requests' \in Seq(ClientPackets)
  BY <1>2, <1>3, <1>4, ConcatProperties DEF RequestsType, Requests
<1>6. Requests \in Seq(ClientPackets) /\ News \in Seq(ServerPackets)
  BY StreamTypes DEF Inv
<1>7. ThreadsType'
  BY <1>1, <1>2, TypesKept
<1>8. ServerType'
  BY <1>1, <1>2, MoreRoomsIsMore DEF ServerType
<1>9. Here' = Here /\ Entering' = Entering /\ Leaving' = Leaving /\ Arriving' = Arriving /\ Listing' = Listing
  BY <1>3, StagesKept
<1>10. /\ server'.connected <=> Head(toServer) # "C_SERVER_EXIT"
       /\ server'.rooms = IF Head(toServer) = "C_ROOM_CREATE" THEN MoreRooms ELSE server.rooms
       /\ server'.inRoom <=> Head(toServer) = "C_ROOM_ENTER" \/ (server.inRoom /\ Head(toServer) # "C_ROOM_EXIT")
  BY <1>1
<1> QED
  BY <1>1, <1>2, <1>3, <1>4, <1>5, <1>6, <1>7, <1>8, <1>9, <1>10

\* The server answers the login.
LEMMA ServeLogin == ASSUME Inv, Serve, Here = "login" PROVE Inv'
<1> USE ServeFacts
<1>1. /\ Requests[1] = "C_SERVER_ENTER" /\ Len(Requests) = 1 /\ News = <<>> /\ ~server.inRoom
      /\ page.at \notin {"nickname", "pending", "enter"} /\ state_ # "LOGIN"
  <2>1. LoginStream /\ server.connected /\ Requests # <<>> /\ 1 \in DOMAIN Requests
    BY DEF Inv
  <2>2. Len(Requests) = 1
    <3>1. Len(Requests) <= 1
      BY <2>1 DEF LoginStream
    <3>2. Len(Requests) \in Nat /\ Len(Requests) # 0
      BY <2>1, EmptySeq, LenProperties
    <3>3. \A n \in Nat : n # 0 /\ n <= 1 => n = 1
      OBVIOUS
    <3> QED
      BY <3>1, <3>2, <3>3, Zenon
  <2>3. Requests[1] = "C_SERVER_ENTER" /\ News = <<>>
    BY <2>1 DEF LoginStream
  <2>4. ~server.inRoom
    BY <2>1 DEF LoginStream
  <2>5. page.at \notin {"nickname", "pending", "enter"} /\ state_ # "LOGIN"
    BY <2>1 DEF LoginStream
  <2> QED
    BY <2>2, <2>3, <2>4, <2>5, Zenon
<1> DEFINE ok == Packet("S_SERVER_ENTER_OK")
           list == RoomList(server.rooms)
<1>2. ok \in ServerPackets /\ ok.type = "S_SERVER_ENTER_OK" /\ list \in ServerPackets /\ IsList(list) /\ list.rooms = server.rooms
  BY DEF Packet, RoomList, ServerPackets, ServerType, IsList
<1>3. Answer(Requests[1]) = <<ok, list>>
  BY <1>1 DEF Answer
<1> HIDE DEF ok, list
<1>4. /\ NewsType' /\ GrowsByTwo(News, News', ok, list)
  <2>1. /\ recvQueue_ \in Seq(ServerPackets) /\ toClient \in Seq(ServerPackets)
        /\ recvQueue_' = recvQueue_ /\ toClient' = toClient \o <<ok, list>>
    BY <1>3 DEF NewsType
  <2>2. toClient' \in Seq(ServerPackets) /\ GrowsByTwo(recvQueue_ \o toClient, recvQueue_ \o toClient', ok, list)
    BY <1>2, <2>1, AnswerGrows
  <2> QED
    BY <2>1, <2>2 DEF NewsType, News
<1>5. News' # <<>> /\ DOMAIN News' = 1..2 /\ News'[1] = ok /\ News'[2] = list
  <2>1. News' \in Seq(ServerPackets)
    BY <1>4, ConcatProperties DEF NewsType, News
  <2> QED
    BY <1>1, <1>4, <2>1 DEF GrowsByTwo
<1>6. Requests' = <<>>
  BY <1>1 DEF Shrinks
<1>7. server'.connected /\ server'.rooms = server.rooms /\ ~server'.inRoom
  BY <1>1
<1>8. LoginStream'
  BY <1>1, <1>2, <1>5, <1>6, <1>7 DEF LoginStream, IsList
<1>9. LobbyStream' /\ RoomStream'
  BY DEF LobbyStream, RoomStream
<1>10. Lists'
  <2>1. server.rooms \in Nat /\ ~IsList(ok)
    BY <1>2, ChatClientAssumption DEF ServerType, IsList
  <2>2. ~Listing
    BY StageFacts DEF Inv, Stages, PageOf, Here, Listing, EndsWith, Arriving, Leaving, Entering, InSetRoomList, Stage
  <2> QED
    BY <1>2, <1>5, <1>7, <2>1, <2>2 DEF Inv, Lists, IsList
<1> QED
  BY <1>4, <1>8, <1>9, <1>10, OutsideKeeps

\* The answer is one packet, or none.
LEMMA AnsweredOnce ==
  ASSUME Inv, Serve, NEW x \in ServerPackets, Answer(Requests[1]) = <<x>>
  PROVE  /\ NewsType' /\ Grows(News, News', x) /\ News' \in Seq(ServerPackets)
         /\ DOMAIN News = 1..Len(News) /\ Len(News) \in Nat
         /\ DOMAIN News' = 1..(Len(News) + 1) /\ Len(News') = Len(News) + 1
         /\ (\A i \in 1..Len(News) : News'[i] = News[i]) /\ News'[Len(News) + 1] = x
<1>1. /\ recvQueue_ \in Seq(ServerPackets) /\ toClient \in Seq(ServerPackets)
      /\ recvQueue_' = recvQueue_ /\ toClient' = toClient \o <<x>>
  BY ServeFacts DEF NewsType
<1>2. toClient' = Append(toClient, x) /\ toClient' \in Seq(ServerPackets)
  BY <1>1, AnswerGrows
<1>3. Grows(News, News', x)
  BY <1>1, <1>2, PushGrows DEF News
<1>4. NewsType' /\ News' \in Seq(ServerPackets) /\ News \in Seq(ServerPackets)
  BY <1>1, <1>2, ConcatProperties DEF NewsType, News
<1> QED
  BY <1>3, <1>4 DEF Grows

\* The list of rooms, or a new one.
LEMMA ServeList ==
  ASSUME Inv, Serve, Here = "lobby", Requests[1] # "C_ROOM_ENTER" PROVE Inv'
<1>1. /\ Requests[1] \in {"C_LOBBY_ROOM_INFO", "C_ROOM_CREATE"} /\ ~server.inRoom /\ LobbyStream /\ ~Leaving
  <2>1. LobbyStream /\ server.connected /\ Requests # <<>> /\ 1 \in DOMAIN Requests
    BY ServeFacts DEF Inv
  <2>2. Requests[1] \in {"C_LOBBY_ROOM_INFO", "C_ROOM_CREATE"}
    BY <2>1 DEF LobbyStream
  <2>3. ~server.inRoom
    BY <2>1 DEF LobbyStream
  <2>4. ~Leaving
    BY <2>1 DEF LobbyStream
  <2> QED
    BY <2>1, <2>2, <2>3, <2>4
<1>2. /\ Here' = "lobby" /\ Leaving' = Leaving /\ Entering' = Entering /\ Arriving' = Arriving /\ Listing' = Listing
      /\ UNCHANGED <<lobby, roomPacket, logic, asked>>
  BY ServeFacts
<1>3. /\ server'.rooms \in 0..MaxRooms /\ server.rooms <= server'.rooms /\ server.rooms \in Nat /\ server'.rooms \in Nat
      /\ server'.connected /\ ~server'.inRoom
      /\ server'.rooms = IF Requests[1] = "C_ROOM_CREATE" THEN MoreRooms ELSE server.rooms
  BY <1>1, ServeFacts, MoreRoomsIsMore, ChatClientAssumption DEF ServerType
<1> DEFINE list == RoomList(server'.rooms)
<1>4. list \in ServerPackets /\ IsList(list) /\ list.rooms = server'.rooms
  BY <1>3 DEF RoomList, ServerPackets, IsList
<1>5. Answer(Requests[1]) = <<list>>
  BY <1>1, <1>3 DEF Answer
<1> HIDE DEF list
<1>6. /\ NewsType' /\ News \in Seq(ServerPackets)
      /\ DOMAIN News = 1..Len(News) /\ Len(News) \in Nat
      /\ DOMAIN News' = 1..(Len(News) + 1) /\ Len(News') = Len(News) + 1
      /\ (\A i \in 1..Len(News) : News'[i] = News[i]) /\ News'[Len(News) + 1] = list
  BY <1>4, <1>5, AnsweredOnce, StreamTypes DEF Inv
<1>7. \A i \in 1..Len(News) : IsList(News[i]) /\ News[i].rooms \in Nat
  <2>1. \A i \in 1..Len(News) : IsList(News[i])
    BY <1>1, <1>6 DEF LobbyStream
  <2>2. \A i \in 1..Len(News) : News[i] \in ServerPackets
    BY <1>6
  <2> QED
    BY <2>1, <2>2, ChatClientAssumption DEF ServerPackets, IsList
<1>8. \A i \in 1..(Len(News) + 1) : IsList(News'[i]) /\ News'[i].rooms \in Nat
  BY <1>3, <1>4, <1>6, <1>7
<1>9. LoginStream' /\ RoomStream'
  BY <1>2 DEF LoginStream, RoomStream
<1>10. \A i \in DOMAIN Requests' :
         /\ Requests'[i] \in {"C_LOBBY_ROOM_INFO", "C_ROOM_CREATE", "C_ROOM_ENTER"}
         /\ Requests'[i] = "C_ROOM_ENTER" => i = Len(Requests') /\ asked' = "page"
  <2>1. /\ server.connected /\ Requests \in Seq(ClientPackets) /\ Requests' \in Seq(ClientPackets)
        /\ Len(Requests') = Len(Requests) - 1 /\ \A i \in 1..Len(Requests') : Requests'[i] = Requests[i + 1]
    BY ServeFacts DEF Shrinks
  <2> QED
    BY <1>1, <1>2, <2>1 DEF LobbyStream
<1>11. LobbyStream'
  BY <1>1, <1>2, <1>3, <1>6, <1>8, <1>10 DEF LobbyStream
<1>12. Lists'
  <2>1. Lists
    BY DEF Inv
  <2>2. /\ lobby.names \in Nat /\ roomPacket \in Nat
    BY TypeParts, ChatClientAssumption DEF Inv, ListsType
  <2>3. /\ lobby.names <= server'.rooms
        /\ Listing => lobby.names <= roomPacket /\ roomPacket <= server'.rooms
    BY <1>3, <2>1, <2>2 DEF Lists
  <2>4. \A i \in 1..Len(News) :
          /\ lobby.names <= News[i].rooms /\ News[i].rooms <= server.rooms
          /\ Listing => roomPacket <= News[i].rooms
          /\ \A j \in 1..Len(News) : i < j => News[i].rooms <= News[j].rooms
    BY <1>6, <1>7, <2>1 DEF Lists
  <2>5. \A i \in 1..(Len(News) + 1) :
          /\ lobby.names <= News'[i].rooms /\ News'[i].rooms <= server'.rooms
          /\ Listing => roomPacket <= News'[i].rooms
    BY <1>3, <1>4, <1>6, <1>7, <2>3, <2>4
  <2>6. ASSUME NEW i \in 1..(Len(News) + 1), NEW j \in 1..(Len(News) + 1), i < j
        PROVE  News'[i].rooms <= News'[j].rooms
    <3>1. i \in 1..Len(News) /\ News'[i] = News[i]
      BY <1>6, <2>6
    <3>2. CASE j \in 1..Len(News)
      BY <1>6, <2>4, <2>6, <3>1, <3>2
    <3>3. CASE j = Len(News) + 1
      BY <1>4, <1>6, <2>5, <3>3
    <3> QED
      BY <1>6, <3>2, <3>3
  <2>7. /\ lobby.cursor <= lobby.names /\ lobby.names <= lobby.ids
        /\ logic # <<"names">> => lobby.ids = lobby.names
        /\ logic = <<"names">> => lobby.ids = roomPacket
        /\ Arriving => lobby.names = 0
    BY <2>1 DEF Lists
  <2> QED
    BY <1>2, <1>6, <2>3, <2>5, <2>6, <2>7 DEF Lists
<1>13. /\ UNCHANGED <<state_, display_, page, logic, lists, user>>
       /\ ThreadsType' /\ RequestsType' /\ ServerType'
  BY ServeFacts
<1> QED
  BY <1>6, <1>9, <1>11, <1>12, <1>13, OutsideKeeps

\* The user is let into a room: its own entrance, and the room's name.
LEMMA ServeEnter ==
  ASSUME Inv, Serve, Here = "lobby", Requests[1] = "C_ROOM_ENTER" PROVE Inv'
<1>1. LobbyStream /\ server.connected /\ Requests # <<>> /\ 1 \in DOMAIN Requests
  BY ServeFacts DEF Inv
<1>2. /\ Len(Requests) = 1 /\ asked = "page"
  BY <1>1 DEF LobbyStream
<1>3. ~server.inRoom
  BY <1>1 DEF LobbyStream
<1>4. ~Leaving
  BY <1>1 DEF LobbyStream
<1>5. /\ Here' = "lobby" /\ Leaving' = Leaving /\ Entering' = Entering /\ Arriving' = Arriving /\ Listing' = Listing
      /\ UNCHANGED <<lobby, roomPacket, logic, asked>>
      /\ server'.connected /\ server'.inRoom /\ server'.rooms = server.rooms
  BY ServeFacts
<1>6. Requests' = <<>> /\ DOMAIN Requests' = {}
  BY <1>2, ServeFacts DEF Shrinks
<1> DEFINE enter == Packet("S_ROOM_ENTER")
           name == Packet("S_ROOM_NAME")
<1>7. /\ enter \in ServerPackets /\ name \in ServerPackets /\ ~IsList(enter) /\ ~IsList(name)
      /\ enter.type = "S_ROOM_ENTER" /\ name.type = "S_ROOM_NAME"
  BY DEF Packet, ServerPackets, IsList
<1>8. Answer(Requests[1]) = <<enter, name>>
  BY DEF Answer
<1> HIDE DEF enter, name
<1>9. /\ NewsType' /\ GrowsByTwo(News, News', enter, name)
      /\ News \in Seq(ServerPackets) /\ News' \in Seq(ServerPackets)
  <2>1. /\ recvQueue_ \in Seq(ServerPackets) /\ toClient \in Seq(ServerPackets)
        /\ recvQueue_' = recvQueue_ /\ toClient' = toClient \o <<enter, name>>
    BY <1>8, ServeFacts DEF NewsType
  <2>2. toClient' \in Seq(ServerPackets) /\ GrowsByTwo(recvQueue_ \o toClient, recvQueue_ \o toClient', enter, name)
    BY <1>7, <2>1, AnswerGrows
  <2> QED
    BY <2>1, <2>2, ConcatProperties DEF NewsType, News
<1>10. /\ DOMAIN News = 1..Len(News) /\ Len(News) \in Nat
       /\ DOMAIN News' = 1..(Len(News) + 2) /\ Len(News') = Len(News) + 2
       /\ \A i \in 1..Len(News) : News'[i] = News[i]
       /\ News'[Len(News) + 1] = enter /\ News'[Len(News) + 2] = name
  BY <1>9 DEF GrowsByTwo
<1>11. \A i \in 1..Len(News) : IsList(News[i])
  BY <1>1, <1>3, <1>10 DEF LobbyStream
<1>12. \A i \in 1..(Len(News) + 2) :
         \/ i \in 1..Len(News) /\ IsList(News'[i]) /\ News'[i] = News[i]
         \/ i = Len(News) + 1 /\ News'[i] = enter
         \/ i = Len(News) + 2 /\ News'[i] = name
  BY <1>10, <1>11
<1>13. LoginStream' /\ RoomStream'
  BY <1>5 DEF LoginStream, RoomStream
<1>14. LobbyStream'
  <2>1. \A i \in DOMAIN News' : IsList(News'[i]) \/ News'[i].type \in {"S_ROOM_ENTER", "S_ROOM_NAME", "S_MULTICAST"}
    BY <1>7, <1>10, <1>12
  <2>2. \A i, j \in DOMAIN News' : i < j /\ IsList(News'[j]) => IsList(News'[i])
    BY <1>7, <1>10, <1>12
  <2>3. \A i \in DOMAIN News' :
          ~IsList(News'[i]) /\ (\A j \in 1..(i - 1) : IsList(News'[j])) => News'[i].type = "S_ROOM_ENTER"
    BY <1>7, <1>10, <1>12
  <2>4. \E i \in DOMAIN News' : ~IsList(News'[i])
    BY <1>7, <1>10
  <2> QED
    BY <1>2, <1>4, <1>5, <1>6, <2>1, <2>2, <2>3, <2>4 DEF LobbyStream
<1>15. Lists'
  <2>1. Lists
    BY DEF Inv
  <2>2. \A i \in DOMAIN News' : IsList(News'[i]) => i \in DOMAIN News /\ News'[i] = News[i]
    BY <1>7, <1>10, <1>12
  <2> QED
    BY <1>5, <1>10, <2>1, <2>2 DEF Lists
<1>16. /\ UNCHANGED <<state_, display_, page, logic, lists, user>>
       /\ ThreadsType' /\ RequestsType' /\ ServerType'
  BY ServeFacts
<1> QED
  BY <1>9, <1>13, <1>14, <1>15, <1>16, OutsideKeeps

\* What is said in the room, and the user's exits.
LEMMA ServeRoom == ASSUME Inv, Serve, Here = "room" PROVE Inv'
<1>1. RoomStream /\ server.connected /\ Requests # <<>> /\ 1 \in DOMAIN Requests
  BY ServeFacts DEF Inv
<1>2. /\ Requests[1] \in {"C_MULTICAST", "C_ROOM_EXIT", "C_SERVER_EXIT"}
      /\ Requests[1] = "C_ROOM_EXIT" => Len(Requests) = 1 /\ asked = "page"
  BY <1>1 DEF RoomStream
<1>3. server.inRoom
  BY <1>1 DEF RoomStream
<1>4. ~Entering
  BY <1>1 DEF RoomStream
<1>5. /\ Here' = "room" /\ Leaving' = Leaving /\ Entering' = Entering /\ Arriving' = Arriving /\ Listing' = Listing
      /\ UNCHANGED <<lobby, roomPacket, logic, asked>>
      /\ server'.rooms = server.rooms
  BY <1>2, ServeFacts
<1>6. \A i \in DOMAIN News : ~IsList(News[i]) /\ ~IsExit(News[i])
                             /\ News[i].type \in {"S_ROOM_ENTER", "S_ROOM_NAME", "S_MULTICAST", "S_ROOM_EXIT"}
  BY <1>1, <1>3 DEF RoomStream, IsList
<1>7. LoginStream' /\ LobbyStream'
  BY <1>5 DEF LoginStream, LobbyStream
<1>8. \A i \in DOMAIN Requests' :
        /\ Requests'[i] \in {"C_MULTICAST", "C_ROOM_EXIT", "C_SERVER_EXIT"}
        /\ Requests'[i] = "C_ROOM_EXIT" => i = Len(Requests') /\ asked' = "page"
        /\ Requests'[i] = "C_SERVER_EXIT" => i = Len(Requests') /\ asked' = "end"
  <2>1. /\ server.connected /\ Requests \in Seq(ClientPackets) /\ Requests' \in Seq(ClientPackets)
        /\ Len(Requests') = Len(Requests) - 1 /\ \A i \in 1..Len(Requests') : Requests'[i] = Requests[i + 1]
    BY ServeFacts DEF Shrinks
  <2> QED
    BY <1>1, <1>5, <2>1 DEF RoomStream
<1>9. CASE Requests[1] = "C_SERVER_EXIT"
  <2>1. NewsType' /\ News' = News
    <3>1. Answer(Requests[1]) = <<>>
      BY <1>9 DEF Answer
    <3>2. recvQueue_' = recvQueue_ /\ toClient' = toClient
      BY <3>1, ServeFacts, AnswerGrows DEF NewsType
    <3> QED
      BY <3>2, ServeFacts, TypesKept DEF News
  <2>2. server'.inRoom /\ ~server'.connected
    BY <1>3, <1>9, ServeFacts
  <2>3. RoomStream'
    BY <1>6, <2>1, <2>2 DEF RoomStream, IsExit
  <2>4. Lists'
    BY <1>5, <1>6, <2>1 DEF Inv, Lists
  <2> QED
    BY <1>7, <2>1, <2>3, <2>4, OutsideKeeps, ServeFacts
<1>10. CASE Requests[1] # "C_SERVER_EXIT"
  <2> DEFINE x == IF Requests[1] = "C_ROOM_EXIT" THEN Packet("S_ROOM_EXIT") ELSE Packet("S_MULTICAST")
  <2>1. /\ x \in ServerPackets /\ ~IsList(x) /\ x.type \in {"S_MULTICAST", "S_ROOM_EXIT"}
        /\ IsExit(x) <=> Requests[1] = "C_ROOM_EXIT"
    BY DEF Packet, ServerPackets, IsList, IsExit
  <2>2. Answer(Requests[1]) = <<x>>
    BY <1>2, <1>10 DEF Answer
  <2> HIDE DEF x
  <2>3. /\ NewsType' /\ DOMAIN News = 1..Len(News) /\ Len(News) \in Nat
        /\ DOMAIN News' = 1..(Len(News) + 1) /\ Len(News') = Len(News) + 1
        /\ (\A i \in 1..Len(News) : News'[i] = News[i]) /\ News'[Len(News) + 1] = x
    BY <2>1, <2>2, AnsweredOnce
  <2>4. server'.connected /\ (server'.inRoom <=> Requests[1] # "C_ROOM_EXIT")
    BY <1>2, <1>3, <1>10, ServeFacts
  <2>5. \A i \in DOMAIN News' :
          /\ ~IsList(News'[i])
          /\ News'[i].type \in {"S_ROOM_ENTER", "S_ROOM_NAME", "S_MULTICAST", "S_ROOM_EXIT"}
          /\ IsExit(News'[i]) => i = Len(News') /\ Requests[1] = "C_ROOM_EXIT"
    BY <1>6, <2>1, <2>3
  <2>6. Requests[1] = "C_ROOM_EXIT" => asked' = "page" /\ Requests' = <<>>
    <3>1. Requests' \in Seq(ClientPackets) /\ Len(Requests') = Len(Requests) - 1
      BY ServeFacts DEF Shrinks
    <3>2. Requests[1] = "C_ROOM_EXIT" => Len(Requests) = 1 /\ asked = "page" /\ asked' = "page"
      BY <1>2, <1>5
    <3>3. Requests[1] = "C_ROOM_EXIT" => Len(Requests') = 0
      BY <3>1, <3>2, 1 - 1 = 0, Zenon
    <3> QED
      BY <3>1, <3>2, <3>3, EmptySeq
  <2>7. RoomStream'
    BY <1>4, <1>5, <1>8, <2>4, <2>5, <2>6 DEF RoomStream, IsExit
  <2>8. Lists'
    BY <1>5, <2>5 DEF Inv, Lists
  <2> QED
    BY <1>7, <2>3, <2>7, <2>8, OutsideKeeps, ServeFacts
<1> QED
  BY <1>9, <1>10

\* The server answers a request, by the page its user is on.
LEMMA ServeKeeps == ASSUME Inv, Serve PROVE Inv'
<1>1. Here \in {"login", "lobby", "room"}
  BY PageFacts DEF Here
<1> QED
  BY <1>1, ServeLogin, ServeList, ServeEnter, ServeRoom

\* News of the others in the room.
LEMMA OthersActKeeps == ASSUME Inv, OthersAct PROVE Inv'
<1>1. PICK t \in {"S_ROOM_ENTER", "S_MULTICAST"} : toClient' = Append(toClient, Packet(t))
  BY DEF OthersAct
<1>2. /\ server.connected /\ server.inRoom
      /\ UNCHANGED <<state_, display_, page, logic, workers, queues, toServer, server, lists, user>>
  BY DEF OthersAct
<1>3. UNCHANGED <<state_, display_, page, logic, shown, asked, lobby, roomPacket, sendQueue_, recvQueue_>>
  BY <1>2 DEF queues, lists, user
<1> DEFINE x == Packet(t)
<1>4. x \in ServerPackets /\ ~IsList(x) /\ ~IsExit(x) /\ x.type \in {"S_ROOM_ENTER", "S_MULTICAST"}
  BY DEF Packet, ServerPackets, IsList, IsExit
<1>5. toClient' = Append(toClient, x)
  BY <1>1
<1> HIDE DEF x
<1>6. ThreadsType /\ RequestsType /\ NewsType /\ ServerType
  BY TypeParts DEF Inv
<1>7. /\ ThreadsType' /\ RequestsType' /\ ServerType' /\ Requests' = Requests
  BY <1>2, <1>3, <1>6, TypesKept DEF Requests
<1>8. NewsType' /\ Grows(News, News', x) /\ News \in Seq(ServerPackets) /\ News' \in Seq(ServerPackets)
  <2>1. NewsType'
    BY <1>3, <1>4, <1>5, <1>6, AppendProperties DEF NewsType
  <2> QED
    BY <1>3, <1>4, <1>5, <1>6, <2>1, PushGrows, ConcatProperties DEF NewsType, News
<1>9. /\ DOMAIN News = 1..Len(News) /\ Len(News) \in Nat
      /\ DOMAIN News' = 1..(Len(News) + 1) /\ Len(News') = Len(News) + 1
      /\ (\A i \in 1..Len(News) : News'[i] = News[i]) /\ News'[Len(News) + 1] = x
  BY <1>8 DEF Grows
<1>10. /\ Here' = Here /\ Leaving' = Leaving /\ Entering' = Entering /\ Arriving' = Arriving /\ Listing' = Listing
  BY <1>3, StagesKept
<1>11. Here # "login"
  BY <1>2 DEF Inv, LoginStream
<1>12. LoginStream'
  BY <1>10, <1>11 DEF LoginStream
<1>13. LobbyStream'
  <2>1. SUFFICES ASSUME Here = "lobby" PROVE LobbyStream'
    BY <1>10 DEF LobbyStream
  <2>2. LobbyStream
    BY DEF Inv
  <2>3. \E i \in 1..Len(News) : ~IsList(News[i])
    BY <1>2, <1>9, <2>1, <2>2 DEF LobbyStream
  <2>4. \A i \in DOMAIN News' : IsList(News'[i]) \/ News'[i].type \in {"S_ROOM_ENTER", "S_ROOM_NAME", "S_MULTICAST"}
    BY <1>4, <1>9, <2>1, <2>2 DEF LobbyStream
  <2>5. \A i, j \in DOMAIN News' : i < j /\ IsList(News'[j]) => IsList(News'[i])
    BY <1>4, <1>9, <2>1, <2>2 DEF LobbyStream
  <2>6. ASSUME NEW i \in DOMAIN News', ~IsList(News'[i]), \A j \in 1..(i - 1) : IsList(News'[j])
        PROVE  News'[i].type = "S_ROOM_ENTER"
    <3>1. i \in 1..Len(News) /\ News'[i] = News[i]
      BY <1>9, <2>3, <2>6
    <3>2. \A j \in 1..(i - 1) : IsList(News[j])
      BY <1>9, <2>6, <3>1
    <3> QED
      BY <1>9, <2>1, <2>2, <2>6, <3>1, <3>2 DEF LobbyStream
  <2>7. \E i \in DOMAIN News' : ~IsList(News'[i])
    BY <1>4, <1>9
  <2> QED
    BY <1>2, <1>3, <1>7, <1>10, <2>1, <2>2, <2>4, <2>5, <2>6, <2>7 DEF LobbyStream
<1>14. RoomStream'
  <2>1. SUFFICES ASSUME Here = "room" PROVE RoomStream'
    BY <1>10 DEF RoomStream
  <2>2. RoomStream
    BY DEF Inv
  <2>3. \A i \in DOMAIN News' : News'[i].type \in {"S_ROOM_ENTER", "S_ROOM_NAME", "S_MULTICAST", "S_ROOM_EXIT"}
    BY <1>4, <1>9, <2>1, <2>2 DEF RoomStream
  <2>4. \A i \in DOMAIN News' : ~IsExit(News'[i])
    BY <1>2, <1>4, <1>9, <2>1, <2>2 DEF RoomStream
  <2> QED
    BY <1>2, <1>3, <1>7, <1>10, <2>1, <2>2, <2>3, <2>4 DEF RoomStream, IsExit
<1>15. Lists'
  <2>1. \A i \in DOMAIN News' : IsList(News'[i]) => i \in DOMAIN News /\ News'[i] = News[i]
    BY <1>4, <1>9
  <2> QED
    BY <1>2, <1>3, <1>9, <1>10, <2>1 DEF Inv, Lists
<1> QED
  BY <1>2, <1>7, <1>8, <1>12, <1>13, <1>14, <1>15, OutsideKeeps

-----------------------------------------------------------------------------
(* The theorems.                                                            *)

\* The client starts at the login page with nothing under way.
LEMMA InitHolds == ASSUME Init PROVE Inv
<1>0. server \in [connected : BOOLEAN, rooms : 0..MaxRooms, inRoom : BOOLEAN] /\ ~server.inRoom
  BY DEF Init
<1>1. Requests = <<>> /\ News = <<>> /\ DOMAIN Requests = {} /\ DOMAIN News = {}
  BY DEF Init, Requests, News
<1>2. AtRest /\ Stages
  BY DEF Init, AtRest, Stages, Stage
<1>3. Here = "login" /\ ~Arriving /\ ~Entering /\ ~Leaving /\ ~Listing
  BY <1>2, StageFacts DEF Init, PageOf
<1>4. TypeOK
  <2>1. PageType
    BY DEF Init, PageType, Places, NoLine
  <2>2. ThreadsType
    BY DEF Init, ThreadsType
  <2>3. RequestsType /\ NewsType
    BY DEF Init, RequestsType, NewsType
  <2>5. ServerType
    BY <1>0 DEF ServerType
  <2>4. ListsType
    BY ChatClientAssumption DEF Init, ListsType, NoRooms
  <2> QED
    BY <1>2, <2>1, <2>2, <2>3, <2>4, <2>5, TypeParts, StageTypes
<1>5. LoginStream
  BY <1>0, <1>1 DEF LoginStream
<1>6. LobbyStream /\ RoomStream
  BY <1>3 DEF LobbyStream, RoomStream
<1>7. Whereabouts
  BY <1>3 DEF Init, Whereabouts
<1>8. Hands
  BY DEF Init, Hands
<1>9. Lists
  BY <1>1, <1>3, ChatClientAssumption DEF Init, Lists, NoRooms
<1> QED
  BY <1>2, <1>4, <1>5, <1>6, <1>7, <1>8, <1>9 DEF Inv

\* Nothing changes.
LEMMA StutterKeeps == ASSUME Inv, UNCHANGED vars PROVE Inv'
<1>1. /\ UNCHANGED <<state_, display_, page, logic, lists, user>>
      /\ UNCHANGED <<workers, sendQueue_, recvQueue_, toServer, toClient, server>>
  BY DEF vars, queues, net
<1>2. ThreadsType' /\ RequestsType' /\ NewsType' /\ News' = News /\ Requests' = Requests
  BY <1>1, TypeParts, TypesKept DEF Inv, News, Requests
<1> QED
  BY <1>1, <1>2, QuietKeeps

\* The four theorems' common ground: each step of each thread, of the server and of the
\* other users keeps what is under way fit for the page the client is on its way to.
THEOREM InvHolds == Spec => []Inv
<1>1. Init => Inv
  BY InitHolds
<1>2. Inv /\ [Next]_vars => Inv'
  BY TypeNicknameKeeps, TypeInLobbyKeeps, TypeInRoomKeeps, PageThreadKeeps, RecvProcessKeeps,
     HandlerStepKeeps, SendThreadKeeps, RecvThreadKeeps, ServeKeeps, OthersActKeeps,
     ServerClosesKeeps, StutterKeeps
  DEF Next, LogicThread
<1> QED
  BY <1>1, <1>2, PTL DEF Spec

\* Every variable keeps to its type: among them, a handler's steps are steps
\* that RecvProcess knows.
THEOREM TypeCorrect == Spec => []TypeOK
<1>1. Inv => TypeOK
  BY DEF Inv
<1> QED
  BY <1>1, InvHolds, PTL

\* No page uses a display that the logic thread has deleted: LobbyPage and
\* ChatRoomPage keep the pointer they started with, F_ROOM_ENTER and
\* F_ROOM_EXIT replace what it points to.
THEOREM PagesAreSafe == Spec => []PageUsesItsDisplay
<1>1. Inv => PageUsesItsDisplay
  BY DEF Inv, PageUsesItsDisplay, Whereabouts, Hands
<1> QED
  BY <1>1, InvHolds, PTL

\* The cursor that GetSelection looks up in chatRoomIds_ finds an id, or is on
\* the line that asks for a new room, also while SetRoomList is between its two
\* assignments.
THEOREM CursorIsSafe == Spec => []SelectionHasId
<1>1. ASSUME Inv, page.at \in {"cursor", "select"}
      PROVE  lobby.cursor < lobby.ids \/ lobby.cursor = lobby.names
  <2>1. /\ lobby.cursor <= lobby.names /\ lobby.names <= lobby.ids
        /\ lobby \in [ids : 0..MaxRooms, names : 0..MaxRooms, cursor : 0..MaxRooms]
    BY <1>1, TypeParts DEF Inv, Lists, ListsType
  <2> QED
    BY <2>1, ChatClientAssumption
<1>2. Inv => SelectionHasId
  BY <1>1 DEF SelectionHasId
<1> QED
  BY <1>2, InvHolds, PTL

\* The casts of display_ in the handlers are right.
THEOREM CastsAreSafe == Spec => []HandlersFitDisplay
<1>1. ASSUME Inv, logic # <<>>
      PROVE  /\ Head(logic) \in {"ids", "names"} => display_ = "lobby"
             /\ Head(logic) = "print" => display_ = "room"
             /\ Head(logic) = "draw" => display_ # "deleted"
  <2>1. InF_SERVER_ENTER_OK =>
          Head(logic) \in {"delete", "lobby", "LOBBY", "push"} \/ (Head(logic) = "draw" /\ display_ = "lobby")
    BY DEF InF_SERVER_ENTER_OK, Stage
  <2>2. InF_ROOM_ENTER =>
          Head(logic) \in {"delete", "room", "CHATROOM"} \/ (Head(logic) = "draw" /\ display_ = "room")
    BY DEF InF_ROOM_ENTER, Stage
  <2>3. InPrint => Head(logic) = "print" /\ display_ = "room"
    BY DEF InPrint, Stage
  <2>4. InF_ROOM_EXIT =>
          Head(logic) \in {"delete", "lobby", "LOBBY"} \/ (Head(logic) = "draw" /\ display_ = "lobby")
    BY DEF InF_ROOM_EXIT, Stage
  <2>5. InSetRoomList => Head(logic) \in {"ids", "names"} /\ display_ = "lobby"
    BY DEF InSetRoomList, Stage
  <2>6. ~AtRest
    BY <1>1, StageFacts
  <2> QED
    BY <1>1, <2>1, <2>2, <2>3, <2>4, <2>5, <2>6 DEF Inv, Stages
<1>2. Inv => HandlersFitDisplay
  BY <1>1 DEF HandlersFitDisplay
<1> QED
  BY <1>2, InvHolds, PTL

=============================================================================

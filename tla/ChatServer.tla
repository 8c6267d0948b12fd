----------------------------- MODULE ChatServer -----------------------------
(***************************************************************************)
(* The v1.1 chat server above the sockets: the user list, the lobby, the   *)
(* rooms, the job queue of the logic thread and the package queue of the   *)
(* send thread.  One action is one whole handler (LogicProcessFunc.cpp),   *)
(* one accepted connection, one completion taken by a worker or one        *)
(* package sent, in any order: any client may send any packet at any time. *)
(*                                                                         *)
(* A worker removes a user without a lock while the logic thread is in the *)
(* middle of a handler.  That the two are nevertheless one step each here  *)
(* is right as long as they are not with the same user or in the same room *)
(* at once (RoomSteps takes them line by line and shows it); where they    *)
(* may be, the behaviour may also stop, with the fault "overlap".  What is *)
(* stated of the other behaviours is stated of executions without one.     *)
(***************************************************************************)
EXTENDS Integers, Sequences, FiniteSets

CONSTANTS
  MaxUserId,  \* bound: user ids are 1..MaxUserId (uint32_t in the code)
  MaxRoomId,  \* the largest value of a room id (65535: uint16_t in the code)
  Nicknames,  \* the nicknames users choose
  NoName,     \* the empty string: nickname_ of a user that has not entered
  Garbled,    \* what "" decodes to, a name nobody has (see WireFormat)
  Address,    \* Address[u]: where User u is allocated; orders std::set<User*>
  MaxJobs,    \* bound on Len(jobQueue)
  MaxSends    \* bound: the logic thread waits while sendQueue is this long

Users == 1..MaxUserId
RoomIds == 0..MaxRoomId
NoRoom == -1                          \* currRoom_ == nullptr

ASSUME MaxUserIdAssumption == MaxUserId \in Nat \ {0}
ASSUME MaxRoomIdAssumption == MaxRoomId \in Nat \ {0}
ASSUME NamesAssumption == {NoName, Garbled} \cap Nicknames = {} /\ NoName # Garbled
ASSUME AddressAssumption ==
  /\ Address \in [Users -> Int]
  /\ \A u, v \in Users : Address[u] = Address[v] => u = v
ASSUME BoundsAssumption == MaxJobs \in Nat \ {0} /\ MaxSends \in Nat

VARIABLES
  userList,     \* UserManager::userList_: ids of the users that exist
  userId,       \* UserManager::userId_: the next id
  nickname,     \* User::nickname_
  currRoom,     \* User::currRoom_
  userInLobby,  \* RoomManager::userInLobby_
  roomList,     \* RoomManager::roomList_: ids of the rooms that exist
  roomId,       \* RoomManager::roomId_: the next id
  users,        \* Room::users_
  recvPending,  \* users whose socket has a WSARecv outstanding
  jobQueue,     \* LogicProcess::jobQueue_
  sendQueue,    \* SendServer::packages_
  fault         \* the undefined behaviour the process ran into, or "none"

userVars == <<userList, userId, nickname, currRoom, userInLobby>>
roomVars == <<roomList, roomId, users>>
vars == <<userVars, roomVars, recvPending, jobQueue, sendQueue, fault>>

Names == Nicknames \cup {NoName}

ClientPackets ==
  [type : {"C_SERVER_ENTER"}, nickname : Nicknames]
    \cup [type : {"C_ROOM_ENTER"}, rid : RoomIds]
    \cup [type : {"C_UNICAST"}, recver : Nicknames \cup {Garbled}]
    \cup [type : {"C_SERVER_EXIT", "C_LOBBY_ROOM_INFO", "C_ROOM_CREATE",
                  "C_ROOM_EXIT", "C_MULTICAST", "C_BROADCAST"}]

ServerPackets ==
  [type : {"S_SERVER_ENTER_OK"}, pid : Users]
    \cup [type : {"S_LOBBY_ROOM_INFO"}, roomId : SUBSET RoomIds]
    \cup [type : {"S_ROOM_ENTER"}, uid : Users, name : Names]
    \cup [type : {"S_ROOM_EXIT"}, uid : Users]
    \cup [type : {"S_ROOM_NAME"}, rid : RoomIds]
    \cup [type : {"S_UNICAST_OK", "S_MULTICAST", "S_BROADCAST"}, nickname : Names]
    \cup [type : {"S_UNICAST_NO"}]

\* A room is named for its id, so S_ROOM_NAME carries the id.
Jobs == [session : Users, packet : ClientPackets]
Packages == [session : Users, packet : ServerPackets]

Faults ==
  {"none", "nullRoom", "staleMember", "staleJob", "stalePackage", "staleCompletion", "overlap"}

TypeOK ==
  /\ userList \in SUBSET Users
  /\ userId \in 1..(MaxUserId + 1)
  /\ nickname \in [Users -> Names]
  /\ currRoom \in [Users -> RoomIds \cup {NoRoom}]
  /\ userInLobby \in SUBSET Users
  /\ roomList \in SUBSET RoomIds
  /\ roomId \in RoomIds
  /\ users \in [RoomIds -> SUBSET Users]
  /\ recvPending \in SUBSET Users
  /\ jobQueue \in Seq(Jobs)
  /\ sendQueue \in Seq(Packages)
  /\ fault \in Faults

Init ==
  /\ userList = {} /\ userId = 1
  /\ nickname = [u \in Users |-> NoName]
  /\ currRoom = [u \in Users |-> NoRoom]
  /\ userInLobby = {}
  /\ roomList = {} /\ roomId = 1
  /\ users = [r \in RoomIds |-> {}]
  /\ recvPending = {}
  /\ jobQueue = <<>> /\ sendQueue = <<>>
  /\ fault = "none"

-----------------------------------------------------------------------------
(* Sending: every send is a SendPackage pushed on the one package queue.    *)

IsInLobby(u) == currRoom[u] = NoRoom

Package(u, p) == [session |-> u, packet |-> p]

\* The members of the rooms in R, room by room in id order and, in a room, in
\* the order of std::set<User*>: the order RoomCast and BroadCast visit them.
Seats(R) == {s \in R \X Users : s[2] \in users[s[1]]}

Precedes(s, t) ==
  \/ s[1] < t[1]
  \/ s[1] = t[1] /\ Address[s[2]] < Address[t[2]]

Orders(S) ==
  {o \in [1..Cardinality(S) -> S] :
     \A i, j \in 1..Cardinality(S) : i < j => Precedes(o[i], o[j])}

\* The packages a cast of p to the seats o pushes.
Cast(o, p) == [i \in DOMAIN o |-> Package(o[i][2], p)]

RoomListPackage(u, rooms) == Package(u, [type |-> "S_LOBBY_ROOM_INFO", roomId |-> rooms])

\* The process runs into undefined behaviour: what it does next is unknown,
\* so the model stops here.
Fault(kind) ==
  /\ fault' = kind
  /\ UNCHANGED <<userVars, roomVars, recvPending, jobQueue, sendQueue>>

-----------------------------------------------------------------------------
(* Users come and go.                                                       *)

\* Mutation: User::ExitRoom is not called.
ExitRoom_KeepsRoom(u, senderExclusive) ==
  LET r == currRoom[u]
  IN  /\ sendQueue' = sendQueue
      /\ users' = [users EXCEPT ![r] = @ \ {u}]
      /\ UNCHANGED <<currRoom, roomList, roomId>>

\* Mutation: the room is closed with its last member.
ExitRoom_ClosesRoom(u, senderExclusive) ==
  LET r == currRoom[u]
  IN  /\ sendQueue' = sendQueue
      /\ currRoom' = [currRoom EXCEPT ![u] = NoRoom]
      /\ users' = [users EXCEPT ![r] = @ \ {u}]
      /\ roomList' = IF users'[r] = {} THEN roomList \ {r} ELSE roomList
      /\ UNCHANGED roomId

\* Mutation: the user is taken out before the room is told.
ExitRoom_TellsRest(u, senderExclusive) ==
  LET r == currRoom[u]
  IN  /\ \E o \in Orders(Seats({r}) \ {<<r, u>>}) :
           sendQueue' = sendQueue \o Cast(o, [type |-> "S_ROOM_EXIT", uid |-> u])
      /\ currRoom' = [currRoom EXCEPT ![u] = NoRoom]
      /\ users' = [users EXCEPT ![r] = @ \ {u}]
      /\ UNCHANGED <<roomList, roomId>>

\* Room::ExitRoom: tell the room (all of it, or all but the user that leaves
\* the server), then take the user out.
ExitRoom(u, senderExclusive) ==
  LET r    == currRoom[u]
      told == IF senderExclusive THEN Seats({r}) \ {<<r, u>>} ELSE Seats({r})
  IN  /\ \E o \in Orders(told) :
           sendQueue' = sendQueue \o Cast(o, [type |-> "S_ROOM_EXIT", uid |-> u])
      /\ currRoom' = [currRoom EXCEPT ![u] = NoRoom]
      /\ users' = [users EXCEPT ![r] = @ \ {u}]
      /\ UNCHANGED <<roomList, roomId>>

\* Mutation: a user in a room does not leave the room.
RemoveUser_LobbyOnly(u) ==
  /\ userInLobby' = userInLobby \ {u}
  /\ userList' = userList \ {u}
  /\ nickname' = [nickname EXCEPT ![u] = NoName]
  /\ UNCHANGED <<userId, roomVars, currRoom, sendQueue>>

\* UserManager::RemoveUser(User*): leave the lobby or the room, close the
\* socket, leave the list; the object is deleted, its nickname with it.
RemoveUser(u) ==
  /\ \/ /\ IsInLobby(u)
        /\ userInLobby' = userInLobby \ {u}
        /\ UNCHANGED <<roomVars, currRoom, sendQueue>>
     \/ /\ ~IsInLobby(u)
        /\ ExitRoom(u, TRUE)
        /\ UNCHANGED userInLobby
  /\ userList' = userList \ {u}
  /\ nickname' = [nickname EXCEPT ![u] = NoName]
  /\ UNCHANGED userId

\* Whether the loop over the members of u's room meets a deleted user.
MeetsDeleted(R) == \E r \in R : ~(users[r] \subseteq userList)
RemovalMeetsDeleted(u) == ~IsInLobby(u) /\ MeetsDeleted({currRoom[u]})

\* The accepter: CreateUser posts the first receive, then registers the user
\* and puts it into the lobby.  A failing Initialize changes nothing.
CreateUser ==
  /\ fault = "none"
  /\ userId \in Users
  /\ userList' = userList \cup {userId}
  /\ userInLobby' = userInLobby \cup {userId}
  /\ recvPending' = recvPending \cup {userId}
  /\ userId' = userId + 1
  /\ UNCHANGED <<nickname, currRoom, roomVars, jobQueue, sendQueue, fault>>

\* A worker takes a completed receive: the packet becomes a job, then the
\* next receive is posted, or cannot be and the socket is closed.
RecvCompletion(u, packet) ==
  /\ fault = "none"
  /\ u \in recvPending \cap userList
  /\ Len(jobQueue) < MaxJobs
  /\ jobQueue' = Append(jobQueue, [session |-> u, packet |-> packet])
  /\ recvPending' \in {recvPending, recvPending \ {u}}
  /\ UNCHANGED <<userVars, roomVars, sendQueue, fault>>

\* A worker takes a failed or empty completion, of the receive or of a send: the
\* user is removed, in one step unless another thread's overlap it (Overlap).
\* Whether a send is outstanding is not recorded: any time one may be, and fail.
FailedCompletion(u) ==
  /\ fault = "none"
  /\ u \in userList
  /\ \/ /\ ~RemovalMeetsDeleted(u)
        /\ RemoveUser(u)
        /\ recvPending' \in {recvPending, recvPending \ {u}}
        /\ UNCHANGED <<jobQueue, fault>>
     \/ /\ RemovalMeetsDeleted(u)
        /\ Fault("staleMember")

\* What was outstanding when the user was removed completes: the completion key
\* points to a deleted Session.  Its id is read all the same, and is either
\* none of the list's or whatever the heap holds.
StaleCompletion(u) ==
  /\ fault = "none"
  /\ u < userId /\ u \notin userList
  /\ \/ /\ recvPending' = recvPending \ {u}
        /\ UNCHANGED <<userVars, roomVars, jobQueue, sendQueue, fault>>
     \/ Fault("staleCompletion")

-----------------------------------------------------------------------------
(* The logic thread: one handler per packet type.                           *)

sender == Head(jobQueue).session
packet == Head(jobQueue).packet

\* RunProcess pops a package and Process dispatches on its type.
Dispatch(type) ==
  /\ fault = "none"
  /\ jobQueue # <<>>
  /\ Len(sendQueue) <= MaxSends
  /\ packet.type = type
  /\ sender \in userList
  /\ jobQueue' = Tail(jobQueue)
  /\ UNCHANGED recvPending

\* Every handler but C_LOBBY_ROOM_INFO first reads the id of the session the
\* job came from; the user may have been removed since.
StaleJob ==
  /\ fault = "none"
  /\ jobQueue # <<>>
  /\ sender \notin userList
  /\ packet.type # "C_LOBBY_ROOM_INFO"
  /\ Fault("staleJob")

C_SERVER_ENTER ==
  /\ Dispatch("C_SERVER_ENTER")
  /\ nickname' = [nickname EXCEPT ![sender] = packet.nickname]
  /\ sendQueue' = sendQueue \o <<Package(sender, [type |-> "S_SERVER_ENTER_OK", pid |-> sender]),
                                 RoomListPackage(sender, roomList)>>
  /\ UNCHANGED <<userList, userId, currRoom, userInLobby, roomVars, fault>>

C_SERVER_EXIT ==
  /\ Dispatch("C_SERVER_EXIT")
  /\ ~RemovalMeetsDeleted(sender)
  /\ RemoveUser(sender)
  /\ UNCHANGED fault

\* The one handler that only copies the session pointer into a package.
C_LOBBY_ROOM_INFO ==
  /\ fault = "none"
  /\ jobQueue # <<>>
  /\ Len(sendQueue) <= MaxSends
  /\ packet.type = "C_LOBBY_ROOM_INFO"
  /\ jobQueue' = Tail(jobQueue)
  /\ sendQueue' = Append(sendQueue, RoomListPackage(sender, roomList))
  /\ UNCHANGED <<userVars, roomVars, recvPending, fault>>

\* Mutation: the id is wider than uint16_t.
C_ROOM_CREATE_Wide ==
  /\ Dispatch("C_ROOM_CREATE")
  /\ roomList' = roomList \cup {roomId}
  /\ roomId' = roomId + 1
  /\ sendQueue' = Append(sendQueue, RoomListPackage(sender, roomList'))
  /\ UNCHANGED <<userVars, users, fault>>

\* roomList_.insert({ roomId_++, newRoom }): the id wraps around, and an
\* insert under an id that is taken leaves the map alone.
C_ROOM_CREATE ==
  /\ Dispatch("C_ROOM_CREATE")
  /\ roomList' = roomList \cup {roomId}
  /\ roomId' = (roomId + 1) % (MaxRoomId + 1)
  /\ sendQueue' = Append(sendQueue, RoomListPackage(sender, roomList'))
  /\ UNCHANGED <<userVars, users, fault>>

\* Mutation: only the user that enters is told.
EnterRoom_TellsOne(u, r) ==
  /\ currRoom' = [currRoom EXCEPT ![u] = r]
  /\ users' = [users EXCEPT ![r] = @ \cup {u}]
  /\ sendQueue' = sendQueue
       \o <<Package(u, [type |-> "S_ROOM_ENTER", uid |-> u, name |-> nickname[u]]),
            Package(u, [type |-> "S_ROOM_NAME", rid |-> r])>>
  /\ UNCHANGED <<userList, userId, nickname, userInLobby, roomList, roomId>>

\* Room::EnterRoom: the user moves, the room (the user included) is told, and
\* the user is told the room's name.  Neither the lobby nor the room the user
\* may be in is left.
EnterRoom(u, r) ==
  /\ currRoom' = [currRoom EXCEPT ![u] = r]
  /\ users' = [users EXCEPT ![r] = @ \cup {u}]
  /\ \E o \in Orders(Seats({r}) \cup {<<r, u>>}) :
       sendQueue' = sendQueue
                      \o Cast(o, [type |-> "S_ROOM_ENTER", uid |-> u, name |-> nickname[u]])
                      \o <<Package(u, [type |-> "S_ROOM_NAME", rid |-> r])>>
  /\ UNCHANGED <<userList, userId, nickname, userInLobby, roomList, roomId>>

C_ROOM_ENTER ==
  /\ Dispatch("C_ROOM_ENTER")
  /\ packet.rid \in roomList
  /\ ~MeetsDeleted({packet.rid})
  /\ EnterRoom(sender, packet.rid)
  /\ UNCHANGED fault

\* Mutation: the user that leaves the room is not told.
C_ROOM_EXIT_Silent ==
  /\ Dispatch("C_ROOM_EXIT")
  /\ ~IsInLobby(sender)
  /\ ~MeetsDeleted({currRoom[sender]})
  /\ ExitRoom(sender, TRUE)
  /\ userInLobby' = userInLobby \cup {sender}
  /\ UNCHANGED <<userList, userId, nickname, fault>>

\* The user leaves the room for the lobby; the whole room is told.
C_ROOM_EXIT ==
  /\ Dispatch("C_ROOM_EXIT")
  /\ ~IsInLobby(sender)
  /\ ~MeetsDeleted({currRoom[sender]})
  /\ ExitRoom(sender, FALSE)
  /\ userInLobby' = userInLobby \cup {sender}
  /\ UNCHANGED <<userList, userId, nickname, fault>>

\* UserManager::FindByNickname: the first of the list, in id order.
FindByNickname(name) ==
  {v \in userList : /\ nickname[v] = name
                    /\ \A w \in userList : nickname[w] = name => v <= w}

\* A whisper: to an unknown name, or answered to the sender and sent on.
C_UNICAST ==
  /\ Dispatch("C_UNICAST")
  /\ \/ /\ FindByNickname(packet.recver) = {}
        /\ sendQueue' = Append(sendQueue, Package(sender, [type |-> "S_UNICAST_NO"]))
     \/ \E recver \in FindByNickname(packet.recver) :
          LET ok == [type |-> "S_UNICAST_OK", nickname |-> nickname[sender]]
          IN  sendQueue' = sendQueue \o <<Package(sender, ok), Package(recver, ok)>>
  /\ UNCHANGED <<userVars, roomVars, fault>>

CastToRooms(R, type) ==
  /\ \E o \in Orders(Seats(R)) :
       sendQueue' = sendQueue \o Cast(o, [type |-> type, nickname |-> nickname[sender]])
  /\ UNCHANGED <<userVars, roomVars, fault>>

C_MULTICAST ==
  /\ Dispatch("C_MULTICAST")
  /\ ~IsInLobby(sender)
  /\ ~MeetsDeleted({currRoom[sender]})
  /\ CastToRooms({currRoom[sender]}, "S_MULTICAST")

\* Mutation: users in the lobby are told as well.
C_BROADCAST_Everybody ==
  /\ Dispatch("C_BROADCAST")
  /\ \E o \in Orders({0} \X userList) :
       sendQueue' = sendQueue \o Cast(o, [type |-> "S_BROADCAST", nickname |-> nickname[sender]])
  /\ UNCHANGED <<userVars, roomVars, fault>>

C_BROADCAST ==
  /\ Dispatch("C_BROADCAST")
  /\ ~MeetsDeleted(roomList)
  /\ CastToRooms(roomList, "S_BROADCAST")

\* A handler calls a method of a room that is not there: an unknown id to
\* enter, or no current room to leave or to speak in.
NullRoom ==
  /\ fault = "none"
  /\ jobQueue # <<>>
  /\ sender \in userList
  /\ \/ packet.type = "C_ROOM_ENTER" /\ packet.rid \notin roomList
     \/ packet.type \in {"C_ROOM_EXIT", "C_MULTICAST"} /\ IsInLobby(sender)
  /\ Fault("nullRoom")

\* The rooms whose members a packet of user u makes the logic thread visit.
Visited(u, p) ==
  CASE p.type = "C_ROOM_ENTER" -> {p.rid} \cap roomList
    [] p.type \in {"C_ROOM_EXIT", "C_MULTICAST", "C_SERVER_EXIT"} -> {currRoom[u]} \ {NoRoom}
    [] p.type = "C_BROADCAST" -> roomList
    [] OTHER -> {}

\* A worker takes a failed completion of u while the logic thread is in the
\* handler of u's job, of one that visits the room u is in or of a whisper to u,
\* or while another worker removes a user from that room.  What RemoveUser then
\* does to the user or the room falls between two lines of the other thread.
Overlap(u) ==
  /\ fault = "none"
  /\ u \in userList
  /\ \/ jobQueue # <<>> /\ sender = u
     \/ jobQueue # <<>> /\ sender \in userList /\ currRoom[u] \in Visited(sender, packet)
     \/ jobQueue # <<>> /\ packet.type = "C_UNICAST" /\ nickname[u] = packet.recver
     \/ ~IsInLobby(u) /\ \E v \in userList \ {u} : currRoom[v] = currRoom[u]
  /\ Fault("overlap")

StaleMember ==
  /\ fault = "none"
  /\ jobQueue # <<>>
  /\ sender \in userList
  /\ MeetsDeleted(Visited(sender, packet))
  /\ Fault("staleMember")

-----------------------------------------------------------------------------
(* The send thread: SendServer::Run pops a package and hands it to its      *)
(* session, which may be deleted.                                           *)

SendPackage ==
  /\ fault = "none"
  /\ sendQueue # <<>>
  /\ IF Head(sendQueue).session \in userList
     THEN /\ sendQueue' = Tail(sendQueue)
          /\ UNCHANGED <<userVars, roomVars, recvPending, jobQueue, fault>>
     ELSE Fault("stalePackage")

LogicStep ==
  \/ C_SERVER_ENTER \/ C_SERVER_EXIT \/ C_LOBBY_ROOM_INFO
  \/ C_ROOM_CREATE \/ C_ROOM_ENTER \/ C_ROOM_EXIT
  \/ C_UNICAST \/ C_MULTICAST \/ C_BROADCAST
  \/ StaleJob \/ NullRoom \/ StaleMember

WorkerStep(u) ==
  \/ \E p \in ClientPackets : RecvCompletion(u, p)
  \/ FailedCompletion(u)
  \/ StaleCompletion(u)
  \/ Overlap(u)

Next ==
  \/ CreateUser
  \/ \E u \in Users : WorkerStep(u)
  \/ LogicStep
  \/ SendPackage

Spec == Init /\ [][Next]_vars

-----------------------------------------------------------------------------
(* What holds whatever the clients send.                                    *)

\* A user's room exists and has the user among its members, at every handler's
\* end: currRoom_ and users_ belong to different classes, and RemoveUser trusts
\* the one to find the other.
CurrentRoomHasMember ==
  \A u \in userList :
    ~IsInLobby(u) => currRoom[u] \in roomList /\ u \in users[currRoom[u]]

\* The room lists on their way to one client never name a room that is not
\* there, and a later one names every room of an earlier one: a client that
\* picks from the list it shows picks an existing room, and its cursor stays
\* inside every list that replaces it.
RoomListsGrow ==
  \A i \in DOMAIN sendQueue :
    sendQueue[i].packet.type = "S_LOBBY_ROOM_INFO" =>
      /\ sendQueue[i].packet.roomId \subseteq roomList
      /\ \A j \in 1..i :
           sendQueue[j].packet.type = "S_LOBBY_ROOM_INFO" =>
             sendQueue[j].packet.roomId \subseteq sendQueue[i].packet.roomId
=============================================================================

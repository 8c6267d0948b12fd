-------------------------- MODULE ChatSystemProofs --------------------------
(***************************************************************************)
(* First, what ChatServer guarantees whatever packets its clients send,    *)
(* for every number of users and rooms and every allocation order.         *)
(* Second, what the server may rely on without a check of its own when its *)
(* clients are v1.1 clients, whichever packets are lost because one        *)
(* receive returned several.  The argument is about one user at a time:    *)
(* what is on its way to the server, what is on its way back, the page of  *)
(* its client and the room the server has it in.  From that invariant      *)
(* follow that the system implements RoomTalk and, if no packet is lost,   *)
(* that the screens agree with the rooms because RoomTalk's do, and that   *)
(* no display is handed a packet of another page: all of it until a        *)
(* removal overlaps a handler, where a behaviour stops.                    *)
(***************************************************************************)
EXTENDS ChatSystem, FiniteSetTheorems, FunctionTheorems, SequenceTheorems, TLAPS

-----------------------------------------------------------------------------
(* The server alone.                                                        *)

\* The users on whose behalf nothing can be stored are in no room: an id that
\* has not been given out yet, or whose user has been deleted.
AbsentUsersInLobby == \A u \in Users \ userList : IsInLobby(u)

\* The inductive invariant.
IInv == TypeOK /\ CurrentRoomHasMember /\ AbsentUsersInLobby

-----------------------------------------------------------------------------
(* Lemmas about the packages a handler pushes.                              *)

\* Rooms and users are finite, so their pairs have a number.
LEMMA SeatsFinite ==
  ASSUME NEW S \in SUBSET (RoomIds \X Users)
  PROVE  Cardinality(S) \in Nat
<1>1. IsFiniteSet(RoomIds) /\ IsFiniteSet(Users)
  BY FS_Interval, MaxUserIdAssumption, MaxRoomIdAssumption DEF RoomIds, Users
<1>2. IsFiniteSet(RoomIds \X Users)
  BY <1>1, FS_Product
<1>3. QED
  BY <1>2, FS_Subset, FS_CardinalityType

\* A cast pushes packages.
LEMMA CastType ==
  ASSUME NEW S \in SUBSET (RoomIds \X Users), NEW o \in Orders(S),
         NEW p \in ServerPackets
  PROVE  Cast(o, p) \in Seq(Packages)
<1>1. Cardinality(S) \in Nat
  BY SeatsFinite
<1>2. o \in [1..Cardinality(S) -> S]
  BY DEF Orders
<1>3. ASSUME NEW i \in 1..Cardinality(S)
      PROVE  Package(o[i][2], p) \in Packages
  <2>1. o[i] \in RoomIds \X Users
    BY <1>2, <1>3
  <2>2. o[i][2] \in Users
    BY <2>1
  <2>3. QED
    BY <2>2 DEF Package, Packages
<1>4. Cast(o, p) \in [1..Cardinality(S) -> Packages]
  BY <1>2, <1>3 DEF Cast
<1>5. QED
  BY <1>1, <1>4, IsASeq

\* The seats of existing rooms are pairs of a room and a user.
LEMMA SeatsType ==
  ASSUME NEW R \in SUBSET RoomIds
  PROVE  Seats(R) \in SUBSET (RoomIds \X Users)
BY DEF Seats

\* The job at the head of the queue.
LEMMA JobType ==
  ASSUME TypeOK, jobQueue # <<>>
  PROVE  /\ sender \in Users
         /\ packet \in ClientPackets
         /\ Tail(jobQueue) \in Seq(Jobs)
<1>1. jobQueue \in Seq(Jobs)
  BY DEF TypeOK
<1>2. Head(jobQueue) \in Jobs /\ Tail(jobQueue) \in Seq(Jobs)
  BY <1>1, HeadTailProperties
<1>3. QED
  BY <1>2 DEF sender, packet, Jobs

-----------------------------------------------------------------------------
(* The invariant holds initially.                                           *)

LEMMA InitInv == Init => IInv
<1> SUFFICES ASSUME Init PROVE IInv
  OBVIOUS
<1>1. TypeOK
  <2>1. 1 \in 1..(MaxUserId + 1) /\ 1 \in RoomIds
    BY MaxUserIdAssumption, MaxRoomIdAssumption DEF RoomIds
  <2>2. jobQueue \in Seq(Jobs) /\ sendQueue \in Seq(Packages)
    BY EmptySeq DEF Init
  <2>3. QED
    BY <2>1, <2>2 DEF Init, TypeOK, Names, Faults
<1>2. CurrentRoomHasMember /\ AbsentUsersInLobby
  BY DEF Init, CurrentRoomHasMember, AbsentUsersInLobby, IsInLobby
<1>3. QED
  BY <1>1, <1>2 DEF IInv

-----------------------------------------------------------------------------
(* Leaving and entering rooms.                                              *)

\* ExitRoom: the types, and the shape of what it changes.
LEMMA ExitRoomType ==
  ASSUME TypeOK, NEW u \in Users, ~IsInLobby(u),
         NEW exclusive \in BOOLEAN, ExitRoom(u, exclusive)
  PROVE  /\ sendQueue' \in Seq(Packages)
         /\ currRoom' \in [Users -> RoomIds \cup {NoRoom}]
         /\ users' \in [RoomIds -> SUBSET Users]
         /\ roomList' = roomList /\ roomId' = roomId
<1>1. currRoom[u] \in RoomIds
  BY DEF TypeOK, IsInLobby
<1> DEFINE r == currRoom[u]
           told == IF exclusive THEN Seats({r}) \ {<<r, u>>} ELSE Seats({r})
           notice == [type |-> "S_ROOM_EXIT", uid |-> u]
<1>2. told \in SUBSET (RoomIds \X Users)
  BY <1>1, SeatsType
<1>3. notice \in ServerPackets
  BY DEF ServerPackets
<1>4. PICK o \in Orders(told) : sendQueue' = sendQueue \o Cast(o, notice)
  BY DEF ExitRoom
<1>5. Cast(o, notice) \in Seq(Packages)
  <2> HIDE DEF told, notice
  <2> QED BY <1>2, <1>3, CastType
<1>6. sendQueue' \in Seq(Packages)
  BY <1>4, <1>5, ConcatProperties DEF TypeOK
<1>7. QED
  BY <1>6 DEF ExitRoom, TypeOK

\* Removing a user keeps the types.
LEMMA RemoveUserType ==
  ASSUME TypeOK, NEW u \in userList, RemoveUser(u)
  PROVE  /\ userList' \in SUBSET Users /\ userId' = userId
         /\ nickname' \in [Users -> Names]
         /\ currRoom' \in [Users -> RoomIds \cup {NoRoom}]
         /\ userInLobby' \in SUBSET Users
         /\ roomList' = roomList /\ roomId' = roomId
         /\ users' \in [RoomIds -> SUBSET Users]
         /\ sendQueue' \in Seq(Packages)
<1>1. u \in Users
  BY DEF TypeOK
<1>2. CASE IsInLobby(u)
  BY <1>2 DEF RemoveUser, TypeOK, Names, roomVars
<1>3. CASE ~IsInLobby(u)
  <2>1. ExitRoom(u, TRUE)
    BY <1>3 DEF RemoveUser
  <2>2. QED
    BY <1>1, <1>3, <2>1, ExitRoomType DEF RemoveUser, TypeOK, Names
<1>4. QED
  BY <1>2, <1>3

\* Removing a user keeps every other user in its room.
LEMMA RemoveUserRooms ==
  ASSUME IInv, NEW u \in userList, RemoveUser(u)
  PROVE  CurrentRoomHasMember' /\ AbsentUsersInLobby'
<1> USE DEF IInv
<1>1. u \in Users /\ userList' = userList \ {u}
  BY DEF TypeOK, RemoveUser
<1>2. CASE IsInLobby(u)
  BY <1>1, <1>2 DEF RemoveUser, CurrentRoomHasMember, AbsentUsersInLobby, IsInLobby, roomVars
<1>3. CASE ~IsInLobby(u)
  <2>1. ExitRoom(u, TRUE)
    BY <1>3 DEF RemoveUser
  <2>2. /\ currRoom' = [currRoom EXCEPT ![u] = NoRoom]
        /\ users' = [users EXCEPT ![currRoom[u]] = @ \ {u}]
        /\ roomList' = roomList
    BY <2>1 DEF ExitRoom
  <2>3. CurrentRoomHasMember'
    BY <1>1, <2>2 DEF CurrentRoomHasMember, IsInLobby, TypeOK
  <2>4. AbsentUsersInLobby'
    BY <1>1, <2>2 DEF AbsentUsersInLobby, IsInLobby, TypeOK
  <2>5. QED
    BY <2>3, <2>4
<1>4. QED
  BY <1>2, <1>3

\* EnterRoom: the types, and the shape of what it changes.
LEMMA EnterRoomType ==
  ASSUME TypeOK, NEW u \in Users, NEW r \in RoomIds, EnterRoom(u, r)
  PROVE  /\ sendQueue' \in Seq(Packages)
         /\ currRoom' \in [Users -> RoomIds \cup {NoRoom}]
         /\ users' \in [RoomIds -> SUBSET Users]
<1> DEFINE seats == Seats({r}) \cup {<<r, u>>}
           enter == [type |-> "S_ROOM_ENTER", uid |-> u, name |-> nickname[u]]
           named == <<Package(u, [type |-> "S_ROOM_NAME", rid |-> r])>>
<1>1. seats \in SUBSET (RoomIds \X Users)
  BY SeatsType
<1>2. enter \in ServerPackets /\ named \in Seq(Packages)
  BY DEF TypeOK, ServerPackets, Package, Packages
<1>3. PICK o \in Orders(seats) : sendQueue' = sendQueue \o Cast(o, enter) \o named
  BY DEF EnterRoom
<1>4. Cast(o, enter) \in Seq(Packages)
  <2> HIDE DEF seats, enter
  <2> QED BY <1>1, <1>2, CastType
<1>5. sendQueue' \in Seq(Packages)
  <2> HIDE DEF enter, named
  <2>1. sendQueue \o Cast(o, enter) \in Seq(Packages)
    BY <1>4, ConcatProperties DEF TypeOK
  <2>2. QED
    BY <1>2, <1>3, <2>1, ConcatProperties
<1>6. QED
  BY <1>5 DEF EnterRoom, TypeOK

-----------------------------------------------------------------------------
(* Every step keeps the types.                                              *)

LEMMA TypeStep == TypeOK /\ [Next]_vars => TypeOK'
<1> SUFFICES ASSUME TypeOK, [Next]_vars PROVE TypeOK'
  OBVIOUS
<1>0. ASSUME NEW kind \in Faults, Fault(kind) PROVE TypeOK'
  BY <1>0 DEF Fault, TypeOK, userVars, roomVars
<1>1. CASE CreateUser
  BY <1>1, MaxUserIdAssumption DEF CreateUser, TypeOK, roomVars, Users
<1>2. ASSUME NEW u \in Users, NEW p \in ClientPackets, RecvCompletion(u, p)
      PROVE  TypeOK'
  <2>1. [session |-> u, packet |-> p] \in Jobs
    BY DEF Jobs
  <2>2. jobQueue' \in Seq(Jobs)
    BY <1>2, <2>1, AppendProperties DEF RecvCompletion, TypeOK
  <2>3. QED
    BY <1>2, <2>2 DEF RecvCompletion, TypeOK, userVars, roomVars
<1>3. ASSUME NEW u \in Users, FailedCompletion(u) PROVE TypeOK'
  <2>1. CASE RemovalMeetsDeleted(u)
    BY <1>0, <1>3, <2>1 DEF FailedCompletion, Faults
  <2>2. CASE ~RemovalMeetsDeleted(u)
    <3>1. RemoveUser(u) /\ u \in userList
      BY <1>3, <2>2 DEF FailedCompletion
    <3>2. QED
      BY <1>3, <2>2, <3>1, RemoveUserType DEF FailedCompletion, TypeOK
  <2>3. QED
    BY <2>1, <2>2
<1>4. ASSUME NEW u \in Users, StaleCompletion(u) PROVE TypeOK'
  <2>1. CASE Fault("staleCompletion")
    BY <1>0, <2>1 DEF Faults
  <2>2. CASE ~Fault("staleCompletion")
    BY <1>4, <2>2 DEF StaleCompletion, TypeOK, userVars, roomVars
  <2>3. QED
    BY <2>1, <2>2
<1>40. ASSUME NEW u \in Users, Overlap(u) PROVE TypeOK'
  BY <1>0, <1>40 DEF Overlap, Faults
<1>5. ASSUME NEW type, Dispatch(type)
      PROVE  /\ sender \in userList /\ sender \in Users
             /\ packet \in ClientPackets /\ packet.type = type
             /\ jobQueue' \in Seq(Jobs)
             /\ recvPending' \in SUBSET Users
  BY <1>5, JobType DEF Dispatch, TypeOK
<1>6. CASE C_SERVER_ENTER
  <2>1. /\ sender \in Users /\ packet \in ClientPackets
        /\ packet.type = "C_SERVER_ENTER"
        /\ jobQueue' \in Seq(Jobs) /\ recvPending' \in SUBSET Users
    BY <1>5, <1>6 DEF C_SERVER_ENTER
  <2>2. packet.nickname \in Nicknames
    BY <2>1 DEF ClientPackets
  <2> DEFINE reply == <<Package(sender, [type |-> "S_SERVER_ENTER_OK", pid |-> sender]),
                        RoomListPackage(sender, roomList)>>
  <2>3. reply \in Seq(Packages)
    BY <2>1 DEF Package, RoomListPackage, Packages, ServerPackets, TypeOK
  <2>4. sendQueue' \in Seq(Packages)
    BY <1>6, <2>3, ConcatProperties DEF C_SERVER_ENTER, TypeOK
  <2>5. QED
    BY <1>6, <2>1, <2>2, <2>4 DEF C_SERVER_ENTER, TypeOK, Names, roomVars
<1>7. CASE C_SERVER_EXIT
  <2>1. /\ sender \in userList /\ RemoveUser(sender)
        /\ jobQueue' \in Seq(Jobs) /\ recvPending' \in SUBSET Users
    BY <1>5, <1>7 DEF C_SERVER_EXIT
  <2>2. QED
    BY <1>7, <2>1, RemoveUserType DEF C_SERVER_EXIT, TypeOK
<1>8. ASSUME NEW u \in Users, NEW rooms \in SUBSET RoomIds,
             sendQueue' = Append(sendQueue, RoomListPackage(u, rooms))
      PROVE  sendQueue' \in Seq(Packages)
  <2>1. RoomListPackage(u, rooms) \in Packages
    BY DEF RoomListPackage, Package, Packages, ServerPackets
  <2>2. QED
    BY <1>8, <2>1, AppendProperties DEF TypeOK
<1>9. CASE C_LOBBY_ROOM_INFO
  <2>1. sender \in Users /\ jobQueue' \in Seq(Jobs)
    BY <1>9, JobType DEF C_LOBBY_ROOM_INFO
  <2>2. sendQueue' \in Seq(Packages)
    BY <1>8, <1>9, <2>1 DEF C_LOBBY_ROOM_INFO, TypeOK
  <2>3. QED
    BY <1>9, <2>1, <2>2 DEF C_LOBBY_ROOM_INFO, TypeOK, userVars, roomVars
<1>10. CASE C_ROOM_CREATE
  <2>1. /\ sender \in Users /\ jobQueue' \in Seq(Jobs)
        /\ recvPending' \in SUBSET Users
    BY <1>5, <1>10 DEF C_ROOM_CREATE
  <2>2. roomList' \in SUBSET RoomIds /\ roomId' \in RoomIds
    BY <1>10, MaxRoomIdAssumption DEF C_ROOM_CREATE, TypeOK, RoomIds
  <2>3. sendQueue' \in Seq(Packages)
    BY <1>8, <1>10, <2>1, <2>2 DEF C_ROOM_CREATE
  <2>4. QED
    BY <1>10, <2>1, <2>2, <2>3 DEF C_ROOM_CREATE, TypeOK, userVars
<1>11. CASE C_ROOM_ENTER
  <2>1. /\ sender \in Users /\ packet.rid \in RoomIds
        /\ jobQueue' \in Seq(Jobs) /\ recvPending' \in SUBSET Users
    BY <1>5, <1>11 DEF C_ROOM_ENTER, TypeOK
  <2>2. EnterRoom(sender, packet.rid)
    BY <1>11 DEF C_ROOM_ENTER
  <2>3. QED
    BY <1>11, <2>1, <2>2, EnterRoomType DEF C_ROOM_ENTER, EnterRoom, TypeOK
<1>12. CASE C_ROOM_EXIT
  <2>1. /\ sender \in Users /\ ~IsInLobby(sender) /\ ExitRoom(sender, FALSE)
        /\ jobQueue' \in Seq(Jobs) /\ recvPending' \in SUBSET Users
    BY <1>5, <1>12 DEF C_ROOM_EXIT
  <2>2. QED
    BY <1>12, <2>1, ExitRoomType DEF C_ROOM_EXIT, TypeOK
<1>13. CASE C_UNICAST
  <2>1. /\ sender \in Users /\ jobQueue' \in Seq(Jobs)
        /\ recvPending' \in SUBSET Users
    BY <1>5, <1>13 DEF C_UNICAST
  <2>2. sendQueue' \in Seq(Packages)
    <3>1. CASE sendQueue' = Append(sendQueue, Package(sender, [type |-> "S_UNICAST_NO"]))
      <4>1. Package(sender, [type |-> "S_UNICAST_NO"]) \in Packages
        BY <2>1 DEF Package, Packages, ServerPackets
      <4>2. QED
        BY <3>1, <4>1, AppendProperties DEF TypeOK
    <3>2. ASSUME NEW recver \in FindByNickname(packet.recver),
                 sendQueue' = sendQueue \o
                   <<Package(sender, [type |-> "S_UNICAST_OK", nickname |-> nickname[sender]]),
                     Package(recver, [type |-> "S_UNICAST_OK", nickname |-> nickname[sender]])>>
          PROVE  sendQueue' \in Seq(Packages)
      <4>1. recver \in Users /\ nickname[sender] \in Names
        BY <2>1 DEF FindByNickname, TypeOK
      <4> DEFINE ok == [type |-> "S_UNICAST_OK", nickname |-> nickname[sender]]
      <4>2. ok \in ServerPackets
        BY <4>1 DEF ServerPackets
      <4>3. <<Package(sender, ok), Package(recver, ok)>> \in Seq(Packages)
        BY <2>1, <4>1, <4>2 DEF Package, Packages
      <4>4. QED
        BY <3>2, <4>3, ConcatProperties DEF TypeOK
    <3>3. QED
      BY <1>13, <3>1, <3>2 DEF C_UNICAST
  <2>3. QED
    BY <1>13, <2>1, <2>2 DEF C_UNICAST, TypeOK, userVars, roomVars
<1>14. ASSUME NEW R \in SUBSET RoomIds, sender \in Users,
              NEW type \in {"S_MULTICAST", "S_BROADCAST"}, CastToRooms(R, type)
       PROVE  sendQueue' \in Seq(Packages)
  <2> DEFINE chat == [type |-> type, nickname |-> nickname[sender]]
             seats == Seats(R)
  <2>1. chat \in ServerPackets /\ seats \in SUBSET (RoomIds \X Users)
    BY <1>14, SeatsType DEF ServerPackets, TypeOK
  <2>2. PICK o \in Orders(seats) : sendQueue' = sendQueue \o Cast(o, chat)
    BY <1>14 DEF CastToRooms
  <2>3. Cast(o, chat) \in Seq(Packages)
    <3> HIDE DEF chat, seats
    <3> QED BY <2>1, CastType
  <2>4. QED
    BY <2>2, <2>3, ConcatProperties DEF TypeOK
<1>15. CASE C_MULTICAST
  <2>1. /\ sender \in Users /\ jobQueue' \in Seq(Jobs)
        /\ recvPending' \in SUBSET Users
    BY <1>5, <1>15 DEF C_MULTICAST
  <2>2. {currRoom[sender]} \in SUBSET RoomIds
    BY <1>15, <2>1 DEF C_MULTICAST, IsInLobby, TypeOK
  <2>3. sendQueue' \in Seq(Packages)
    BY <1>14, <1>15, <2>1, <2>2 DEF C_MULTICAST
  <2>4. QED
    BY <1>15, <2>1, <2>3 DEF C_MULTICAST, CastToRooms, TypeOK, userVars, roomVars
<1>16. CASE C_BROADCAST
  <2>1. /\ sender \in Users /\ jobQueue' \in Seq(Jobs)
        /\ recvPending' \in SUBSET Users
    BY <1>5, <1>16 DEF C_BROADCAST
  <2>2. sendQueue' \in Seq(Packages)
    BY <1>14, <1>16, <2>1 DEF C_BROADCAST, TypeOK
  <2>3. QED
    BY <1>16, <2>1, <2>2 DEF C_BROADCAST, CastToRooms, TypeOK, userVars, roomVars
<1>17. CASE StaleJob \/ NullRoom \/ StaleMember
  BY <1>0, <1>17 DEF StaleJob, NullRoom, StaleMember, Faults
<1>18. CASE SendPackage
  <2>1. CASE Head(sendQueue).session \in userList
    <3>1. sendQueue' \in Seq(Packages)
      BY <1>18, <2>1, HeadTailProperties DEF SendPackage, TypeOK
    <3>2. QED
      BY <1>18, <2>1, <3>1 DEF SendPackage, TypeOK, userVars, roomVars
  <2>2. CASE Head(sendQueue).session \notin userList
    BY <1>0, <1>18, <2>2 DEF SendPackage, Faults
  <2>3. QED
    BY <2>1, <2>2
<1>19. CASE UNCHANGED vars
  BY <1>19 DEF TypeOK, vars, userVars, roomVars
<1>20. QED
  BY <1>1, <1>2, <1>3, <1>4, <1>6, <1>7, <1>9, <1>10, <1>11, <1>12, <1>13,
     <1>15, <1>16, <1>17, <1>18, <1>19, <1>40 DEF Next, WorkerStep, LogicStep

-----------------------------------------------------------------------------
(* Every step keeps users and rooms in agreement.                           *)

LEMMA RoomsStep == IInv /\ [Next]_vars => CurrentRoomHasMember' /\ AbsentUsersInLobby'
<1> SUFFICES ASSUME IInv, [Next]_vars
             PROVE  CurrentRoomHasMember' /\ AbsentUsersInLobby'
  OBVIOUS
<1> USE DEF IInv
\* Most steps move nobody: the list, the current rooms and the members stay,
\* and rooms are only added.
<1>0. ASSUME UNCHANGED <<userList, currRoom, users>>, roomList \subseteq roomList'
      PROVE  CurrentRoomHasMember' /\ AbsentUsersInLobby'
  BY <1>0 DEF CurrentRoomHasMember, AbsentUsersInLobby, IsInLobby
<1>1. CASE CreateUser
  <2>1. /\ userId \in Users /\ userList' = userList \cup {userId}
        /\ UNCHANGED <<currRoom, users, roomList>>
    BY <1>1 DEF CreateUser, roomVars
  <2>2. QED
    BY <2>1 DEF CurrentRoomHasMember, AbsentUsersInLobby, IsInLobby, TypeOK
<1>2. ASSUME NEW u \in Users, NEW p \in ClientPackets, RecvCompletion(u, p)
      PROVE  CurrentRoomHasMember' /\ AbsentUsersInLobby'
  BY <1>0, <1>2 DEF RecvCompletion, userVars, roomVars
<1>3. ASSUME NEW u \in Users, FailedCompletion(u)
      PROVE  CurrentRoomHasMember' /\ AbsentUsersInLobby'
  <2>1. CASE RemovalMeetsDeleted(u)
    BY <1>0, <1>3, <2>1 DEF FailedCompletion, Fault, userVars, roomVars
  <2>2. CASE ~RemovalMeetsDeleted(u)
    <3>1. RemoveUser(u) /\ u \in userList
      BY <1>3, <2>2 DEF FailedCompletion
    <3>2. QED
      BY <3>1, RemoveUserRooms
  <2>3. QED
    BY <2>1, <2>2
<1>4. ASSUME NEW u \in Users, StaleCompletion(u)
      PROVE  CurrentRoomHasMember' /\ AbsentUsersInLobby'
  BY <1>0, <1>4 DEF StaleCompletion, Fault, userVars, roomVars
<1>40. ASSUME NEW u \in Users, Overlap(u)
       PROVE  CurrentRoomHasMember' /\ AbsentUsersInLobby'
  BY <1>0, <1>40 DEF Overlap, Fault, userVars, roomVars
<1>5. CASE C_SERVER_EXIT
  BY <1>5, RemoveUserRooms DEF C_SERVER_EXIT, Dispatch
<1>6. CASE C_ROOM_CREATE
  BY <1>0, <1>6 DEF C_ROOM_CREATE, userVars
<1>7. CASE C_ROOM_ENTER
  <2>1. /\ sender \in userList /\ sender \in Users
        /\ packet.rid \in roomList /\ packet.rid \in RoomIds
        /\ UNCHANGED <<userList, roomList>>
    BY <1>7 DEF C_ROOM_ENTER, EnterRoom, Dispatch, TypeOK
  <2>2. /\ currRoom' = [currRoom EXCEPT ![sender] = packet.rid]
        /\ users' = [users EXCEPT ![packet.rid] = @ \cup {sender}]
    BY <1>7 DEF C_ROOM_ENTER, EnterRoom
  <2>3. CurrentRoomHasMember'
    BY <2>1, <2>2 DEF CurrentRoomHasMember, IsInLobby, TypeOK
  <2>4. AbsentUsersInLobby'
    BY <2>1, <2>2 DEF AbsentUsersInLobby, IsInLobby, TypeOK
  <2>5. QED
    BY <2>3, <2>4
<1>8. CASE C_ROOM_EXIT
  <2>1. /\ sender \in userList /\ sender \in Users /\ UNCHANGED <<userList, roomList>>
    BY <1>8 DEF C_ROOM_EXIT, ExitRoom, Dispatch, TypeOK
  <2>2. /\ currRoom' = [currRoom EXCEPT ![sender] = NoRoom]
        /\ users' = [users EXCEPT ![currRoom[sender]] = @ \ {sender}]
    BY <1>8 DEF C_ROOM_EXIT, ExitRoom
  <2>3. CurrentRoomHasMember'
    BY <2>1, <2>2 DEF CurrentRoomHasMember, IsInLobby, TypeOK
  <2>4. AbsentUsersInLobby'
    BY <2>1, <2>2 DEF AbsentUsersInLobby, IsInLobby, TypeOK
  <2>5. QED
    BY <2>3, <2>4
<1>9. CASE C_SERVER_ENTER \/ C_LOBBY_ROOM_INFO
  BY <1>0, <1>9 DEF C_SERVER_ENTER, C_LOBBY_ROOM_INFO, userVars, roomVars
<1>10. CASE C_UNICAST
  BY <1>0, <1>10 DEF C_UNICAST, userVars, roomVars
<1>11. CASE C_MULTICAST \/ C_BROADCAST
  BY <1>0, <1>11 DEF C_MULTICAST, C_BROADCAST, CastToRooms, userVars, roomVars
<1>12. CASE StaleJob \/ NullRoom \/ StaleMember
  BY <1>0, <1>12 DEF StaleJob, NullRoom, StaleMember, Fault, userVars, roomVars
<1>13. CASE SendPackage
  BY <1>0, <1>13 DEF SendPackage, Fault, userVars, roomVars
<1>14. CASE UNCHANGED vars
  BY <1>0, <1>14 DEF vars, userVars, roomVars
<1>15. QED
  BY <1>1, <1>2, <1>3, <1>4, <1>40, <1>5, <1>6, <1>7, <1>8, <1>9, <1>10, <1>11, <1>12,
     <1>13, <1>14 DEF Next, WorkerStep, LogicStep

LEMMA InvStep == IInv /\ [Next]_vars => IInv'
BY TypeStep, RoomsStep DEF IInv

\* Every variable keeps its type in every reachable state, whatever the
\* clients send.
THEOREM TypeCorrect == Spec => []TypeOK
<1>1. IInv => TypeOK
  BY DEF IInv
<1>2. QED
  BY InitInv, InvStep, <1>1, PTL DEF Spec

\* A user's current room exists and counts the user among its members, whatever
\* the clients send, in whatever order handlers, removals and sends happen.
THEOREM RoomsAgree == Spec => []CurrentRoomHasMember
<1>1. IInv => CurrentRoomHasMember
  BY DEF IInv
<1>2. QED
  BY InitInv, InvStep, <1>1, PTL DEF Spec

-----------------------------------------------------------------------------
(* The room lists under way.                                                *)

IsRoomList(p) == p.packet.type = "S_LOBBY_ROOM_INFO"

\* A handler pushes at the back, rooms are only added, and a list it pushes
\* holds all rooms: the lists still grow along the queue.
LEMMA PushKeepsLists ==
  ASSUME TypeOK, RoomListsGrow, roomList \subseteq roomList',
         NEW pushed \in Seq(Packages), sendQueue' = sendQueue \o pushed,
         \A i \in DOMAIN pushed : IsRoomList(pushed[i]) => pushed[i].packet.roomId = roomList'
  PROVE  RoomListsGrow'
<1> DEFINE n == Len(sendQueue)
           m == Len(pushed)
<1>1. n \in Nat /\ m \in Nat /\ DOMAIN sendQueue = 1..n /\ DOMAIN pushed = 1..m
  BY LenProperties DEF TypeOK
<1>2. /\ DOMAIN sendQueue' = 1..(n + m)
      /\ \A i \in 1..n : sendQueue'[i] = sendQueue[i]
      /\ \A i \in (n + 1)..(n + m) : sendQueue'[i] = pushed[i - n]
  BY <1>1, ConcatProperties, LenProperties DEF TypeOK
<1> HIDE DEF n, m
<1> DEFINE rooms(q, i) == q[i].packet.roomId
\* The two halves of RoomListsGrow, for the lists already in the queue.
<1>3. \A i \in 1..n : IsRoomList(sendQueue[i]) => rooms(sendQueue, i) \subseteq roomList
  BY <1>1 DEF RoomListsGrow, IsRoomList
<1>4. \A i \in 1..n : \A j \in 1..i :
        IsRoomList(sendQueue[i]) /\ IsRoomList(sendQueue[j])
          => rooms(sendQueue, j) \subseteq rooms(sendQueue, i)
  BY <1>1 DEF RoomListsGrow, IsRoomList
<1> DEFINE q == sendQueue'
<1>5. /\ \A i \in 1..n : q[i] = sendQueue[i]
      /\ \A i \in (n + 1)..(n + m) : q[i] = pushed[i - n] /\ i - n \in 1..m
  BY <1>1, <1>2
<1> HIDE DEF rooms, q
<1>6. ASSUME NEW i \in 1..(n + m), IsRoomList(q[i])
      PROVE  /\ rooms(q, i) \subseteq roomList'
             /\ i > n => rooms(q, i) = roomList'
  <2>1. CASE i \in 1..n
    <3>1. IsRoomList(sendQueue[i]) /\ rooms(q, i) = rooms(sendQueue, i)
      BY <1>5, <1>6, <2>1 DEF rooms
    <3>2. QED
      BY <1>1, <1>3, <2>1, <3>1
  <2>2. CASE i \in (n + 1)..(n + m)
    <3>1. q[i] = pushed[i - n] /\ i - n \in DOMAIN pushed
      BY <1>1, <1>5, <2>2
    <3>2. QED
      BY <1>6, <3>1 DEF rooms
  <2>3. QED
    BY <1>1, <2>1, <2>2
<1>7. ASSUME NEW i \in 1..(n + m), NEW j \in 1..i, IsRoomList(q[i]), IsRoomList(q[j])
      PROVE  rooms(q, j) \subseteq rooms(q, i)
  <2>1. CASE i \in 1..n
    <3>1. j \in 1..n
      BY <1>1, <2>1
    <3>2. /\ IsRoomList(sendQueue[i]) /\ rooms(q, i) = rooms(sendQueue, i)
          /\ IsRoomList(sendQueue[j]) /\ rooms(q, j) = rooms(sendQueue, j)
      BY <1>5, <1>7, <2>1, <3>1 DEF rooms
    <3>3. QED
      BY <1>4, <2>1, <3>2
  <2>2. CASE i > n
    <3>1. j \in 1..(n + m)
      BY <1>1
    <3>2. QED
      BY <1>6, <1>7, <2>2, <3>1
  <2>3. QED
    BY <1>1, <2>1, <2>2
<1>8. DOMAIN q = 1..(n + m)
  BY <1>2 DEF q
<1>9. /\ \A i \in DOMAIN q : IsRoomList(q[i]) => rooms(q, i) \subseteq roomList'
      /\ \A i \in DOMAIN q : \A j \in 1..i :
           IsRoomList(q[i]) /\ IsRoomList(q[j]) => rooms(q, j) \subseteq rooms(q, i)
  BY <1>6, <1>7, <1>8
<1>10. QED
  BY <1>9 DEF RoomListsGrow, IsRoomList, rooms, q

\* A cast of any other packet pushes no list.
LEMMA CastPushesNoList ==
  ASSUME NEW S \in SUBSET (RoomIds \X Users), NEW o \in Orders(S),
         NEW p \in ServerPackets, p.type # "S_LOBBY_ROOM_INFO",
         NEW i \in DOMAIN Cast(o, p)
  PROVE  ~IsRoomList(Cast(o, p)[i])
BY DEF Cast, Package, IsRoomList

\* A cast keeps the order of the lists.
LEMMA CastKeepsLists ==
  ASSUME TypeOK, RoomListsGrow, roomList' = roomList,
         NEW S \in SUBSET (RoomIds \X Users), NEW o \in Orders(S),
         NEW p \in ServerPackets, p.type # "S_LOBBY_ROOM_INFO",
         sendQueue' = sendQueue \o Cast(o, p)
  PROVE  RoomListsGrow'
<1>1. Cast(o, p) \in Seq(Packages)
  BY CastType
<1>2. \A i \in DOMAIN Cast(o, p) : ~IsRoomList(Cast(o, p)[i])
  BY CastPushesNoList
<1>3. QED
  BY <1>1, <1>2, PushKeepsLists

\* So does leaving a room, and with it the removal of a user.
LEMMA ExitRoomKeepsLists ==
  ASSUME TypeOK, RoomListsGrow, NEW u \in Users, ~IsInLobby(u),
         NEW exclusive \in BOOLEAN, ExitRoom(u, exclusive)
  PROVE  RoomListsGrow'
<1> DEFINE r == currRoom[u]
           told == IF exclusive THEN Seats({r}) \ {<<r, u>>} ELSE Seats({r})
           notice == [type |-> "S_ROOM_EXIT", uid |-> u]
<1>1. currRoom[u] \in RoomIds
  BY DEF TypeOK, IsInLobby
<1>2. told \in SUBSET (RoomIds \X Users)
  BY <1>1, SeatsType
<1>3. notice \in ServerPackets /\ notice.type # "S_LOBBY_ROOM_INFO"
  BY DEF ServerPackets
<1>4. PICK o \in Orders(told) : sendQueue' = sendQueue \o Cast(o, notice)
  BY DEF ExitRoom
<1>5. roomList' = roomList
  BY DEF ExitRoom
<1>6. QED
  <2> HIDE DEF told, notice
  <2> QED BY <1>2, <1>3, <1>4, <1>5, CastKeepsLists

LEMMA RemoveUserKeepsLists ==
  ASSUME TypeOK, RoomListsGrow, NEW u \in userList, RemoveUser(u)
  PROVE  RoomListsGrow'
<1>1. CASE IsInLobby(u)
  BY <1>1 DEF RemoveUser, RoomListsGrow, roomVars
<1>2. CASE ~IsInLobby(u)
  BY <1>2, ExitRoomKeepsLists DEF RemoveUser, TypeOK
<1>3. QED
  BY <1>1, <1>2

\* Entering pushes a cast and the room's name.
LEMMA EnterRoomKeepsLists ==
  ASSUME TypeOK, RoomListsGrow, NEW u \in Users, NEW r \in RoomIds, EnterRoom(u, r)
  PROVE  RoomListsGrow'
<1> DEFINE seats == Seats({r}) \cup {<<r, u>>}
           enter == [type |-> "S_ROOM_ENTER", uid |-> u, name |-> nickname[u]]
           named == <<Package(u, [type |-> "S_ROOM_NAME", rid |-> r])>>
<1>1. seats \in SUBSET (RoomIds \X Users)
  BY SeatsType
<1>2. enter \in ServerPackets /\ enter.type # "S_LOBBY_ROOM_INFO"
  BY DEF TypeOK, ServerPackets
<1>3. PICK o \in Orders(seats) : sendQueue' = sendQueue \o Cast(o, enter) \o named
  BY DEF EnterRoom
<1>4. /\ Cast(o, enter) \in Seq(Packages)
      /\ \A i \in DOMAIN Cast(o, enter) : ~IsRoomList(Cast(o, enter)[i])
  <2> HIDE DEF seats, enter
  <2> QED BY <1>1, <1>2, CastType, CastPushesNoList
<1>5. /\ named \in Seq(Packages)
      /\ \A i \in DOMAIN named : ~IsRoomList(named[i])
  BY DEF Package, Packages, ServerPackets, IsRoomList
<1> DEFINE cast == Cast(o, enter)
           pushed == cast \o named
<1> HIDE DEF cast, named
<1>6. /\ pushed \in Seq(Packages)
      /\ sendQueue' = sendQueue \o pushed
  <2>1. cast \in Seq(Packages) /\ sendQueue \in Seq(Packages)
    BY <1>4 DEF cast, TypeOK
  <2>2. sendQueue' = (sendQueue \o cast) \o named
    BY <1>3 DEF cast, named
  <2>3. QED
    BY <1>5, <2>1, <2>2, ConcatProperties, ConcatAssociative
<1>7. \A i \in DOMAIN pushed : ~IsRoomList(pushed[i])
  <2>1. cast \in Seq(Packages) /\ \A i \in DOMAIN cast : ~IsRoomList(cast[i])
    BY <1>4 DEF cast
  <2>2. QED
    BY <1>5, <2>1, ConcatProperties, LenProperties
<1>8. roomList' = roomList
  BY DEF EnterRoom
<1>9. QED
  <2> HIDE DEF pushed
  <2> QED BY <1>6, <1>7, <1>8, PushKeepsLists

LEMMA ListsStep == IInv /\ RoomListsGrow /\ [Next]_vars => RoomListsGrow'
<1> SUFFICES ASSUME IInv, RoomListsGrow, [Next]_vars PROVE RoomListsGrow'
  OBVIOUS
<1> USE DEF IInv
\* Many steps leave the queue and the rooms alone.
<1>0. ASSUME UNCHANGED <<sendQueue, roomList>> PROVE RoomListsGrow'
  BY <1>0 DEF RoomListsGrow
<1>1. CASE CreateUser
  BY <1>0, <1>1 DEF CreateUser, roomVars
<1>2. ASSUME NEW u \in Users, NEW p \in ClientPackets, RecvCompletion(u, p)
      PROVE  RoomListsGrow'
  BY <1>0, <1>2 DEF RecvCompletion, roomVars
<1>3. ASSUME NEW u \in Users, FailedCompletion(u) PROVE RoomListsGrow'
  BY <1>0, <1>3, RemoveUserKeepsLists DEF FailedCompletion, Fault, roomVars
<1>4. ASSUME NEW u \in Users, StaleCompletion(u) PROVE RoomListsGrow'
  BY <1>0, <1>4 DEF StaleCompletion, Fault, roomVars
<1>40. ASSUME NEW u \in Users, Overlap(u) PROVE RoomListsGrow'
  BY <1>0, <1>40 DEF Overlap, Fault, roomVars
<1>5. ASSUME NEW type, Dispatch(type)
      PROVE  sender \in userList /\ sender \in Users /\ packet \in ClientPackets
  BY <1>5, JobType DEF Dispatch
<1>6. CASE C_SERVER_ENTER
  <2> DEFINE reply == <<Package(sender, [type |-> "S_SERVER_ENTER_OK", pid |-> sender]),
                        RoomListPackage(sender, roomList)>>
  <2>1. sender \in Users /\ roomList' = roomList
    BY <1>5, <1>6 DEF C_SERVER_ENTER, roomVars
  <2>2. reply \in Seq(Packages)
    BY <2>1 DEF Package, RoomListPackage, Packages, ServerPackets, TypeOK
  <2>3. \A i \in DOMAIN reply : IsRoomList(reply[i]) => reply[i].packet.roomId = roomList
    BY DEF Package, RoomListPackage, IsRoomList
  <2>4. sendQueue' = sendQueue \o reply
    BY <1>6 DEF C_SERVER_ENTER
  <2>5. QED
    <3> HIDE DEF reply
    <3> QED BY <2>1, <2>2, <2>3, <2>4, PushKeepsLists
<1>7. CASE C_SERVER_EXIT
  BY <1>5, <1>7, RemoveUserKeepsLists DEF C_SERVER_EXIT
<1>8. ASSUME NEW u \in Users, roomList \subseteq roomList', roomList' \in SUBSET RoomIds,
             sendQueue' = Append(sendQueue, RoomListPackage(u, roomList'))
      PROVE  RoomListsGrow'
  <2> DEFINE list == <<RoomListPackage(u, roomList')>>
  <2>1. list \in Seq(Packages)
    BY <1>8 DEF RoomListPackage, Package, Packages, ServerPackets
  <2>2. sendQueue' = sendQueue \o list
    <3>1. RoomListPackage(u, roomList') \in Packages
      BY <1>8 DEF RoomListPackage, Package, Packages, ServerPackets
    <3>2. QED
      BY <1>8, <3>1, AppendIsConcat DEF TypeOK
  <2>3. \A i \in DOMAIN list : list[i].packet.roomId = roomList'
    BY DEF RoomListPackage, Package
  <2>4. QED
    <3> HIDE DEF list
    <3> QED BY <1>8, <2>1, <2>2, <2>3, PushKeepsLists
<1>9. CASE C_LOBBY_ROOM_INFO
  BY <1>8, <1>9, JobType DEF C_LOBBY_ROOM_INFO, TypeOK, roomVars
<1>10. CASE C_ROOM_CREATE
  <2>1. roomList \subseteq roomList' /\ roomList' \in SUBSET RoomIds
    BY <1>10 DEF C_ROOM_CREATE, TypeOK
  <2>2. QED
    BY <1>5, <1>8, <1>10, <2>1 DEF C_ROOM_CREATE
<1>11. CASE C_ROOM_ENTER
  <2>1. packet.rid \in RoomIds /\ sender \in Users
    BY <1>5, <1>11 DEF C_ROOM_ENTER, TypeOK
  <2>2. QED
    BY <1>11, <2>1, EnterRoomKeepsLists DEF C_ROOM_ENTER
<1>12. CASE C_ROOM_EXIT
  BY <1>5, <1>12, ExitRoomKeepsLists DEF C_ROOM_EXIT
\* One package that is not a list, or two.
<1>13. ASSUME NEW pushed \in Seq(Packages), \A i \in DOMAIN pushed : ~IsRoomList(pushed[i]),
              roomList' = roomList, sendQueue' = sendQueue \o pushed
       PROVE  RoomListsGrow'
  BY <1>13, PushKeepsLists
<1>14. CASE C_UNICAST
  <2>1. sender \in Users /\ roomList' = roomList
    BY <1>5, <1>14 DEF C_UNICAST, roomVars
  <2>2. CASE sendQueue' = Append(sendQueue, Package(sender, [type |-> "S_UNICAST_NO"]))
    <3> DEFINE no == Package(sender, [type |-> "S_UNICAST_NO"])
    <3>1. no \in Packages /\ ~IsRoomList(no)
      BY <2>1 DEF Package, Packages, ServerPackets, IsRoomList
    <3>2. sendQueue' = sendQueue \o <<no>>
      BY <2>2, <3>1, AppendIsConcat DEF TypeOK
    <3>3. <<no>> \in Seq(Packages) /\ \A i \in DOMAIN <<no>> : ~IsRoomList(<<no>>[i])
      <4> HIDE DEF no
      <4> QED BY <3>1
    <3>4. QED
      <4> HIDE DEF no
      <4> QED BY <1>13, <2>1, <3>2, <3>3
  <2>3. ASSUME NEW recver \in FindByNickname(packet.recver),
               sendQueue' = sendQueue \o
                 <<Package(sender, [type |-> "S_UNICAST_OK", nickname |-> nickname[sender]]),
                   Package(recver, [type |-> "S_UNICAST_OK", nickname |-> nickname[sender]])>>
        PROVE  RoomListsGrow'
    <3> DEFINE ok == [type |-> "S_UNICAST_OK", nickname |-> nickname[sender]]
               both == <<Package(sender, ok), Package(recver, ok)>>
    <3>1. recver \in Users /\ nickname[sender] \in Names
      BY <2>1 DEF FindByNickname, TypeOK
    <3>2. ok \in ServerPackets
      BY <3>1 DEF ServerPackets
    <3>3. both \in Seq(Packages) /\ \A i \in DOMAIN both : ~IsRoomList(both[i])
      BY <2>1, <3>1, <3>2 DEF Package, Packages, IsRoomList
    <3>4. QED
      <4>1. sendQueue' = sendQueue \o both
        BY <2>3
      <4> HIDE DEF both
      <4>2. QED BY <1>13, <2>1, <3>3, <4>1
  <2>4. QED
    BY <1>14, <2>2, <2>3 DEF C_UNICAST
<1>15. ASSUME NEW R \in SUBSET RoomIds, sender \in Users,
              NEW type \in {"S_MULTICAST", "S_BROADCAST"}, CastToRooms(R, type)
       PROVE  RoomListsGrow'
  <2> DEFINE chat == [type |-> type, nickname |-> nickname[sender]]
             seats == Seats(R)
  <2>1. /\ chat \in ServerPackets /\ chat.type # "S_LOBBY_ROOM_INFO"
        /\ seats \in SUBSET (RoomIds \X Users)
    BY <1>15, SeatsType DEF ServerPackets, TypeOK
  <2>2. PICK o \in Orders(seats) : sendQueue' = sendQueue \o Cast(o, chat)
    BY <1>15 DEF CastToRooms
  <2>3. roomList' = roomList
    BY <1>15 DEF CastToRooms, roomVars
  <2>4. QED
    <3> HIDE DEF chat, seats
    <3> QED BY <2>1, <2>2, <2>3, CastKeepsLists
<1>16. CASE C_MULTICAST
  BY <1>5, <1>15, <1>16 DEF C_MULTICAST, IsInLobby, TypeOK
<1>17. CASE C_BROADCAST
  BY <1>5, <1>15, <1>17 DEF C_BROADCAST, TypeOK
<1>18. CASE StaleJob \/ NullRoom \/ StaleMember
  BY <1>0, <1>18 DEF StaleJob, NullRoom, StaleMember, Fault, roomVars
<1>19. CASE SendPackage
  <2>1. CASE UNCHANGED sendQueue
    BY <1>0, <1>19, <2>1 DEF SendPackage, Fault, roomVars
  <2>2. CASE sendQueue' = Tail(sendQueue) /\ roomList' = roomList /\ sendQueue # <<>>
    <3>1. /\ DOMAIN sendQueue' = 1..(Len(sendQueue) - 1) /\ Len(sendQueue) \in Nat
          /\ \A i \in 1..(Len(sendQueue) - 1) : sendQueue'[i] = sendQueue[i + 1]
      BY <2>2, HeadTailProperties, LenProperties DEF TypeOK
    <3>2. DOMAIN sendQueue = 1..Len(sendQueue)
      BY LenProperties DEF TypeOK
    <3>3. QED
      BY <2>2, <3>1, <3>2 DEF RoomListsGrow
  <2>3. QED
    BY <1>19, <2>1, <2>2 DEF SendPackage, Fault, roomVars
<1>20. CASE UNCHANGED vars
  BY <1>0, <1>20 DEF vars, roomVars
<1>21. QED
  BY <1>1, <1>2, <1>3, <1>4, <1>40, <1>6, <1>7, <1>9, <1>10, <1>11, <1>12, <1>14,
     <1>16, <1>17, <1>18, <1>19, <1>20 DEF Next, WorkerStep, LogicStep

\* Along the package queue the room lists only grow, and never name a room that
\* does not exist: what a client shows is always a list of rooms to enter.
THEOREM ListsGrow == Spec => []RoomListsGrow
<1>1. Init => RoomListsGrow
  BY DEF Init, RoomListsGrow
<1>2. IInv /\ RoomListsGrow /\ [Next]_vars => IInv' /\ RoomListsGrow'
  BY InvStep, ListsStep
<1>3. QED
  BY InitInv, <1>1, <1>2, PTL DEF Spec

-----------------------------------------------------------------------------
(* The server and its clients.                                              *)

-----------------------------------------------------------------------------
(* What is under way.                                                       *)

\* The packets of u that no handler has taken: the stream and the job queue.
Stream(u) == {toServer[u][i] : i \in DOMAIN toServer[u]}
Queued(u) == {jobQueue[i].packet : i \in {k \in DOMAIN jobQueue : jobQueue[k].session = u}}
Going(u) == Stream(u) \cup Queued(u)

\* The packets for u that its client has not seen: the stream and the package queue.
Arrived(u) == {toClient[u][i] : i \in DOMAIN toClient[u]}
Pushed(u) == {sendQueue[i].packet : i \in {k \in DOMAIN sendQueue : sendQueue[k].session = u}}
Coming(u) == Arrived(u) \cup Pushed(u)

\* Requests for another page, and those after which the client sends nothing
\* before it has its answer.
Asks(p) == p.type \in {"C_ROOM_ENTER", "C_ROOM_EXIT", "C_SERVER_EXIT"}
Final(p) == Asks(p) \/ p.type = "C_SERVER_ENTER"

\* Answers that open the room's page of u, or the lobby's.
Opening(p) == p.type = "S_ROOM_ENTER"
Closing(u, p) == p.type = "S_SERVER_ENTER_OK" \/ (p.type = "S_ROOM_EXIT" /\ p.uid = u)
Turning(u, p) == Opening(p) \/ Closing(u, p)

\* Nothing of u follows a final request.
FinalLast(u) ==
  /\ \A i, j \in DOMAIN toServer[u] : i < j => ~Final(toServer[u][i])
  /\ \A i, j \in DOMAIN jobQueue :
       i < j /\ jobQueue[i].session = u /\ jobQueue[j].session = u => ~Final(jobQueue[i].packet)
  /\ (\E p \in Queued(u) : Final(p)) => Stream(u) = {}

\* Nothing for u that turns a page follows an answer that opens the lobby's.
ClosingLast(u) ==
  /\ \A i, j \in DOMAIN toClient[u] :
       i < j /\ Closing(u, toClient[u][i]) => ~Turning(u, toClient[u][j])
  /\ \A i, j \in DOMAIN sendQueue :
       i < j /\ sendQueue[i].session = u /\ sendQueue[j].session = u
         /\ Closing(u, sendQueue[i].packet) => ~Turning(u, sendQueue[j].packet)
  /\ (\E p \in Arrived(u) : Closing(u, p)) => \A q \in Pushed(u) : ~Turning(u, q)

-----------------------------------------------------------------------------
(* The invariant.                                                           *)

\* What the server will find when it comes to the requests of u, connected or not.
Requests(u) ==
  /\ FinalLast(u)
  /\ \A p \in Going(u) :
       /\ p.type = "C_ROOM_ENTER" => IsInLobby(u)
       /\ p.type \in {"C_ROOM_EXIT", "C_MULTICAST"} => ~IsInLobby(u)

Kinds ==
  [LOGIN |-> {}, PENDING |-> {"C_SERVER_ENTER"},
   LOBBY |-> {"C_LOBBY_ROOM_INFO", "C_ROOM_CREATE", "C_ROOM_ENTER"},
   CHATROOM |-> {"C_UNICAST", "C_MULTICAST", "C_BROADCAST", "C_ROOM_EXIT", "C_SERVER_EXIT"}]

\* The page of u is the one of the room the server has it in.
Fits(u) == clientState[u] = "CHATROOM" <=> ~IsInLobby(u)

\* A page that does not fit is one whose user waits for an answer, with nothing
\* else under way to the server; that answer is the only one that turns a page.
Page(u) ==
  Connected(u) =>
    /\ u \in recvPending
    /\ \A p \in Going(u) : p.type \in Kinds[clientState[u]] /\ (Asks(p) => u \in waiting)
    /\ ~Fits(u) => u \in waiting /\ Going(u) = {} /\ clientState[u] \in {"LOBBY", "CHATROOM"}
    /\ IsInLobby(u) /\ clientState[u] # "CHATROOM" => \A p \in Coming(u) : ~Opening(p)
    /\ (\E p \in Coming(u) : Closing(u, p)) =>
         IsInLobby(u) /\ Going(u) = {} /\ clientState[u] \in {"PENDING", "CHATROOM"}
    /\ ClosingLast(u)

\* If no packet is lost, that answer is under way.
Answered(u) ==
  ~Coalescing /\ Connected(u) /\ ~Fits(u) =>
    \E p \in Coming(u) : IF IsInLobby(u) THEN Closing(u, p) ELSE Opening(p)

UserInv(u) == Requests(u) /\ Page(u) /\ Answered(u)

\* Rooms that are shown, listed or asked for exist.
RoomsKnown ==
  \A u \in Users :
    /\ shownRooms[u] \subseteq roomList
    /\ \A p \in Coming(u) : p.type = "S_LOBBY_ROOM_INFO" => p.roomId \subseteq roomList
    /\ \A p \in Going(u) : p.type = "C_ROOM_ENTER" => p.rid \in roomList

\* Nothing is known of a user that has not come yet.
Unborn ==
  \A u \in Users : u >= userId =>
    u \notin userList /\ clientState[u] = "ABSENT" /\ Going(u) = {} /\ Coming(u) = {}

\* The types come from the steps of the variables, IInv from ChatServer's.
Rest ==
  /\ MembershipExact /\ HandlersFindTheirRooms
  /\ RoomsKnown /\ Unborn
  /\ \A u \in userList : UserInv(u)

Inv == IInv /\ SysTypeOK /\ Rest

-----------------------------------------------------------------------------
(* The queues and streams, as sequences.                                    *)

\* Where the elements of the queues and streams are.
LEMMA Sequences ==
  ASSUME SysTypeOK
  PROVE  /\ jobQueue \in Seq(Jobs) /\ sendQueue \in Seq(Packages)
         /\ Len(jobQueue) \in Nat /\ DOMAIN jobQueue = 1..Len(jobQueue)
         /\ Len(sendQueue) \in Nat /\ DOMAIN sendQueue = 1..Len(sendQueue)
         /\ \A u \in Users :
              /\ toServer[u] \in Seq(ClientPackets) /\ toClient[u] \in Seq(ServerPackets)
              /\ Len(toServer[u]) \in Nat /\ DOMAIN toServer[u] = 1..Len(toServer[u])
              /\ Len(toClient[u]) \in Nat /\ DOMAIN toClient[u] = 1..Len(toClient[u])
  BY LenProperties DEF SysTypeOK, TypeOK

\* What is under way is packets.
LEMMA UnderWay ==
  ASSUME SysTypeOK, NEW u \in Users
  PROVE  Going(u) \subseteq ClientPackets /\ Coming(u) \subseteq ServerPackets
<1>1. \A i \in DOMAIN jobQueue : jobQueue[i] \in Jobs
  BY Sequences, ElementOfSeq
<1>2. \A i \in DOMAIN sendQueue : sendQueue[i] \in Packages
  BY Sequences, ElementOfSeq
<1>3. \A i \in DOMAIN toServer[u] : toServer[u][i] \in ClientPackets
  BY Sequences, ElementOfSeq
<1>4. \A i \in DOMAIN toClient[u] : toClient[u][i] \in ServerPackets
  BY Sequences, ElementOfSeq
<1> QED
  BY <1>1, <1>2, <1>3, <1>4 DEF Going, Stream, Queued, Coming, Arrived, Pushed, Jobs, Packages

\* The logic thread takes a job: it was under way, and if it is final nothing of
\* its sender is left.
LEMMA TakeJob ==
  ASSUME SysTypeOK, jobQueue # <<>>, jobQueue' = Tail(jobQueue), UNCHANGED toServer, NEW v \in Users
  PROVE  /\ Going(v)' \subseteq Going(v)
         /\ FinalLast(v) => FinalLast(v)'
         /\ sender = v => packet \in Going(v)
         /\ sender = v /\ Final(packet) /\ FinalLast(v) => Going(v)' = {}
<1>1. /\ Len(jobQueue) \in Nat \ {0} /\ DOMAIN jobQueue = 1..Len(jobQueue)
      /\ DOMAIN jobQueue' = 1..(Len(jobQueue) - 1)
      /\ \A i \in 1..(Len(jobQueue) - 1) : jobQueue'[i] = jobQueue[i + 1]
      /\ Head(jobQueue) = jobQueue[1]
  BY Sequences, HeadTailProperties, LenProperties, EmptySeq
<1>2. \A i \in DOMAIN jobQueue' : i + 1 \in DOMAIN jobQueue /\ jobQueue'[i] = jobQueue[i + 1] /\ 1 < i + 1
  BY <1>1
<1>3. Queued(v)' \subseteq Queued(v) /\ Stream(v)' = Stream(v)
  BY <1>2 DEF Queued, Stream
<1>4. Going(v)' \subseteq Going(v)
  BY <1>3 DEF Going
<1>5. ASSUME FinalLast(v) PROVE FinalLast(v)'
  <2>1. \A i, j \in DOMAIN jobQueue' : i < j => i + 1 < j + 1
    BY <1>1
  <2>2. \A i, j \in DOMAIN jobQueue' :
          i < j /\ jobQueue'[i].session = v /\ jobQueue'[j].session = v => ~Final(jobQueue'[i].packet)
    BY <1>2, <1>5, <2>1 DEF FinalLast
  <2> QED
    BY <1>3, <1>5, <2>2 DEF FinalLast
<1>6. sender = v => packet \in Queued(v)
  BY <1>1 DEF sender, packet, Queued
<1>7. ASSUME sender = v, Final(packet), FinalLast(v) PROVE Going(v)' = {}
  <2>1. Stream(v) = {}
    BY <1>6, <1>7 DEF FinalLast
  <2>2. \A j \in DOMAIN jobQueue : 1 < j => jobQueue[j].session # v
    BY <1>1, <1>7 DEF FinalLast, sender, packet
  <2>3. Queued(v)' = {}
    BY <1>2, <2>2 DEF Queued
  <2> QED
    BY <1>3, <2>1, <2>3 DEF Going
<1> QED
  BY <1>4, <1>5, <1>6, <1>7 DEF Going

\* What a receive leaves of a stream.
LEMMA RestOfStream ==
  ASSUME NEW S, NEW s \in Seq(S), NEW k \in 1..Len(s)
  PROVE  /\ SubSeq(s, k + 1, Len(s)) \in Seq(S)
         /\ DOMAIN SubSeq(s, k + 1, Len(s)) = 1..(Len(s) - k)
         /\ \A i \in 1..(Len(s) - k) : SubSeq(s, k + 1, Len(s))[i] = s[k + i] /\ k + i \in 1..Len(s)
         /\ Head(s) = s[1] /\ 1 \in 1..Len(s)
<1>1. Len(s) \in Nat /\ \A i \in 1..Len(s) : s[i] \in S
  BY LenProperties, ElementOfSeq
<1>2. k \in Nat /\ k + 1 \in Int /\ Len(s) \in Int /\ \A i \in (k + 1)..Len(s) : s[i] \in S
  BY <1>1
<1>3. /\ SubSeq(s, k + 1, Len(s)) \in Seq(S)
      /\ Len(SubSeq(s, k + 1, Len(s))) = Len(s) - k
      /\ \A i \in 1..(Len(s) - k) : SubSeq(s, k + 1, Len(s))[i] = s[k + i]
  <2>1. /\ SubSeq(s, k + 1, Len(s)) \in Seq(S)
        /\ Len(SubSeq(s, k + 1, Len(s))) = IF k + 1 <= Len(s) THEN Len(s) - (k + 1) + 1 ELSE 0
        /\ \A i \in 1..(Len(s) - (k + 1) + 1) : SubSeq(s, k + 1, Len(s))[i] = s[(k + 1) + i - 1]
    BY <1>2, SubSeqProperties
  <2> QED
    BY <1>1, <2>1
<1> QED
  BY <1>1, <1>3, LenProperties

\* A worker makes a job of a client's first packet; those that came with it are lost.
LEMMA PassJob ==
  ASSUME SysTypeOK, NEW u \in Users, NEW v \in Users, toServer[u] # <<>>,
         jobQueue' = Append(jobQueue, [session |-> u, packet |-> Head(toServer[u])]),
         NEW k \in 1..Len(toServer[u]),
         toServer' = [toServer EXCEPT ![u] = SubSeq(@, k + 1, Len(@))]
  PROVE  Going(v)' \subseteq Going(v) /\ (FinalLast(v) => FinalLast(v)')
<1> DEFINE n == Len(jobQueue)
           job == [session |-> u, packet |-> Head(toServer[u])]
<1>1. /\ n \in Nat /\ DOMAIN jobQueue = 1..n /\ jobQueue \in Seq(Jobs)
      /\ toServer[u] \in Seq(ClientPackets) /\ DOMAIN toServer[u] = 1..Len(toServer[u])
  BY Sequences
<1>2. Head(toServer[u]) = toServer[u][1] /\ 1 \in DOMAIN toServer[u] /\ job \in Jobs
  BY <1>1, RestOfStream, ElementOfSeq DEF Jobs
<1>3. /\ DOMAIN jobQueue' = 1..(n + 1) /\ jobQueue'[n + 1] = job
      /\ \A i \in 1..n : jobQueue'[i] = jobQueue[i]
  <2>1. jobQueue' = Append(jobQueue, job)
    OBVIOUS
  <2> HIDE DEF job
  <2>2. /\ Append(jobQueue, job) \in Seq(Jobs) /\ Len(Append(jobQueue, job)) = n + 1
        /\ \A i \in 1..n : Append(jobQueue, job)[i] = jobQueue[i]
        /\ Append(jobQueue, job)[n + 1] = job
    BY <1>1, <1>2, AppendProperties
  <2> QED
    BY <2>1, <2>2, LenProperties
<1>4. /\ toServer'[u] = SubSeq(toServer[u], k + 1, Len(toServer[u]))
      /\ \A w \in Users : w # u => toServer'[w] = toServer[w]
  BY DEF SysTypeOK
<1>5. \A i \in DOMAIN toServer'[u] :
        k + i \in DOMAIN toServer[u] /\ toServer'[u][i] = toServer[u][k + i] /\ 1 < k + i
  BY <1>1, <1>4, RestOfStream
<1>6. CASE v # u
  <2>1. Stream(v)' = Stream(v)
    BY <1>4, <1>6 DEF Stream
  <2>2. Queued(v)' = Queued(v)
    BY <1>1, <1>3, <1>6 DEF Queued
  <2>3. ASSUME FinalLast(v) PROVE FinalLast(v)'
    <3>1. \A i, j \in DOMAIN jobQueue' :
            i < j /\ jobQueue'[i].session = v /\ jobQueue'[j].session = v => ~Final(jobQueue'[i].packet)
      BY <1>1, <1>3, <1>6, <2>3 DEF FinalLast
    <3> QED
      BY <1>4, <1>6, <2>1, <2>2, <2>3, <3>1 DEF FinalLast
  <2> QED
    BY <2>1, <2>2, <2>3 DEF Going
<1>7. CASE v = u
  <2>1. Stream(u)' \subseteq Stream(u)
    BY <1>5 DEF Stream
  <2>2. Queued(u)' \subseteq Queued(u) \cup {Head(toServer[u])}
    BY <1>1, <1>3 DEF Queued
  <2>3. Head(toServer[u]) \in Stream(u)
    BY <1>2 DEF Stream
  <2>4. ASSUME FinalLast(u) PROVE FinalLast(u)'
    <3>1. \A p \in Queued(u) : ~Final(p)
      BY <2>3, <2>4 DEF FinalLast
    <3>2. \A i \in 1..n : jobQueue[i].session = u => ~Final(jobQueue[i].packet)
      BY <1>1, <3>1 DEF Queued
    <3>3. \A i, j \in DOMAIN jobQueue' :
            i < j /\ jobQueue'[i].session = u /\ jobQueue'[j].session = u => ~Final(jobQueue'[i].packet)
      <4>1. \A i, j \in DOMAIN jobQueue' : i < j => i \in 1..n /\ jobQueue'[i] = jobQueue[i]
        BY <1>1, <1>3
      <4> QED
        BY <3>2, <4>1
    <3>4. \A i, j \in DOMAIN toServer'[u] : i < j => k + i < k + j
      BY <1>1, <1>4, RestOfStream
    <3>5. \A i, j \in DOMAIN toServer'[u] : i < j => ~Final(toServer'[u][i])
      BY <1>5, <2>4, <3>4 DEF FinalLast
    <3>6. ASSUME NEW p \in Queued(u)', Final(p) PROVE Stream(u)' = {}
      <4>1. p = toServer[u][1]
        BY <1>2, <2>2, <3>1, <3>6
      <4>2. \A j \in DOMAIN toServer[u] : ~(1 < j)
        BY <1>2, <2>4, <3>6, <4>1 DEF FinalLast
      <4> QED
        BY <1>5, <4>2 DEF Stream
    <3> QED
      BY <3>3, <3>5, <3>6 DEF FinalLast
  <2> QED
    BY <1>7, <2>1, <2>2, <2>3, <2>4 DEF Going
<1> QED
  BY <1>6, <1>7

\* A client sends.
LEMMA ClientSends ==
  ASSUME SysTypeOK, NEW u \in Users, NEW v \in Users, NEW p \in ClientPackets,
         toServer' = [toServer EXCEPT ![u] = Append(@, p)], UNCHANGED jobQueue
  PROVE  /\ v # u => Going(v)' = Going(v) /\ (FinalLast(v) => FinalLast(v)')
         /\ Going(u)' = Going(u) \cup {p}
         /\ (\A q \in Going(u) : ~Final(q)) => FinalLast(u)'
<1> DEFINE n == Len(toServer[u])
<1>1. /\ n \in Nat /\ DOMAIN toServer[u] = 1..n /\ toServer[u] \in Seq(ClientPackets)
  BY Sequences
<1>2. /\ toServer'[u] = Append(toServer[u], p)
      /\ \A w \in Users : w # u => toServer'[w] = toServer[w]
  BY DEF SysTypeOK
<1>3. /\ DOMAIN toServer'[u] = 1..(n + 1) /\ toServer'[u][n + 1] = p
      /\ \A i \in 1..n : toServer'[u][i] = toServer[u][i]
  BY <1>1, <1>2, AppendProperties, LenProperties
<1>4. \A w \in Users : Queued(w)' = Queued(w)
  BY DEF Queued
<1>5. Stream(u)' = Stream(u) \cup {p}
  BY <1>1, <1>3 DEF Stream
<1>6. ASSUME \A q \in Going(u) : ~Final(q) PROVE FinalLast(u)'
  <2>1. \A i \in 1..n : ~Final(toServer[u][i])
    BY <1>1, <1>6 DEF Going, Stream
  <2>2. \A i, j \in DOMAIN toServer'[u] : i < j => ~Final(toServer'[u][i])
    <3>1. \A i, j \in DOMAIN toServer'[u] : i < j => i \in 1..n /\ toServer'[u][i] = toServer[u][i]
      BY <1>1, <1>3
    <3> QED
      BY <2>1, <3>1
  <2>3. \A i, j \in DOMAIN jobQueue :
          i < j /\ jobQueue[i].session = u /\ jobQueue[j].session = u => ~Final(jobQueue[i].packet)
    BY <1>6 DEF Going, Queued
  <2>4. \A q \in Queued(u)' : ~Final(q)
    BY <1>4, <1>6 DEF Going
  <2> QED
    BY <2>2, <2>3, <2>4 DEF FinalLast
<1>7. v # u => Stream(v)' = Stream(v) /\ (FinalLast(v) => FinalLast(v)')
  BY <1>2, <1>4 DEF Stream, FinalLast
<1> QED
  BY <1>4, <1>5, <1>6, <1>7 DEF Going

\* A client takes its first packet, and loses those that came with it.
LEMMA ClientReceives ==
  ASSUME SysTypeOK, NEW u \in Users, NEW v \in Users, toClient[u] # <<>>,
         NEW k \in 1..Len(toClient[u]),
         toClient' = [toClient EXCEPT ![u] = SubSeq(@, k + 1, Len(@))], UNCHANGED sendQueue
  PROVE  /\ Received(u) \in Coming(u) /\ Received(u) \in ServerPackets
         /\ Coming(v)' \subseteq Coming(v) /\ (ClosingLast(v) => ClosingLast(v)')
         /\ v # u => Coming(v)' = Coming(v)
         /\ k = 1 => Coming(u) \subseteq Coming(u)' \cup {Received(u)}
         /\ ClosingLast(u) /\ Closing(u, Received(u)) => \A q \in Coming(u)' : ~Turning(u, q)
<1> DEFINE n == Len(toClient[u])
<1>1. /\ n \in Nat /\ DOMAIN toClient[u] = 1..n /\ toClient[u] \in Seq(ServerPackets)
  BY Sequences
<1>2. Received(u) = toClient[u][1] /\ 1 \in DOMAIN toClient[u] /\ Received(u) \in ServerPackets
  BY <1>1, RestOfStream, ElementOfSeq DEF Received
<1>3. /\ toClient'[u] = SubSeq(toClient[u], k + 1, Len(toClient[u]))
      /\ \A w \in Users : w # u => toClient'[w] = toClient[w]
  BY DEF SysTypeOK
<1>4. /\ DOMAIN toClient'[u] = 1..(n - k)
      /\ \A i \in 1..(n - k) :
           k + i \in DOMAIN toClient[u] /\ toClient'[u][i] = toClient[u][k + i] /\ 1 < k + i
  BY <1>1, <1>3, RestOfStream
<1>5. \A w \in Users : Pushed(w)' = Pushed(w)
  BY DEF Pushed
<1>6. Arrived(u)' \subseteq Arrived(u)
  BY <1>4 DEF Arrived
<1>7. ASSUME k = 1 PROVE Arrived(u) \subseteq Arrived(u)' \cup {Received(u)}
  <2>1. \A i \in 1..n : i = 1 \/ (i - 1 \in 1..(n - k) /\ toClient'[u][i - 1] = toClient[u][i])
    BY <1>1, <1>4, <1>7
  <2>2. ASSUME NEW i \in DOMAIN toClient[u] PROVE toClient[u][i] \in Arrived(u)' \cup {Received(u)}
    BY <1>1, <1>2, <1>4, <2>1 DEF Arrived
  <2> QED
    BY <2>2 DEF Arrived
<1>8. ASSUME ClosingLast(u) PROVE ClosingLast(u)'
  <2>1. \A i, j \in DOMAIN toClient'[u] : i < j => k + i < k + j
    BY <1>1, <1>4
  <2>2. \A i, j \in DOMAIN toClient'[u] :
          i < j /\ Closing(u, toClient'[u][i]) => ~Turning(u, toClient'[u][j])
    BY <1>4, <1>8, <2>1 DEF ClosingLast
  <2> QED
    BY <1>5, <1>6, <1>8, <2>2 DEF ClosingLast
<1>9. ASSUME ClosingLast(u), Closing(u, Received(u)) PROVE \A q \in Coming(u)' : ~Turning(u, q)
  <2>1. \A q \in Arrived(u)' : ~Turning(u, q)
    <3>1. \A j \in DOMAIN toClient[u] : 1 < j => ~Turning(u, toClient[u][j])
      BY <1>2, <1>9 DEF ClosingLast
    <3>2. \A i \in DOMAIN toClient'[u] : ~Turning(u, toClient'[u][i])
      BY <1>4, <3>1
    <3> QED
      BY <3>2 DEF Arrived
  <2>2. \A q \in Pushed(u)' : ~Turning(u, q)
    BY <1>2, <1>5, <1>9 DEF ClosingLast, Arrived
  <2> QED
    BY <2>1, <2>2 DEF Coming
<1>10. v # u => Arrived(v)' = Arrived(v) /\ (ClosingLast(v) => ClosingLast(v)')
  BY <1>3, <1>5 DEF Arrived, ClosingLast
<1>11. Received(u) \in Arrived(u)
  BY <1>2 DEF Arrived
<1>12. Coming(u)' \subseteq Coming(u) /\ Received(u) \in Coming(u)
  BY <1>5, <1>6, <1>11 DEF Coming
<1>13. v # u => Coming(v)' = Coming(v)
  BY <1>5, <1>10 DEF Coming
<1>14. k = 1 => Coming(u) \subseteq Coming(u)' \cup {Received(u)}
  BY <1>5, <1>7 DEF Coming
<1> QED
  BY <1>2, <1>8, <1>9, <1>10, <1>12, <1>13, <1>14

\* The head of the package queue, when it is taken.
LEMMA TakePackage ==
  ASSUME SysTypeOK, sendQueue # <<>>, sendQueue' = Tail(sendQueue)
  PROVE  /\ Head(sendQueue) \in Packages
         /\ \A i \in DOMAIN sendQueue' : i + 1 \in DOMAIN sendQueue /\ sendQueue'[i] = sendQueue[i + 1]
         /\ \A i \in DOMAIN sendQueue :
              i = 1 \/ (1 < i /\ i - 1 \in DOMAIN sendQueue' /\ sendQueue'[i - 1] = sendQueue[i])
         /\ \A i, j \in DOMAIN sendQueue' : 1 < i + 1 /\ (i < j => i + 1 < j + 1)
         /\ 1 \in DOMAIN sendQueue /\ Head(sendQueue) = sendQueue[1]
<1>1. /\ Len(sendQueue) \in Nat \ {0} /\ DOMAIN sendQueue = 1..Len(sendQueue)
      /\ Head(sendQueue) \in Packages
      /\ DOMAIN sendQueue' = 1..(Len(sendQueue) - 1)
      /\ \A i \in 1..(Len(sendQueue) - 1) : sendQueue'[i] = sendQueue[i + 1]
      /\ Head(sendQueue) = sendQueue[1]
  BY Sequences, HeadTailProperties, LenProperties, EmptySeq
<1> QED
  BY <1>1

\* The packages for the others stay.
LEMMA OthersPackages ==
  ASSUME SysTypeOK, sendQueue # <<>>, sendQueue' = Tail(sendQueue), NEW v \in Users
  PROVE  /\ Pushed(v)' \subseteq Pushed(v)
         /\ Pushed(v) \subseteq Pushed(v)' \cup {Head(sendQueue).packet}
         /\ Head(sendQueue).session # v => Pushed(v) \subseteq Pushed(v)'
         /\ Head(sendQueue).session = v => Head(sendQueue).packet \in Pushed(v)
<1>1. \A i \in DOMAIN sendQueue' : sendQueue'[i].session = v => sendQueue'[i].packet \in Pushed(v)
  BY TakePackage DEF Pushed
<1>2. \A i \in DOMAIN sendQueue :
        i # 1 /\ sendQueue[i].session = v => sendQueue[i].packet \in Pushed(v)'
  BY TakePackage DEF Pushed
<1>3. \A i \in DOMAIN sendQueue :
        sendQueue[i].session = v => sendQueue[i].packet \in Pushed(v)' \cup {Head(sendQueue).packet}
  BY <1>2, TakePackage
<1>4. Head(sendQueue).session # v =>
        \A i \in DOMAIN sendQueue : sendQueue[i].session = v => sendQueue[i].packet \in Pushed(v)'
  BY <1>2, TakePackage
<1> QED
  BY <1>1, <1>3, <1>4, TakePackage DEF Pushed

\* The send thread drops a package.
LEMMA DropPackage ==
  ASSUME SysTypeOK, sendQueue # <<>>, sendQueue' = Tail(sendQueue), UNCHANGED toClient, NEW v \in Users
  PROVE  /\ Coming(v)' \subseteq Coming(v) /\ (ClosingLast(v) => ClosingLast(v)')
         /\ v # Head(sendQueue).session => Coming(v)' = Coming(v)
<1>1. Arrived(v)' = Arrived(v) /\ Pushed(v)' \subseteq Pushed(v)
  BY TakePackage DEF Arrived, Pushed
<1>2. ASSUME v # Head(sendQueue).session PROVE Pushed(v) \subseteq Pushed(v)'
  BY <1>2, OthersPackages
<1>3. ASSUME ClosingLast(v) PROVE ClosingLast(v)'
  <2>1. \A i, j \in DOMAIN sendQueue' :
          i < j /\ sendQueue'[i].session = v /\ sendQueue'[j].session = v
            /\ Closing(v, sendQueue'[i].packet) => ~Turning(v, sendQueue'[j].packet)
    BY <1>3, TakePackage DEF ClosingLast
  <2> QED
    BY <1>1, <1>3, <2>1 DEF ClosingLast
<1> QED
  BY <1>1, <1>2, <1>3 DEF Coming

\* The send thread sends a package.
LEMMA PassPackage ==
  ASSUME SysTypeOK, sendQueue # <<>>, sendQueue' = Tail(sendQueue), NEW v \in Users,
         NEW u, u = Head(sendQueue).session, NEW p, p = Head(sendQueue).packet,
         toClient' = [toClient EXCEPT ![u] = Append(@, p)]
  PROVE  Coming(v)' = Coming(v) /\ (ClosingLast(v) => ClosingLast(v)')
<1> DEFINE n == Len(toClient[u])
<1>1. u \in Users /\ p \in ServerPackets
  BY TakePackage DEF Packages
<1>2. /\ n \in Nat /\ DOMAIN toClient[u] = 1..n /\ toClient[u] \in Seq(ServerPackets)
  BY <1>1, Sequences
<1>3. /\ toClient'[u] = Append(toClient[u], p)
      /\ \A w \in Users : w # u => toClient'[w] = toClient[w]
  BY <1>1 DEF SysTypeOK
<1>4. /\ DOMAIN toClient'[u] = 1..(n + 1) /\ toClient'[u][n + 1] = p
      /\ \A i \in 1..n : toClient'[u][i] = toClient[u][i]
  BY <1>1, <1>2, <1>3, AppendProperties, LenProperties
<1>5. CASE v # u
  <2>1. Arrived(v)' = Arrived(v) /\ toClient'[v] = toClient[v]
    BY <1>3, <1>5 DEF Arrived
  <2>2. Pushed(v)' = Pushed(v)
    BY <1>5, OthersPackages
  <2>3. ASSUME ClosingLast(v) PROVE ClosingLast(v)'
    <3>1. \A i, j \in DOMAIN sendQueue' :
            i < j /\ sendQueue'[i].session = v /\ sendQueue'[j].session = v
              /\ Closing(v, sendQueue'[i].packet) => ~Turning(v, sendQueue'[j].packet)
      BY <2>3, TakePackage DEF ClosingLast
    <3> QED
      BY <2>1, <2>2, <2>3, <3>1 DEF ClosingLast
  <2> QED
    BY <2>1, <2>2, <2>3 DEF Coming
<1>6. CASE v = u
  <2>1. Arrived(u)' = Arrived(u) \cup {p}
    BY <1>2, <1>4 DEF Arrived
  <2>2. Pushed(u) = Pushed(u)' \cup {p}
    <3>1. Pushed(u)' \subseteq Pushed(u) /\ Pushed(u) \subseteq Pushed(u)' \cup {p} /\ p \in Pushed(u)
      BY <1>1, OthersPackages
    <3> QED
      BY <3>1
  <2>3. ASSUME ClosingLast(u) PROVE ClosingLast(u)'
    <3>1. Closing(u, p) => \A q \in Pushed(u)' : ~Turning(u, q)
      <4>1. \A j \in DOMAIN sendQueue : 1 < j /\ sendQueue[j].session = u /\ Closing(u, p)
              => ~Turning(u, sendQueue[j].packet)
        BY <2>3, TakePackage DEF ClosingLast
      <4>2. \A j \in DOMAIN sendQueue' : sendQueue'[j].session = u /\ Closing(u, p)
              => ~Turning(u, sendQueue'[j].packet)
        BY <4>1, TakePackage
      <4> QED
        BY <4>2 DEF Pushed
    <3>2. (\E q \in Arrived(u) : Closing(u, q)) => \A q \in Pushed(u) : ~Turning(u, q)
      BY <2>3 DEF ClosingLast
    <3>3. (\E q \in Arrived(u)' : Closing(u, q)) => \A q \in Pushed(u)' : ~Turning(u, q)
      BY <2>1, <2>2, <3>1, <3>2
    <3>4. \A i, j \in DOMAIN sendQueue' :
            i < j /\ sendQueue'[i].session = u /\ sendQueue'[j].session = u
              /\ Closing(u, sendQueue'[i].packet) => ~Turning(u, sendQueue'[j].packet)
      BY <2>3, TakePackage DEF ClosingLast
    <3>5. ASSUME NEW i \in DOMAIN toClient'[u], NEW j \in DOMAIN toClient'[u],
                 i < j, Closing(u, toClient'[u][i])
          PROVE  ~Turning(u, toClient'[u][j])
      <4>1. i \in 1..n /\ toClient'[u][i] = toClient[u][i] /\ toClient[u][i] \in Arrived(u)
        BY <1>2, <1>4, <3>5 DEF Arrived
      <4>2. CASE j \in 1..n
        BY <1>2, <1>4, <2>3, <3>5, <4>1, <4>2 DEF ClosingLast
      <4>3. CASE j = n + 1
        BY <1>4, <2>2, <3>2, <3>5, <4>1, <4>3
      <4> QED
        BY <1>2, <1>4, <3>5, <4>2, <4>3
    <3> QED
      BY <3>3, <3>4, <3>5 DEF ClosingLast
  <2> QED
    BY <1>6, <2>1, <2>2, <2>3 DEF Coming
<1> QED
  BY <1>5, <1>6

\* A handler pushes packages.
LEMMA PushPackages ==
  ASSUME SysTypeOK, NEW pushed \in Seq(Packages), sendQueue' = sendQueue \o pushed,
         UNCHANGED toClient, NEW v \in Users
  PROVE  /\ Coming(v) \subseteq Coming(v)'
         /\ \A p \in Coming(v)' :
              p \in Coming(v) \/ \E i \in DOMAIN pushed : pushed[i].session = v /\ pushed[i].packet = p
         /\ \A i \in DOMAIN pushed : pushed[i].session = v => pushed[i].packet \in Coming(v)'
         /\ ClosingLast(v) /\ (\A i \in DOMAIN pushed : pushed[i].session = v => ~Turning(v, pushed[i].packet))
              => ClosingLast(v)'
         /\ /\ \A p \in Coming(v) : ~Closing(v, p)
            /\ \A i, j \in DOMAIN pushed :
                 i < j /\ pushed[i].session = v /\ pushed[j].session = v
                   /\ Closing(v, pushed[i].packet) => ~Turning(v, pushed[j].packet)
            => ClosingLast(v)'
<1> DEFINE n == Len(sendQueue)
           m == Len(pushed)
<1>1. /\ n \in Nat /\ m \in Nat /\ DOMAIN sendQueue = 1..n /\ DOMAIN pushed = 1..m
      /\ sendQueue \in Seq(Packages)
  BY Sequences, LenProperties
<1>2. /\ DOMAIN sendQueue' = 1..(n + m)
      /\ \A i \in 1..n : sendQueue'[i] = sendQueue[i]
      /\ \A i \in (n + 1)..(n + m) : sendQueue'[i] = pushed[i - n]
  BY <1>1, ConcatProperties, LenProperties
<1> HIDE DEF n, m
<1>3. \A i \in DOMAIN sendQueue' :
        \/ i \in DOMAIN sendQueue /\ sendQueue'[i] = sendQueue[i]
        \/ i > n /\ i - n \in DOMAIN pushed /\ sendQueue'[i] = pushed[i - n]
  BY <1>1, <1>2
<1>4. \A i \in DOMAIN sendQueue : i \in DOMAIN sendQueue' /\ sendQueue'[i] = sendQueue[i]
  BY <1>1, <1>2
<1>5. \A i \in DOMAIN pushed : i + n \in DOMAIN sendQueue' /\ sendQueue'[i + n] = pushed[i]
  BY <1>1, <1>2
<1>6. Arrived(v)' = Arrived(v) /\ Pushed(v) \subseteq Pushed(v)'
  BY <1>4 DEF Arrived, Pushed
<1>7. \A p \in Pushed(v)' :
        p \in Pushed(v) \/ \E i \in DOMAIN pushed : pushed[i].session = v /\ pushed[i].packet = p
  BY <1>3 DEF Pushed
<1>8. \A i \in DOMAIN pushed : pushed[i].session = v => pushed[i].packet \in Pushed(v)'
  BY <1>5 DEF Pushed
<1>9. ASSUME ClosingLast(v), \A i \in DOMAIN pushed : pushed[i].session = v => ~Turning(v, pushed[i].packet)
      PROVE  ClosingLast(v)'
  <2>1. \A q \in Pushed(v)' : q \in Pushed(v) \/ ~Turning(v, q)
    BY <1>7, <1>9
  <2>2. ASSUME NEW i \in DOMAIN sendQueue', NEW j \in DOMAIN sendQueue', i < j,
               sendQueue'[i].session = v, sendQueue'[j].session = v, Closing(v, sendQueue'[i].packet)
        PROVE  ~Turning(v, sendQueue'[j].packet)
    <3>1. i \in DOMAIN sendQueue /\ sendQueue'[i] = sendQueue[i]
      BY <1>3, <1>9, <2>2 DEF Turning
    <3>2. CASE j \in DOMAIN sendQueue /\ sendQueue'[j] = sendQueue[j]
      BY <1>9, <2>2, <3>1, <3>2 DEF ClosingLast
    <3> QED
      BY <1>3, <1>9, <2>2, <3>2
  <2> QED
    BY <1>6, <1>9, <2>1, <2>2 DEF ClosingLast
<1>10. ASSUME \A p \in Coming(v) : ~Closing(v, p),
              \A i, j \in DOMAIN pushed :
                i < j /\ pushed[i].session = v /\ pushed[j].session = v
                  /\ Closing(v, pushed[i].packet) => ~Turning(v, pushed[j].packet)
       PROVE  ClosingLast(v)'
  <2>1. ASSUME NEW i \in DOMAIN sendQueue', NEW j \in DOMAIN sendQueue', i < j,
               sendQueue'[i].session = v, sendQueue'[j].session = v, Closing(v, sendQueue'[i].packet)
        PROVE  ~Turning(v, sendQueue'[j].packet)
    <3>1. ~(i \in DOMAIN sendQueue /\ sendQueue'[i] = sendQueue[i])
      BY <1>10, <2>1 DEF Coming, Pushed
    <3>2. i > n /\ i - n \in DOMAIN pushed /\ sendQueue'[i] = pushed[i - n]
      BY <1>3, <3>1
    <3>3. j \in (n + 1)..(n + m) /\ i - n < j - n
      BY <1>1, <1>2, <2>1, <3>2
    <3>4. j - n \in DOMAIN pushed /\ sendQueue'[j] = pushed[j - n]
      BY <1>1, <1>2, <3>3
    <3> QED
      BY <1>10, <2>1, <3>2, <3>3, <3>4
  <2>2. \A p \in Arrived(v)' : ~Closing(v, p)
    BY <1>6, <1>10 DEF Coming
  <2>3. \A i, j \in DOMAIN toClient'[v] : ~Closing(v, toClient'[v][i])
    BY <2>2 DEF Arrived
  <2> QED
    BY <2>1, <2>2, <2>3 DEF ClosingLast
<1> QED
  BY <1>6, <1>7, <1>8, <1>9, <1>10 DEF Coming

-----------------------------------------------------------------------------
(* Casts.                                                                   *)

\* A seat comes once in the order of a cast.
LEMMA OrderOnce ==
  ASSUME NEW S \in SUBSET (RoomIds \X Users), NEW o \in Orders(S),
         NEW i \in 1..Cardinality(S), NEW j \in 1..Cardinality(S), i < j
  PROVE  o[i] # o[j]
<1>1. o[i] \in RoomIds \X Users /\ o[j] \in RoomIds \X Users /\ Precedes(o[i], o[j])
  BY DEF Orders
<1>2. /\ o[i][1] \in Int /\ o[i][2] \in Users
  BY <1>1, MaxRoomIdAssumption DEF RoomIds
<1>3. Address[o[i][2]] \in Int
  BY <1>2, AddressAssumption
<1> QED
  BY <1>1, <1>2, <1>3 DEF Precedes

\* And every seat comes.
LEMMA OrderAll ==
  ASSUME NEW S \in SUBSET (RoomIds \X Users), NEW o \in Orders(S), NEW s \in S
  PROVE  \E i \in 1..Cardinality(S) : o[i] = s
<1> DEFINE n == Cardinality(S)
           T == {o[i] : i \in 1..n}
<1>1. IsFiniteSet(S) /\ n \in Nat
  <2>1. IsFiniteSet(RoomIds) /\ IsFiniteSet(Users)
    BY FS_Interval, MaxUserIdAssumption, MaxRoomIdAssumption DEF RoomIds, Users
  <2> QED
    BY <2>1, FS_Product, FS_Subset, SeatsFinite
<1>2. o \in [1..n -> S] /\ T \in SUBSET S
  BY DEF Orders
<1>3. o \in [1..n -> T] /\ \A t \in T : \E i \in 1..n : o[i] = t
  BY <1>2
<1>4. \A i, j \in 1..n : o[i] = o[j] => i = j
  <2>1. ASSUME NEW i \in 1..n, NEW j \in 1..n, o[i] = o[j], i # j PROVE FALSE
    <3>1. i < j \/ j < i
      BY <1>1, <2>1
    <3> QED
      BY <2>1, <3>1, OrderOnce
  <2> QED
    BY <2>1
<1> HIDE DEF T, n
<1>5. o \in Bijection(1..n, T)
  BY <1>3, <1>4, Fun_IsBij
<1>6. ExistsBijection(1..n, T)
  BY <1>5 DEF ExistsBijection
<1>7. IsFiniteSet(1..n) /\ Cardinality(1..n) = n
  BY <1>1, FS_Interval
<1>8. Cardinality(T) = n
  BY <1>6, <1>7, FS_Bijection
<1>9. T = S
  BY <1>1, <1>2, <1>8, FS_Subset DEF n
<1> QED
  BY <1>9 DEF T, n

\* A cast of p gives every seat the packet p, and a member of one room one.
LEMMA CastFacts ==
  ASSUME NEW S \in SUBSET (RoomIds \X Users), NEW o \in Orders(S), NEW p \in ServerPackets
  PROVE  /\ Cast(o, p) \in Seq(Packages) /\ DOMAIN Cast(o, p) = 1..Cardinality(S)
         /\ \A i \in DOMAIN Cast(o, p) :
              /\ Cast(o, p)[i].packet = p
              /\ \E s \in S : Cast(o, p)[i].session = s[2]
         /\ \A s \in S : \E i \in DOMAIN Cast(o, p) : Cast(o, p)[i].session = s[2]
         /\ \A r \in RoomIds : S \subseteq {r} \X Users =>
              \A i, j \in DOMAIN Cast(o, p) : i < j => Cast(o, p)[i].session # Cast(o, p)[j].session
<1> DEFINE n == Cardinality(S)
<1>1. o \in [1..n -> S] /\ DOMAIN Cast(o, p) = 1..n
  BY DEF Orders, Cast
<1>2. \A i \in 1..n : Cast(o, p)[i].packet = p /\ Cast(o, p)[i].session = o[i][2] /\ o[i] \in S
  BY <1>1 DEF Cast, Package
<1>3. \A s \in S : \E i \in 1..n : Cast(o, p)[i].session = s[2]
  BY <1>2, OrderAll
<1>4. ASSUME NEW r \in RoomIds, S \subseteq {r} \X Users, NEW i \in 1..n, NEW j \in 1..n, i < j
      PROVE  Cast(o, p)[i].session # Cast(o, p)[j].session
  <2>1. o[i] # o[j] /\ o[i] \in {r} \X Users /\ o[j] \in {r} \X Users
    BY <1>2, <1>4, OrderOnce
  <2>2. o[i][2] # o[j][2]
    BY <2>1
  <2> QED
    BY <1>2, <2>2
<1> QED
  BY <1>1, <1>2, <1>3, <1>4, CastType

-----------------------------------------------------------------------------
(* One user.                                                                *)

\* A step after which a user's page, room and requests are what they were, some
\* requests and packets gone; what is pushed for the user turns no page, or is
\* another's entrance in its room.
LEMMA QuietUser ==
  ASSUME NEW v \in Users, UserInv(v),
         clientState'[v] = clientState[v], v \in waiting' <=> v \in waiting,
         IsInLobby(v)' <=> IsInLobby(v),
         Connected(v) /\ v \in recvPending => v \in recvPending',
         Going(v)' \subseteq Going(v), FinalLast(v) => FinalLast(v)', ClosingLast(v) => ClosingLast(v)',
         \A p \in Coming(v)' : p \in Coming(v) \/ ~Turning(v, p) \/ (Opening(p) /\ ~IsInLobby(v)),
         ~Coalescing /\ ~Fits(v) => \A p \in Coming(v) :
           (IF IsInLobby(v) THEN Closing(v, p) ELSE Opening(p)) => p \in Coming(v)'
  PROVE  UserInv(v)'
<1>1. Requests(v)'
  BY DEF UserInv, Requests
<1>2. Fits(v)' <=> Fits(v)
  BY DEF Fits
<1>3. ASSUME Connected(v)' PROVE Page(v)'
  <2>1. Connected(v)
    BY <1>3 DEF Connected
  <2>2. /\ v \in recvPending'
        /\ \A p \in Going(v)' : p.type \in Kinds[clientState[v]] /\ (Asks(p) => v \in waiting')
        /\ ClosingLast(v)'
    BY <2>1 DEF UserInv, Page
  <2>3. ~Fits(v)' => v \in waiting' /\ Going(v)' = {} /\ clientState'[v] \in {"LOBBY", "CHATROOM"}
    BY <1>2, <2>1 DEF UserInv, Page
  <2>4. IsInLobby(v) /\ clientState[v] # "CHATROOM" => \A p \in Coming(v)' : ~Opening(p)
    BY <2>1 DEF UserInv, Page, Turning
  <2>5. ASSUME NEW p \in Coming(v)', Closing(v, p)
        PROVE  IsInLobby(v) /\ Going(v)' = {} /\ clientState[v] \in {"PENDING", "CHATROOM"}
    <3>1. p \in Coming(v)
      <4>1. ~Opening(p)
        BY <2>5 DEF Opening, Closing
      <4> QED
        BY <2>5, <4>1 DEF Turning
    <3> QED
      BY <2>1, <2>5, <3>1 DEF UserInv, Page
  <2> QED
    BY <2>2, <2>3, <2>4, <2>5 DEF Page
<1>4. Answered(v)'
  <2>1. Connected(v)' => Connected(v)
    BY DEF Connected
  <2> QED
    BY <1>2, <2>1 DEF UserInv, Answered
<1> QED
  BY <1>1, <1>3, <1>4 DEF UserInv, Page

\* A step after which nobody is at the user's client.
LEMMA GoneUser ==
  ASSUME NEW v \in Users, UserInv(v), ~Connected(v)', IsInLobby(v)' <=> IsInLobby(v),
         Going(v)' \subseteq Going(v), FinalLast(v) => FinalLast(v)'
  PROVE  UserInv(v)'
  BY DEF UserInv, Requests, Page, Answered

\* Nothing of the user is touched.
LEMMA SameUser ==
  ASSUME NEW v \in Users, UserInv(v),
         UNCHANGED <<clientState[v], currRoom[v], toServer[v], toClient[v], jobQueue, sendQueue>>,
         v \in waiting' <=> v \in waiting, v \in recvPending => v \in recvPending'
  PROVE  UserInv(v)'
<1>1. Stream(v)' = Stream(v) /\ Queued(v)' = Queued(v) /\ Arrived(v)' = Arrived(v) /\ Pushed(v)' = Pushed(v)
  BY DEF Stream, Queued, Arrived, Pushed
<1>2. Going(v)' = Going(v) /\ Coming(v)' = Coming(v) /\ (FinalLast(v) => FinalLast(v)')
      /\ (ClosingLast(v) => ClosingLast(v)')
  BY <1>1 DEF Going, Coming, FinalLast, ClosingLast
<1>3. IsInLobby(v)' <=> IsInLobby(v)
  BY DEF IsInLobby
<1> QED
  BY <1>2, <1>3, QuietUser

-----------------------------------------------------------------------------
(* The client's steps.                                                      *)

\* A step of the client of u, of which the other clients know nothing.
Alone(u) ==
  /\ UNCHANGED vars
  /\ \A v \in Users : v # u =>
       /\ UNCHANGED <<clientState[v], toServer[v], toClient[v], shownRooms[v]>>
       /\ v \in waiting' <=> v \in waiting

\* What a step of the client of u has to show.
LEMMA ClientKeeps ==
  ASSUME Inv, NEW u \in Users, Alone(u), Connected(u), u \in userList => UserInv(u)',
         shownRooms'[u] \subseteq roomList,
         \A p \in Coming(u)' : p.type = "S_LOBBY_ROOM_INFO" => p.roomId \subseteq roomList,
         \A p \in Going(u)' : p.type = "C_ROOM_ENTER" => p.rid \in roomList
  PROVE  Rest'
<1>1. /\ UNCHANGED <<userList, userId, currRoom, roomList, users, recvPending, jobQueue, sendQueue, fault>>
      /\ Rest
  BY DEF Alone, vars, userVars, roomVars, Inv
<1>2. MembershipExact' /\ HandlersFindTheirRooms'
  BY <1>1 DEF Rest, MembershipExact, HandlersFindTheirRooms
<1>3. ASSUME NEW v \in Users, v # u PROVE Going(v)' = Going(v) /\ Coming(v)' = Coming(v)
  BY <1>1, <1>3 DEF Alone, Going, Stream, Queued, Coming, Arrived, Pushed
<1>4. RoomsKnown'
  BY <1>1, <1>3 DEF Rest, RoomsKnown, Alone
<1>5. u < userId
  <2>1. ~(u >= userId)
    BY <1>1 DEF Rest, Unborn, Connected
  <2> QED
    BY <2>1 DEF Inv, SysTypeOK, TypeOK, Users
<1>6. Unborn'
  <2>1. ~(u >= userId)
    BY <1>1 DEF Rest, Unborn, Connected
  <2> QED
    BY <1>1, <1>3, <2>1 DEF Rest, Unborn, Alone
<1>7. ASSUME NEW v \in userList PROVE UserInv(v)'
  <2>1. v \in Users /\ UserInv(v)
    BY <1>1 DEF Rest, Inv, SysTypeOK, TypeOK
  <2>2. CASE v # u
    BY <1>1, <2>1, <2>2, SameUser DEF Alone
  <2> QED
    BY <2>2
<1> QED
  BY <1>1, <1>2, <1>4, <1>6, <1>7 DEF Rest

\* What Inv says of one user.
LEMMA UserFacts ==
  ASSUME Inv, NEW u \in Users
  PROVE  /\ u \in userList => UserInv(u)
         /\ shownRooms[u] \subseteq roomList /\ roomList \in SUBSET RoomIds
         /\ \A p \in Coming(u) : p.type = "S_LOBBY_ROOM_INFO" => p.roomId \subseteq roomList
         /\ \A p \in Going(u) : p.type = "C_ROOM_ENTER" => p.rid \in roomList
         /\ SysTypeOK
  BY DEF Inv, Rest, RoomsKnown, SysTypeOK, TypeOK

\* A client's user acts on a page that fits: the packet joins what is under way.
LEMMA ActKeeps ==
  ASSUME Inv, NEW u \in Users, NEW s \in {"LOGIN", "LOBBY", "CHATROOM"}, NEW p \in ClientPackets, Act(u, s, p),
         NEW to \in {"PENDING", "LOBBY", "CHATROOM"},
         clientState' = [clientState EXCEPT ![u] = to], to = IF s = "LOGIN" THEN "PENDING" ELSE s,
         waiting' = IF Asks(p) THEN waiting \cup {u} ELSE waiting,
         p.type \in Kinds[to], p.type = "C_ROOM_ENTER" => p.rid \in roomList
  PROVE  Rest'
<1>1. /\ UNCHANGED vars /\ UNCHANGED <<toClient, shownRooms, shownUsers, miscast>>
      /\ clientState[u] = s /\ u \notin waiting
      /\ toServer' = [toServer EXCEPT ![u] = Append(@, p)]
  BY DEF Act
<1>2. UNCHANGED <<userList, userId, currRoom, roomList, users, recvPending, jobQueue, sendQueue, fault>>
  BY <1>1 DEF vars, userVars, roomVars
<1>3. SysTypeOK /\ clientState'[u] = to /\ \A v \in Users : v # u => clientState'[v] = clientState[v]
  BY <1>1 DEF Inv, SysTypeOK
<1>4. Alone(u) /\ Connected(u) /\ Connected(u)'
  BY <1>1, <1>3 DEF Alone, Connected, SysTypeOK
<1>5. Going(u)' = Going(u) \cup {p} /\ ((\A q \in Going(u) : ~Final(q)) => FinalLast(u)')
  BY <1>1, <1>2, <1>3, ClientSends
<1>6. Coming(u)' = Coming(u) /\ (ClosingLast(u) => ClosingLast(u)')
  BY <1>1, <1>2 DEF Coming, Arrived, Pushed, ClosingLast
<1>7. ASSUME u \in userList PROVE UserInv(u)'
  <2>1. /\ u \in recvPending /\ ClosingLast(u) /\ Fits(u)
        /\ \A q \in Going(u) : q.type \in Kinds[s] /\ ~Asks(q)
        /\ IsInLobby(u) /\ s # "CHATROOM" => \A q \in Coming(u) : ~Opening(q)
        /\ (\E q \in Coming(u) : Closing(u, q)) => IsInLobby(u) /\ s \in {"PENDING", "CHATROOM"}
    BY <1>1, <1>4, <1>7, UserFacts DEF UserInv, Page
  <2>2. IsInLobby(u) <=> s # "CHATROOM"
    BY <1>1, <2>1 DEF Fits
  <2>3. \A q \in Going(u) : ~Final(q)
    BY <2>1 DEF Final, Kinds
  <2>4. \A q \in Coming(u) : ~Closing(u, q)
    BY <2>1, <2>2
  <2>5. (IsInLobby(u) <=> IsInLobby(u)') /\ Fits(u)'
    BY <1>2, <1>3, <2>2 DEF IsInLobby, Fits
  <2>6. Requests(u)'
    <3>1. p.type = "C_ROOM_ENTER" => IsInLobby(u)
      BY <2>2 DEF Kinds
    <3>2. p.type \in {"C_ROOM_EXIT", "C_MULTICAST"} => ~IsInLobby(u)
      BY <2>2 DEF Kinds
    <3> QED
      BY <1>5, <1>7, <2>3, <2>5, <3>1, <3>2, UserFacts DEF UserInv, Requests
  <2>7. \A q \in Going(u)' : q.type \in Kinds[to] /\ (Asks(q) => u \in waiting')
    <3>1. \A q \in Going(u) : q.type \in Kinds[to]
      BY <2>1 DEF Kinds
    <3> QED
      BY <1>5, <2>1, <3>1
  <2>8. Page(u)'
    BY <1>2, <1>3, <1>6, <2>1, <2>2, <2>4, <2>5, <2>7 DEF Page
  <2>9. Answered(u)'
    BY <2>5 DEF Answered
  <2> QED
    BY <2>6, <2>8, <2>9 DEF UserInv
<1> QED
  BY <1>1, <1>2, <1>4, <1>5, <1>6, <1>7, UserFacts, ClientKeeps

\* The nickname.
LEMMA SendNicknameKeeps == ASSUME Inv, NEW u \in Users, SendNickname(u) PROVE Rest'
<1>1. PICK n \in Nicknames : Act(u, "LOGIN", [type |-> "C_SERVER_ENTER", nickname |-> n])
  BY DEF SendNickname
<1>2. clientState' = [clientState EXCEPT ![u] = "PENDING"] /\ waiting' = waiting
  BY DEF SendNickname
<1> DEFINE p == [type |-> "C_SERVER_ENTER", nickname |-> n]
<1>3. p \in ClientPackets /\ ~Asks(p) /\ p.type = "C_SERVER_ENTER" /\ "C_SERVER_ENTER" \in Kinds["PENDING"]
  BY DEF ClientPackets, Asks, Kinds
<1> HIDE DEF p
<1> QED
  BY <1>1, <1>2, <1>3, ActKeeps DEF p

\* The lobby.
LEMMA LobbyPageKeeps == ASSUME Inv, NEW u \in Users, LobbyPage(u) PROVE Rest'
<1>1. clientState[u] = "LOBBY" => clientState' = [clientState EXCEPT ![u] = "LOBBY"]
  BY DEF LobbyPage, Inv, SysTypeOK
<1>2. CASE Act(u, "LOBBY", [type |-> "C_ROOM_CREATE"]) /\ UNCHANGED waiting
  <2> DEFINE p == [type |-> "C_ROOM_CREATE"]
  <2>1. p \in ClientPackets /\ ~Asks(p) /\ p.type = "C_ROOM_CREATE" /\ p.type \in Kinds["LOBBY"]
    BY DEF ClientPackets, Asks, Kinds
  <2>2. clientState[u] = "LOBBY" /\ Act(u, "LOBBY", p)
    BY <1>2 DEF Act
  <2> HIDE DEF p
  <2> QED
    BY <1>1, <1>2, <2>1, <2>2, ActKeeps
<1>3. ASSUME NEW selected \in Selections(u), selected # 0, waiting' = waiting \cup {u},
             Act(u, "LOBBY", [type |-> "C_ROOM_ENTER", rid |-> selected])
      PROVE  Rest'
  <2> DEFINE p == [type |-> "C_ROOM_ENTER", rid |-> selected]
  <2>1. selected \in roomList /\ selected \in RoomIds
    BY <1>3, UserFacts DEF Selections
  <2>2. p \in ClientPackets /\ Asks(p) /\ p.type = "C_ROOM_ENTER" /\ p.type \in Kinds["LOBBY"] /\ p.rid \in roomList
    BY <2>1 DEF ClientPackets, Asks, Kinds
  <2>3. clientState[u] = "LOBBY" /\ Act(u, "LOBBY", p)
    BY <1>3 DEF Act
  <2> HIDE DEF p
  <2> QED
    BY <1>1, <1>3, <2>2, <2>3, ActKeeps
<1> QED
  BY <1>2, <1>3 DEF LobbyPage

\* The room.
LEMMA ChatRoomPageKeeps == ASSUME Inv, NEW u \in Users, ChatRoomPage(u) PROVE Rest'
<1>1. clientState[u] = "CHATROOM" => clientState' = [clientState EXCEPT ![u] = "CHATROOM"]
  BY DEF ChatRoomPage, Inv, SysTypeOK
<1>2. ASSUME NEW p \in ClientPackets, p.type \in Speech, Act(u, "CHATROOM", p), waiting' = waiting
      PROVE  Rest'
  <2>1. p.type \in {"C_UNICAST", "C_MULTICAST", "C_BROADCAST"}
    BY <1>2, ChatSystemAssumption
  <2>2. ~Asks(p) /\ p.type # "C_ROOM_ENTER" /\ p.type \in Kinds["CHATROOM"] /\ clientState[u] = "CHATROOM"
    BY <1>2, <2>1 DEF Asks, Kinds, Act
  <2> QED
    BY <1>1, <1>2, <2>2, ActKeeps
<1>3. ASSUME NEW t \in {"C_ROOM_EXIT", "C_SERVER_EXIT"}, Act(u, "CHATROOM", [type |-> t]),
             waiting' = waiting \cup {u}
      PROVE  Rest'
  <2> DEFINE p == [type |-> t]
  <2>1. p \in ClientPackets /\ Asks(p) /\ p.type # "C_ROOM_ENTER" /\ p.type \in Kinds["CHATROOM"]
    BY DEF ClientPackets, Asks, Kinds
  <2>2. clientState[u] = "CHATROOM" /\ Act(u, "CHATROOM", p)
    BY <1>3 DEF Act
  <2> HIDE DEF p
  <2> QED
    BY <1>1, <1>3, <2>1, <2>2, ActKeeps
<1> QED
  BY <1>2, <1>3 DEF ChatRoomPage

\* A client leaves.
LEMMA LeavingKeeps ==
  ASSUME Inv, NEW u \in Users, Connected(u), UNCHANGED <<vars, toServer>>,
         clientState' = [clientState EXCEPT ![u] = "GONE"], waiting' = waiting \ {u},
         shownRooms' = [shownRooms EXCEPT ![u] = {}], toClient' = [toClient EXCEPT ![u] = <<>>]
  PROVE  Rest'
<1>1. UNCHANGED <<userList, userId, currRoom, roomList, users, recvPending, jobQueue, sendQueue, fault>>
  BY DEF vars, userVars, roomVars
<1>2. /\ SysTypeOK /\ clientState'[u] = "GONE" /\ shownRooms'[u] = {} /\ toClient'[u] = <<>>
      /\ \A v \in Users : v # u => UNCHANGED <<clientState[v], shownRooms[v], toClient[v], toServer[v]>>
      /\ \A v \in Users : v # u => (v \in waiting' <=> v \in waiting)
  BY DEF Inv, SysTypeOK
<1>3. Alone(u)
  BY <1>2 DEF Alone
<1>4. Going(u)' = Going(u) /\ (FinalLast(u) => FinalLast(u)')
  BY <1>1 DEF Going, Stream, Queued, FinalLast
<1>5. Coming(u)' \subseteq Coming(u)
  BY <1>1, <1>2 DEF Coming, Arrived, Pushed
<1>6. ASSUME u \in userList PROVE UserInv(u)'
  <2>1. ~Connected(u)' /\ (IsInLobby(u)' <=> IsInLobby(u))
    BY <1>1, <1>2 DEF Connected, IsInLobby
  <2> QED
    BY <1>4, <1>6, <2>1, UserFacts, GoneUser
<1> QED
  BY <1>2, <1>3, <1>4, <1>5, <1>6, UserFacts, ClientKeeps

\* What a receive does.
LEMMA ReceiveFacts ==
  ASSUME Inv, NEW u \in Users, NEW s \in ClientStates, Receive(u, s)
  PROVE  /\ Connected(u) /\ UNCHANGED vars /\ clientState'[u] = s
         /\ \A v \in Users : v # u =>
              UNCHANGED <<clientState[v], toClient[v]>> /\ (v \in waiting' <=> v \in waiting)
         /\ u \in waiting' <=> u \in waiting /\ s = clientState[u]
         /\ Received(u) \in Coming(u) /\ Received(u) \in ServerPackets
         /\ Coming(u)' \subseteq Coming(u) /\ (ClosingLast(u) => ClosingLast(u)')
         /\ ~Coalescing => Coming(u) \subseteq Coming(u)' \cup {Received(u)}
         /\ ClosingLast(u) /\ Closing(u, Received(u)) => \A q \in Coming(u)' : ~Turning(u, q)
<1>1. SysTypeOK /\ toClient[u] # <<>> /\ UNCHANGED sendQueue
  BY DEF Inv, Receive, vars
<1>2. PICK k \in 1..(IF Coalescing THEN Len(toClient[u]) ELSE 1) :
        toClient' = [toClient EXCEPT ![u] = SubSeq(@, k + 1, Len(@))]
  BY DEF Receive
<1>3. k \in 1..Len(toClient[u]) /\ (~Coalescing => k = 1)
  BY <1>1, <1>2, Sequences, EmptySeq
<1>4. clientState' = [clientState EXCEPT ![u] = s]
      /\ waiting' = (IF s = clientState[u] THEN waiting ELSE waiting \ {u})
      /\ Connected(u) /\ UNCHANGED vars
  BY DEF Receive
<1>5. clientState'[u] = s /\ \A v \in Users : v # u => UNCHANGED <<clientState[v], toClient[v]>>
  BY <1>1, <1>2, <1>4 DEF SysTypeOK
<1> QED
  BY <1>1, <1>2, <1>3, <1>4, <1>5, ClientReceives

\* What a client's handler has to show.
LEMMA ReceiveKeeps ==
  ASSUME Inv, NEW u \in Users, NEW s \in ClientStates, Receive(u, s),
         toServer' \in {toServer, [toServer EXCEPT ![u] = Append(@, [type |-> "C_LOBBY_ROOM_INFO"])]},
         \A v \in Users : v # u => shownRooms'[v] = shownRooms[v], shownRooms'[u] \subseteq roomList,
         u \in userList => UserInv(u)'
  PROVE  Rest'
<1> DEFINE ask == [type |-> "C_LOBBY_ROOM_INFO"]
<1>1. UNCHANGED jobQueue /\ SysTypeOK /\ ask \in ClientPackets /\ ask.type = "C_LOBBY_ROOM_INFO"
  BY ReceiveFacts DEF vars, Inv, ClientPackets
<1> HIDE DEF ask
<1>2. Going(u)' \subseteq Going(u) \cup {ask}
  <2>1. CASE toServer' = toServer
    BY <1>1, <2>1 DEF Going, Stream, Queued
  <2>2. CASE toServer' = [toServer EXCEPT ![u] = Append(@, ask)]
    BY <1>1, <2>2, ClientSends
  <2> QED
    BY <2>1, <2>2 DEF ask
<1>3. \A v \in Users : v # u => toServer'[v] = toServer[v]
  BY <1>1 DEF SysTypeOK
<1>4. Alone(u)
  BY <1>3, ReceiveFacts DEF Alone
<1>5. \A p \in Coming(u)' : p.type = "S_LOBBY_ROOM_INFO" => p.roomId \subseteq roomList
  BY ReceiveFacts, UserFacts
<1>6. \A p \in Going(u)' : p.type = "C_ROOM_ENTER" => p.rid \in roomList
  BY <1>1, <1>2, UserFacts
<1> QED
  BY <1>4, <1>5, <1>6, ReceiveFacts, ClientKeeps

\* The page stays, and the packet does not close it.
LEMMA SamePage ==
  ASSUME Inv, NEW u \in userList, clientState[u] \in ClientStates, Receive(u, clientState[u]), UNCHANGED toServer,
         ~Closing(u, Received(u)), Opening(Received(u)) => clientState[u] = "CHATROOM"
  PROVE  UserInv(u)'
<1>1. u \in Users /\ UserInv(u) /\ UNCHANGED <<currRoom, recvPending, jobQueue, toServer>>
  BY UserFacts, ReceiveFacts DEF vars, userVars, Inv, SysTypeOK, TypeOK
<1>2. /\ clientState'[u] = clientState[u] /\ (u \in waiting' <=> u \in waiting)
      /\ Coming(u)' \subseteq Coming(u) /\ (ClosingLast(u) => ClosingLast(u)')
      /\ ~Coalescing => Coming(u) \subseteq Coming(u)' \cup {Received(u)}
  BY <1>1, ReceiveFacts
<1>3. Going(u)' = Going(u) /\ (FinalLast(u) => FinalLast(u)') /\ (IsInLobby(u)' <=> IsInLobby(u))
  BY <1>1 DEF Going, Stream, Queued, FinalLast, IsInLobby
<1>4. ~Coalescing /\ ~Fits(u) => \A p \in Coming(u) :
        (IF IsInLobby(u) THEN Closing(u, p) ELSE Opening(p)) => p \in Coming(u)'
  BY <1>2 DEF Fits
<1> QED
  BY <1>1, <1>2, <1>3, <1>4, QuietUser

\* One's own exit or entrance into the server opens the lobby's page, which fits.
LEMMA ToLobby ==
  ASSUME Inv, NEW u \in userList, Receive(u, "LOBBY"), Closing(u, Received(u)),
         toServer' \in {toServer, [toServer EXCEPT ![u] = Append(@, [type |-> "C_LOBBY_ROOM_INFO"])]}
  PROVE  UserInv(u)'
<1> DEFINE ask == [type |-> "C_LOBBY_ROOM_INFO"]
<1>1. /\ u \in Users /\ UserInv(u) /\ SysTypeOK /\ "LOBBY" \in ClientStates
      /\ UNCHANGED <<currRoom, recvPending, jobQueue>>
  BY UserFacts, ReceiveFacts DEF vars, userVars, Inv, SysTypeOK, TypeOK, ClientStates
<1>2. /\ clientState'[u] = "LOBBY" /\ Connected(u)
      /\ \A q \in Coming(u)' : ~Turning(u, q)
      /\ ClosingLast(u)' /\ Received(u) \in Coming(u)
  BY <1>1, ReceiveFacts DEF UserInv, Page
<1>3. IsInLobby(u) /\ IsInLobby(u)' /\ Going(u) = {} /\ FinalLast(u) /\ u \in recvPending'
  BY <1>1, <1>2 DEF UserInv, Page, Requests, IsInLobby
<1>4. ask \in ClientPackets /\ ask.type = "C_LOBBY_ROOM_INFO" /\ ~Asks(ask)
  BY DEF ClientPackets, Asks
<1> HIDE DEF ask
<1>5. Going(u)' \subseteq {ask} /\ FinalLast(u)'
  <2>1. CASE toServer' = toServer
    BY <1>1, <1>3, <2>1 DEF Going, Stream, Queued, FinalLast
  <2>2. CASE toServer' = [toServer EXCEPT ![u] = Append(@, ask)]
    BY <1>1, <1>3, <1>4, <2>2, ClientSends
  <2> QED
    BY <2>1, <2>2 DEF ask
<1>6. Requests(u)'
  BY <1>3, <1>4, <1>5 DEF Requests
<1>7. Page(u)'
  BY <1>2, <1>3, <1>4, <1>5 DEF Page, Turning, Fits, Kinds
<1>8. Answered(u)'
  BY <1>2, <1>3 DEF Answered, Fits
<1> QED
  BY <1>6, <1>7, <1>8 DEF UserInv

\* The first entrance received in the lobby opens the room's page, which fits.
LEMMA ToRoom ==
  ASSUME Inv, NEW u \in userList, clientState[u] = "LOBBY", Receive(u, "CHATROOM"), Opening(Received(u)),
         UNCHANGED toServer
  PROVE  UserInv(u)'
<1>1. /\ u \in Users /\ UserInv(u) /\ "CHATROOM" \in ClientStates
      /\ UNCHANGED <<currRoom, recvPending, jobQueue, toServer>>
  BY UserFacts, ReceiveFacts DEF vars, userVars, Inv, SysTypeOK, TypeOK, ClientStates
<1>2. /\ clientState'[u] = "CHATROOM" /\ Connected(u)
      /\ Coming(u)' \subseteq Coming(u) /\ (ClosingLast(u) => ClosingLast(u)')
      /\ Received(u) \in Coming(u)
  BY <1>1, ReceiveFacts
<1>3. ~IsInLobby(u) /\ ~IsInLobby(u)' /\ Going(u) = {} /\ u \in recvPending' /\ ClosingLast(u)'
  BY <1>1, <1>2 DEF UserInv, Page, Fits, IsInLobby
<1>4. Going(u)' = {} /\ (FinalLast(u) => FinalLast(u)')
  BY <1>1, <1>3 DEF Going, Stream, Queued, FinalLast
<1>5. \A p \in Coming(u)' : ~Closing(u, p)
  BY <1>1, <1>2, <1>3 DEF UserInv, Page
<1>6. Requests(u)'
  BY <1>1, <1>4 DEF UserInv, Requests
<1>7. Page(u)'
  BY <1>2, <1>3, <1>4, <1>5 DEF Page, Fits
<1>8. Answered(u)'
  BY <1>2, <1>3 DEF Answered, Fits
<1> QED
  BY <1>6, <1>7, <1>8 DEF UserInv

\* Every handler of the client.
LEMMA LogicThreadKeeps == ASSUME Inv, NEW u \in Users, LogicThread(u) PROVE Rest'
<1>1. /\ shownRooms \in [Users -> SUBSET RoomIds] /\ clientState[u] \in ClientStates
      /\ {"LOBBY", "CHATROOM"} \subseteq ClientStates /\ shownRooms[u] \subseteq roomList
  BY UserFacts DEF SysTypeOK, ClientStates
<1>2. CASE F_SERVER_ENTER_OK(u)
  <2>1. /\ Receive(u, "LOBBY") /\ Closing(u, Received(u)) /\ UNCHANGED shownRooms
        /\ toServer' = [toServer EXCEPT ![u] = Append(@, [type |-> "C_LOBBY_ROOM_INFO"])]
    BY <1>2 DEF F_SERVER_ENTER_OK, Closing
  <2> QED
    BY <1>1, <2>1, ToLobby, ReceiveKeeps
<1>3. CASE F_LOBBY_ROOM_INFO(u)
  <2>1. /\ Receive(u, clientState[u]) /\ ~Turning(u, Received(u)) /\ UNCHANGED toServer
        /\ Received(u).type = "S_LOBBY_ROOM_INFO"
    BY <1>3 DEF F_LOBBY_ROOM_INFO, Turning, Opening, Closing
  <2>2. Received(u).roomId \subseteq roomList
    BY <1>1, <2>1, ReceiveFacts, UserFacts
  <2>3. shownRooms' = [shownRooms EXCEPT ![u] = IF Received(u).roomId = {} THEN @ ELSE Received(u).roomId]
    BY <1>3 DEF F_LOBBY_ROOM_INFO
  <2>4. shownRooms'[u] \subseteq roomList /\ \A v \in Users : v # u => shownRooms'[v] = shownRooms[v]
    BY <1>1, <2>2, <2>3
  <2> QED
    BY <1>1, <2>1, <2>4, SamePage, ReceiveKeeps DEF Turning
<1>4. CASE F_ROOM_ENTER(u)
  <2>1. /\ Receive(u, "CHATROOM") /\ Opening(Received(u)) /\ ~Closing(u, Received(u)) /\ UNCHANGED toServer
        /\ clientState[u] \in {"LOBBY", "CHATROOM"} /\ shownRooms' = [shownRooms EXCEPT ![u] = {}]
    BY <1>4 DEF F_ROOM_ENTER, Opening, Closing
  <2>2. u \in userList => UserInv(u)'
    BY <1>1, <2>1, ToRoom, SamePage
  <2>3. shownRooms'[u] = {} /\ \A v \in Users : v # u => shownRooms'[v] = shownRooms[v]
    BY <1>1, <2>1
  <2> QED
    BY <1>1, <2>1, <2>2, <2>3, ReceiveKeeps
<1>5. CASE F_ROOM_EXIT(u)
  <2>1. UNCHANGED toServer /\ Received(u).type = "S_ROOM_EXIT"
    BY <1>5 DEF F_ROOM_EXIT
  <2>2. CASE Received(u).uid = u /\ Receive(u, "LOBBY") /\ shownRooms' = [shownRooms EXCEPT ![u] = {}]
    <3>1. shownRooms'[u] = {} /\ \A v \in Users : v # u => shownRooms'[v] = shownRooms[v]
      BY <1>1, <2>2
    <3>2. Closing(u, Received(u))
      BY <2>1, <2>2 DEF Closing
    <3> QED
      BY <1>1, <2>1, <2>2, <3>1, <3>2, ToLobby, ReceiveKeeps
  <2>3. CASE /\ Received(u).uid # u /\ clientState[u] = "CHATROOM" /\ Receive(u, "CHATROOM")
             /\ UNCHANGED shownRooms
    <3>1. ~Closing(u, Received(u))
      BY <2>1, <2>3 DEF Closing
    <3> QED
      BY <1>1, <2>1, <2>3, <3>1, SamePage, ReceiveKeeps
  <2> QED
    BY <1>5, <2>2, <2>3 DEF F_ROOM_EXIT
<1>6. CASE F_ROOM_NAME_or_RECV_CAST(u)
  <2>1. /\ Receive(u, "CHATROOM") /\ clientState[u] = "CHATROOM" /\ ~Closing(u, Received(u))
        /\ UNCHANGED <<toServer, shownRooms>>
    BY <1>6 DEF F_ROOM_NAME_or_RECV_CAST, Closing
  <2> QED
    BY <1>1, <2>1, SamePage, ReceiveKeeps
<1>7. CASE Miscast(u)
  BY <1>7, LeavingKeeps DEF Miscast
<1> QED
  BY <1>2, <1>3, <1>4, <1>5, <1>6, <1>7 DEF LogicThread

\* Every step of a client.
LEMMA ClientStepKeeps == ASSUME Inv, NEW u \in Users, ClientStep(u) PROVE Rest'
<1>1. CASE CloseClient(u)
  BY <1>1, LeavingKeeps DEF CloseClient
<1> QED
  BY <1>1, SendNicknameKeeps, LobbyPageKeeps, ChatRoomPageKeeps, LogicThreadKeeps DEF ClientStep

-----------------------------------------------------------------------------
(* The server's steps.                                                      *)

\* A step of the server, at the end of which it pushes packages.
Serves(pushed) ==
  /\ pushed \in Seq(Packages) /\ sendQueue' = sendQueue \o pushed
  /\ UNCHANGED <<clientVars, toClient, userId>>
  /\ userList' \subseteq userList /\ roomList \subseteq roomList'
  /\ \A v \in Users : Going(v)' \subseteq Going(v) /\ (FinalLast(v) => FinalLast(v)')
  /\ \A v \in userList' : Connected(v) /\ v \in recvPending => v \in recvPending'
  /\ \A i \in DOMAIN pushed :
       /\ pushed[i].session < userId
       /\ pushed[i].packet.type = "S_LOBBY_ROOM_INFO" => pushed[i].packet.roomId \subseteq roomList'

\* A user that is where it was and gets no answer from the step.
LEMMA OtherUser ==
  ASSUME Inv, NEW pushed, Serves(pushed), NEW v \in userList', IsInLobby(v)' <=> IsInLobby(v),
         \A i \in DOMAIN pushed : pushed[i].session = v =>
           ~Closing(v, pushed[i].packet) /\ (Opening(pushed[i].packet) => ~IsInLobby(v))
  PROVE  UserInv(v)'
<1>1. v \in userList /\ v \in Users /\ UserInv(v) /\ SysTypeOK
  BY UserFacts DEF Serves, Inv, SysTypeOK, TypeOK
<1>2. /\ clientState' = clientState /\ waiting' = waiting /\ toClient' = toClient
      /\ Going(v)' \subseteq Going(v) /\ (FinalLast(v) => FinalLast(v)')
      /\ Connected(v) /\ v \in recvPending => v \in recvPending'
  BY <1>1 DEF Serves, clientVars
<1>3. CASE ~Connected(v)
  <2>1. ~Connected(v)'
    BY <1>2, <1>3 DEF Connected
  <2> QED
    BY <1>1, <1>2, <2>1, GoneUser
<1>4. CASE Connected(v)
  <2>1. /\ Coming(v) \subseteq Coming(v)'
        /\ \A p \in Coming(v)' :
             p \in Coming(v) \/ \E i \in DOMAIN pushed : pushed[i].session = v /\ pushed[i].packet = p
    BY <1>1, PushPackages DEF Serves, clientVars
  <2>2. \A p \in Coming(v)' : p \in Coming(v) \/ ~Turning(v, p) \/ (Opening(p) /\ ~IsInLobby(v))
    BY <2>1 DEF Turning
  <2>3. ClosingLast(v)'
    <3>1. CASE IsInLobby(v)
      <4>1. \A i \in DOMAIN pushed : pushed[i].session = v => ~Turning(v, pushed[i].packet)
        BY <3>1 DEF Turning
      <4> QED
        BY <1>1, <1>4, <4>1, PushPackages DEF Serves, clientVars, UserInv, Page
    <3>2. CASE ~IsInLobby(v)
      <4>1. \A p \in Coming(v) : ~Closing(v, p)
        BY <1>1, <1>4, <3>2 DEF UserInv, Page
      <4> QED
        BY <1>1, <4>1, PushPackages DEF Serves, clientVars
    <3> QED
      BY <3>1, <3>2
  <2> QED
    BY <1>1, <1>2, <2>1, <2>2, <2>3, QuietUser
<1> QED
  BY <1>3, <1>4

\* What a step of the server has to show.
LEMMA ServerKeeps ==
  ASSUME Inv, NEW pushed, Serves(pushed), MembershipExact', HandlersFindTheirRooms',
         \A v \in userList' : UserInv(v)'
  PROVE  Rest'
<1>1. Rest /\ SysTypeOK
  BY DEF Inv
<1>2. ASSUME NEW v \in Users
      PROVE  /\ Going(v)' \subseteq Going(v)
             /\ \A p \in Coming(v)' :
                  p \in Coming(v) \/ \E i \in DOMAIN pushed : pushed[i].session = v /\ pushed[i].packet = p
  BY <1>1, PushPackages DEF Serves, clientVars
<1>3. RoomsKnown'
  <2>1. roomList \subseteq roomList' /\ UNCHANGED shownRooms
    BY DEF Serves, clientVars
  <2>2. ASSUME NEW v \in Users, NEW p \in Coming(v)', p.type = "S_LOBBY_ROOM_INFO"
        PROVE  p.roomId \subseteq roomList'
    BY <1>1, <1>2, <2>1, <2>2 DEF Rest, RoomsKnown, Serves
  <2>3. ASSUME NEW v \in Users, NEW p \in Going(v)', p.type = "C_ROOM_ENTER"
        PROVE  p.rid \in roomList'
    BY <1>1, <1>2, <2>1, <2>3 DEF Rest, RoomsKnown
  <2> QED
    BY <1>1, <2>1, <2>2, <2>3 DEF Rest, RoomsKnown
<1>4. Unborn'
  <2>1. userId' = userId /\ userId \in Int /\ UNCHANGED clientState /\ userList' \subseteq userList
    BY <1>1 DEF Serves, clientVars, SysTypeOK, TypeOK
  <2>2. ASSUME NEW v \in Users, v >= userId
        PROVE  v \notin userList /\ clientState[v] = "ABSENT" /\ Going(v)' = {} /\ Coming(v)' = {}
    <3>1. \A i \in DOMAIN pushed : pushed[i].session # v
      BY <2>1, <2>2 DEF Serves, Users
    <3> QED
      BY <1>1, <1>2, <2>2, <3>1 DEF Rest, Unborn
  <2> QED
    BY <2>1, <2>2 DEF Unborn
<1> QED
  BY <1>3, <1>4 DEF Rest

\* A step that moves nobody and turns nobody's page.
LEMMA QuietServer ==
  ASSUME Inv, NEW pushed, Serves(pushed), UNCHANGED <<userList, currRoom, users>>, HandlersFindTheirRooms',
         \A i \in DOMAIN pushed : ~Turning(pushed[i].session, pushed[i].packet)
  PROVE  Rest'
<1>1. MembershipExact'
  BY DEF Inv, Rest, MembershipExact
<1>2. ASSUME NEW v \in userList' PROVE UserInv(v)'
  <2>1. IsInLobby(v)' <=> IsInLobby(v)
    BY DEF IsInLobby
  <2>2. \A i \in DOMAIN pushed : pushed[i].session = v =>
          ~Closing(v, pushed[i].packet) /\ ~Opening(pushed[i].packet)
    BY DEF Turning
  <2> QED
    BY <2>1, <2>2, OtherUser
<1> QED
  BY <1>1, <1>2, ServerKeeps

\* A step that pushes nothing, moves nobody and loses at most a receive of a
\* client that is not there.
LEMMA IdleServer ==
  ASSUME Inv, UNCHANGED <<clientVars, toClient, userId, userList, currRoom, users, roomList, sendQueue>>,
         HandlersFindTheirRooms',
         \A v \in Users : Going(v)' \subseteq Going(v) /\ (FinalLast(v) => FinalLast(v)'),
         \A v \in userList : Connected(v) /\ v \in recvPending => v \in recvPending'
  PROVE  Rest'
<1>1. << >> \in Seq(Packages) /\ sendQueue' = sendQueue \o << >> /\ DOMAIN << >> = {}
  BY EmptySeq, ConcatEmptySeq DEF Inv, SysTypeOK, TypeOK
<1> DEFINE none == << >>
<1>2. none \in Seq(Packages) /\ sendQueue' = sendQueue \o none /\ DOMAIN none = {}
  BY <1>1
<1> HIDE DEF none
<1>3. Serves(none)
  BY <1>2 DEF Serves
<1> QED
  BY <1>2, <1>3, QuietServer

\* The handlers' loops meet nobody deleted.
LEMMA NobodyDeleted ==
  ASSUME Inv, NEW R \in SUBSET RoomIds
  PROVE  ~MeetsDeleted(R)
BY DEF Inv, Rest, MembershipExact, MeetsDeleted

\* A worker's receive.
LEMMA RecvCompletionKeeps == ASSUME Inv, NEW u \in Users, SysRecvCompletion(u) PROVE Rest'
<1>1. /\ UNCHANGED <<clientVars, toClient, userId, userList, currRoom, users, roomList, sendQueue, fault>>
      /\ toServer[u] # <<>>
      /\ jobQueue' = Append(jobQueue, [session |-> u, packet |-> Head(toServer[u])])
      /\ recvPending' = recvPending \/ (recvPending' = recvPending \ {u} /\ clientState[u] = "GONE")
  BY DEF SysRecvCompletion, RecvCompletion, userVars, roomVars
<1>2. PICK k \in 1..(IF Coalescing THEN Len(toServer[u]) ELSE 1) :
        toServer' = [toServer EXCEPT ![u] = SubSeq(@, k + 1, Len(@))]
  BY DEF SysRecvCompletion
<1>3. k \in 1..Len(toServer[u]) /\ SysTypeOK
  BY <1>1, <1>2, Sequences, EmptySeq DEF Inv
<1>4. \A v \in Users : Going(v)' \subseteq Going(v) /\ (FinalLast(v) => FinalLast(v)')
  BY <1>1, <1>2, <1>3, PassJob
<1>5. \A v \in userList : Connected(v) /\ v \in recvPending => v \in recvPending'
  BY <1>1 DEF Connected
<1>6. HandlersFindTheirRooms'
  BY <1>1 DEF Inv, Rest, HandlersFindTheirRooms
<1> QED
  BY <1>1, <1>4, <1>5, <1>6, IdleServer

\* A completion for a user that was deleted.
LEMMA StaleCompletionKeeps == ASSUME Inv, NEW u \in Users, SysStaleCompletion(u) PROVE Rest'
<1>1. /\ UNCHANGED <<clientVars, toClient, toServer, userId, userList, currRoom, users, roomList, sendQueue, jobQueue>>
      /\ u \notin userList /\ recvPending' \in {recvPending, recvPending \ {u}}
      /\ fault' = fault \/ fault' = "staleCompletion"
  BY DEF SysStaleCompletion, StaleCompletion, Fault, userVars, roomVars
<1>2. \A v \in Users : Going(v)' = Going(v) /\ (FinalLast(v) => FinalLast(v)')
  BY <1>1 DEF Going, Stream, Queued, FinalLast
<1>3. HandlersFindTheirRooms'
  BY <1>1 DEF Inv, Rest, HandlersFindTheirRooms
<1> QED
  BY <1>1, <1>2, <1>3, IdleServer

\* A removal that overlaps another thread is where a behaviour stops.
LEMMA OverlapStops ==
  ASSUME NEW u \in Users, SysOverlap(u)
  PROVE  /\ UNCHANGED <<clientVars, toClient, toServer, userId, nickname, userList, currRoom, users, roomList,
                       recvPending, sendQueue, jobQueue>>
         /\ fault' = "overlap"
BY DEF SysOverlap, Overlap, Fault, userVars, roomVars

LEMMA OverlapKeeps == ASSUME Inv, NEW u \in Users, SysOverlap(u) PROVE Rest'
<1>1. \A v \in Users : Going(v)' = Going(v) /\ (FinalLast(v) => FinalLast(v)')
  BY OverlapStops DEF Going, Stream, Queued, FinalLast
<1>2. HandlersFindTheirRooms'
  BY OverlapStops DEF HandlersFindTheirRooms
<1> QED
  BY <1>1, <1>2, OverlapStops, IdleServer

\* The accepter: of a new user nothing is under way.
LEMMA CreateUserKeeps == ASSUME Inv, SysCreateUser PROVE Rest'
<1>0. PICK u \in Users : u = userId
  BY DEF SysCreateUser, CreateUser
<1>1. /\ UNCHANGED <<waiting, shownRooms, toServer, toClient, jobQueue, sendQueue, fault, currRoom, roomList, users>>
      /\ userId \in Users /\ userId' = userId + 1 /\ userList' = userList \cup {userId}
      /\ recvPending' = recvPending \cup {userId}
      /\ clientState' = [clientState EXCEPT ![userId] = "LOGIN"]
  BY DEF SysCreateUser, CreateUser, roomVars
<1>2. Rest /\ SysTypeOK /\ userId \in Int /\ userList \subseteq Users
  BY DEF Inv, SysTypeOK, TypeOK
<1>3. u \in Users /\ u \notin userList /\ Going(u) = {} /\ Coming(u) = {}
  BY <1>0, <1>1, <1>2 DEF Rest, Unborn
<1>4. IsInLobby(u)
  BY <1>3 DEF Inv, IInv, AbsentUsersInLobby
<1>5. \A v \in Users : Going(v)' = Going(v) /\ Coming(v)' = Coming(v)
  BY <1>1 DEF Going, Stream, Queued, Coming, Arrived, Pushed
<1>6. clientState'[u] = "LOGIN" /\ \A v \in Users : v # u => clientState'[v] = clientState[v]
  BY <1>0, <1>1, <1>2 DEF SysTypeOK
<1>7. MembershipExact' /\ HandlersFindTheirRooms'
  <2>1. \A r \in RoomIds : currRoom[u] # r
    BY <1>4, MaxRoomIdAssumption DEF IsInLobby, NoRoom, RoomIds
  <2>2. MembershipExact'
    BY <1>0, <1>1, <1>2, <2>1 DEF Rest, MembershipExact
  <2> QED
    BY <1>1, <1>2, <2>2 DEF Rest, HandlersFindTheirRooms
<1>8. RoomsKnown'
  BY <1>1, <1>2, <1>5 DEF Rest, RoomsKnown
<1>9. Unborn'
  <2>1. \A v \in Users : v >= userId' => v >= userId /\ v # u
    BY <1>0, <1>1, <1>2 DEF Users
  <2> QED
    BY <1>1, <1>2, <1>5, <1>6, <2>1 DEF Rest, Unborn
<1>10. UserInv(u)'
  <2>1. FinalLast(u)' /\ ClosingLast(u)' /\ Going(u)' = {} /\ Coming(u)' = {}
    <3>1. Going(u)' = {} /\ Coming(u)' = {}
      BY <1>3, <1>5
    <3> QED
      BY <3>1 DEF Going, Stream, Queued, Coming, Arrived, Pushed, FinalLast, ClosingLast
  <2>2. IsInLobby(u)' /\ u \in recvPending'
    BY <1>0, <1>1, <1>4 DEF IsInLobby
  <2> QED
    BY <1>6, <2>1, <2>2 DEF UserInv, Requests, Page, Answered, Fits
<1>11. ASSUME NEW v \in userList PROVE UserInv(v)'
  BY <1>0, <1>1, <1>2, <1>3, <1>6, <1>11, SameUser DEF Rest
<1> QED
  BY <1>0, <1>1, <1>7, <1>8, <1>9, <1>10, <1>11 DEF Rest

\* The send thread: what a client that is there waits for reaches it.
LEMMA SendPackageKeeps == ASSUME Inv, SysSendPackage PROVE Rest'
<1> DEFINE u == Head(sendQueue).session
           p == Head(sendQueue).packet
<1>1. /\ UNCHANGED <<clientVars, toServer, userId, userList, currRoom, users, roomList, recvPending, jobQueue>>
      /\ sendQueue # <<>>
  BY DEF SysSendPackage, SendPackage, Fault, userVars, roomVars
<1>2. Rest /\ SysTypeOK
  BY DEF Inv
<1>3. \A v \in Users : Going(v)' = Going(v) /\ (FinalLast(v) => FinalLast(v)')
  BY <1>1 DEF Going, Stream, Queued, FinalLast
<1>4. CASE u \notin userList
  <2>1. UNCHANGED <<toClient, sendQueue>> /\ fault' = "stalePackage"
    BY <1>4 DEF SysSendPackage, SendPackage, Fault
  <2>2. HandlersFindTheirRooms'
    BY <2>1 DEF HandlersFindTheirRooms
  <2> QED
    BY <1>1, <1>3, <2>1, <2>2, IdleServer
<1>5. CASE u \in userList
  <2>1. sendQueue' = Tail(sendQueue) /\ fault' = fault /\ u \in Users
    BY <1>2, <1>5 DEF SysSendPackage, SendPackage, SysTypeOK, TypeOK
  <2>2. ASSUME NEW v \in Users
        PROVE  /\ Coming(v)' \subseteq Coming(v) /\ (ClosingLast(v) => ClosingLast(v)')
               /\ v # u \/ (v \in recvPending /\ Connected(v)) => Coming(v)' = Coming(v)
    <3>1. CASE u \in recvPending \cap userList /\ Connected(u)
      <4>1. toClient' = [toClient EXCEPT ![u] = Append(@, p)]
        BY <3>1 DEF SysSendPackage
      <4> QED
        BY <1>1, <1>2, <2>1, <4>1, PassPackage
    <3>2. CASE ~(u \in recvPending \cap userList /\ Connected(u))
      <4>1. UNCHANGED toClient
        BY <3>2 DEF SysSendPackage
      <4> QED
        BY <1>1, <1>2, <1>5, <2>1, <3>2, <4>1, DropPackage
    <3> QED
      BY <3>1, <3>2
  <2>3. MembershipExact' /\ HandlersFindTheirRooms'
    BY <1>1, <1>2, <2>1 DEF Rest, MembershipExact, HandlersFindTheirRooms
  <2>4. RoomsKnown' /\ Unborn'
    BY <1>1, <1>2, <1>3, <2>2 DEF Rest, RoomsKnown, Unborn, clientVars
  <2>5. ASSUME NEW v \in userList PROVE UserInv(v)'
    <3>1. /\ v \in Users /\ UserInv(v) /\ clientState' = clientState /\ waiting' = waiting
          /\ (IsInLobby(v)' <=> IsInLobby(v)) /\ recvPending' = recvPending
      BY <1>1, <1>2 DEF Rest, clientVars, SysTypeOK, TypeOK, IsInLobby
    <3>2. CASE ~Connected(v)
      <4>1. ~Connected(v)'
        BY <3>1, <3>2 DEF Connected
      <4> QED
        BY <1>3, <3>1, <4>1, GoneUser
    <3>3. CASE Connected(v)
      <4>1. Coming(v)' = Coming(v) /\ (ClosingLast(v) => ClosingLast(v)')
        BY <2>2, <3>1, <3>3 DEF UserInv, Page
      <4> QED
        BY <1>3, <3>1, <4>1, QuietUser
    <3> QED
      BY <3>2, <3>3
  <2> QED
    BY <1>1, <2>3, <2>4, <2>5 DEF Rest
<1> QED
  BY <1>4, <1>5

-----------------------------------------------------------------------------
(* The handlers of the logic thread.                                        *)

\* The job that is taken was under way, from a user that has come.
LEMMA SenderFacts ==
  ASSUME Inv, jobQueue # <<>>, jobQueue' = Tail(jobQueue), UNCHANGED toServer
  PROVE  /\ sender \in Users /\ packet \in ClientPackets /\ packet \in Going(sender) /\ sender < userId
         /\ sender \in userList => Requests(sender) /\ Page(sender)
         /\ \A v \in userList : v = sender /\ Final(packet) => Going(v)' = {}
         /\ \A v \in Users : Going(v)' \subseteq Going(v) /\ (FinalLast(v) => FinalLast(v)')
<1>1. SysTypeOK /\ TypeOK /\ Rest /\ userId \in Int
  BY DEF Inv, SysTypeOK, TypeOK
<1>2. sender \in Users /\ packet \in ClientPackets
  BY <1>1, JobType
<1>3. packet \in Going(sender)
  BY <1>1, <1>2, TakeJob
<1>4. sender < userId
  BY <1>1, <1>2, <1>3 DEF Rest, Unborn, Users
<1>5. sender \in userList => Requests(sender) /\ Page(sender)
  BY <1>1 DEF Rest, UserInv
<1>6. \A v \in Users : Going(v)' \subseteq Going(v) /\ (FinalLast(v) => FinalLast(v)')
  BY <1>1, TakeJob
<1>7. ASSUME NEW v \in userList, v = sender, Final(packet) PROVE Going(v)' = {}
  BY <1>1, <1>2, <1>5, <1>7, TakeJob DEF Requests
<1> QED
  BY <1>2, <1>3, <1>4, <1>5, <1>6, <1>7

\* Users of the list have come, and so have those that sit in a room.
LEMMA Come ==
  ASSUME Inv
  PROVE  /\ \A v \in userList : v \in Users /\ v < userId
         /\ \A R \in SUBSET RoomIds : \A s \in Seats(R) :
              s[1] \in R /\ s[2] \in userList /\ currRoom[s[2]] = s[1]
<1>1. TypeOK /\ Rest /\ userId \in Int
  BY DEF Inv, SysTypeOK, TypeOK
<1>2. \A v \in userList : v \in Users /\ v < userId
  BY <1>1 DEF Rest, Unborn, TypeOK, Users
<1>3. ASSUME NEW R \in SUBSET RoomIds, NEW s \in Seats(R)
      PROVE  s[1] \in R /\ s[2] \in userList /\ currRoom[s[2]] = s[1]
  BY <1>1 DEF Seats, Rest, MembershipExact
<1> QED
  BY <1>2, <1>3

\* A handler is a step of the server.
LEMMA Handles ==
  ASSUME Inv, jobQueue # <<>>, jobQueue' = Tail(jobQueue),
         UNCHANGED <<clientVars, toServer, toClient, userId, recvPending>>,
         userList' \subseteq userList, roomList \subseteq roomList',
         NEW pushed \in Seq(Packages), sendQueue' = sendQueue \o pushed,
         \A i \in DOMAIN pushed :
           /\ pushed[i].session < userId
           /\ pushed[i].packet.type = "S_LOBBY_ROOM_INFO" => pushed[i].packet.roomId \subseteq roomList'
  PROVE  Serves(pushed)
<1>1. \A v \in Users : Going(v)' \subseteq Going(v) /\ (FinalLast(v) => FinalLast(v)')
  BY SenderFacts
<1> QED
  BY <1>1 DEF Serves

\* A list of all rooms for somebody that has come.
LEMMA ListKeeps ==
  ASSUME Inv, jobQueue # <<>>, jobQueue' = Tail(jobQueue),
         UNCHANGED <<clientVars, toServer, toClient, userId, userList, currRoom, users, recvPending, fault>>,
         roomList \subseteq roomList', roomList' \in SUBSET RoomIds,
         sendQueue' = Append(sendQueue, RoomListPackage(sender, roomList'))
  PROVE  Rest'
<1> DEFINE list == RoomListPackage(sender, roomList')
<1>1. /\ sender \in Users /\ sender < userId /\ list \in Packages
      /\ list.session = sender /\ list.packet.type = "S_LOBBY_ROOM_INFO" /\ list.packet.roomId = roomList'
  BY SenderFacts DEF RoomListPackage, Package, Packages, ServerPackets
<1>2. sendQueue' = Append(sendQueue, list)
  OBVIOUS
<1> HIDE DEF list
<1> DEFINE pushed == <<list>>
<1>3. /\ pushed \in Seq(Packages) /\ \A i \in DOMAIN pushed : pushed[i] = list
      /\ sendQueue' = sendQueue \o pushed
  BY <1>1, <1>2, AppendIsConcat DEF Inv, SysTypeOK, TypeOK
<1> HIDE DEF pushed
<1>4. Serves(pushed)
  BY <1>1, <1>3, Handles
<1>5. \A i \in DOMAIN pushed : ~Turning(pushed[i].session, pushed[i].packet)
  BY <1>1, <1>3 DEF Turning, Opening, Closing
<1>6. HandlersFindTheirRooms'
  BY DEF Inv, Rest, HandlersFindTheirRooms
<1> QED
  BY <1>4, <1>5, <1>6, QuietServer

\* Packages that turn no page and carry no list.
LEMMA ChatKeeps ==
  ASSUME Inv, jobQueue # <<>>, jobQueue' = Tail(jobQueue),
         UNCHANGED <<clientVars, toServer, toClient, userVars, roomVars, recvPending, fault>>,
         NEW pushed \in Seq(Packages), sendQueue' = sendQueue \o pushed,
         \A i \in DOMAIN pushed :
           /\ pushed[i].session < userId
           /\ pushed[i].packet.type \in {"S_UNICAST_OK", "S_UNICAST_NO", "S_MULTICAST", "S_BROADCAST"}
  PROVE  Rest'
<1>1. UNCHANGED <<userId, userList, currRoom, users, roomList>>
  BY DEF userVars, roomVars
<1>2. Serves(pushed)
  BY <1>1, Handles
<1>3. \A i \in DOMAIN pushed : ~Turning(pushed[i].session, pushed[i].packet)
  BY DEF Turning, Opening, Closing
<1>4. HandlersFindTheirRooms'
  BY DEF Inv, Rest, HandlersFindTheirRooms
<1> QED
  BY <1>1, <1>2, <1>3, <1>4, QuietServer

\* A whisper.
LEMMA UnicastKeeps ==
  ASSUME Inv, C_UNICAST, UNCHANGED <<clientVars, toServer, toClient>> PROVE Rest'
<1>1. /\ jobQueue # <<>> /\ jobQueue' = Tail(jobQueue)
      /\ UNCHANGED <<recvPending, userVars, roomVars, fault>> /\ sender \in userList
  BY DEF C_UNICAST, Dispatch
<1>2. sender \in Users /\ sender < userId /\ TypeOK
  BY <1>1, Come DEF Inv, SysTypeOK
<1>3. CASE sendQueue' = Append(sendQueue, Package(sender, [type |-> "S_UNICAST_NO"]))
  <2> DEFINE no == Package(sender, [type |-> "S_UNICAST_NO"])
             pushed == <<no>>
  <2>1. no \in Packages /\ no.session = sender /\ no.packet.type = "S_UNICAST_NO"
    BY <1>2 DEF Package, Packages, ServerPackets
  <2>2. sendQueue' = Append(sendQueue, no)
    BY <1>3
  <2> HIDE DEF no
  <2>3. pushed \in Seq(Packages) /\ (\A i \in DOMAIN pushed : pushed[i] = no) /\ sendQueue' = sendQueue \o pushed
    BY <1>2, <2>1, <2>2, AppendIsConcat DEF TypeOK
  <2> HIDE DEF pushed
  <2> QED
    BY <1>1, <1>2, <2>1, <2>3, ChatKeeps
<1>4. ASSUME NEW recver \in FindByNickname(packet.recver),
             sendQueue' = sendQueue \o
               <<Package(sender, [type |-> "S_UNICAST_OK", nickname |-> nickname[sender]]),
                 Package(recver, [type |-> "S_UNICAST_OK", nickname |-> nickname[sender]])>>
      PROVE  Rest'
  <2> DEFINE ok == [type |-> "S_UNICAST_OK", nickname |-> nickname[sender]]
             pushed == <<Package(sender, ok), Package(recver, ok)>>
  <2>1. recver \in userList /\ recver \in Users /\ recver < userId
    BY <1>4, Come DEF FindByNickname
  <2>2. ok \in ServerPackets /\ ok.type = "S_UNICAST_OK"
    BY <1>2 DEF ServerPackets, TypeOK
  <2>3. sendQueue' = sendQueue \o pushed
    BY <1>4
  <2> HIDE DEF ok
  <2>4. /\ pushed \in Seq(Packages)
        /\ \A i \in DOMAIN pushed : pushed[i].session \in {sender, recver} /\ pushed[i].packet = ok
    BY <1>2, <2>1, <2>2 DEF Package, Packages
  <2> HIDE DEF pushed
  <2> QED
    BY <1>1, <1>2, <2>1, <2>2, <2>3, <2>4, ChatKeeps
<1> QED
  BY <1>3, <1>4 DEF C_UNICAST

\* A line of chat for some rooms.
LEMMA CastKeeps ==
  ASSUME Inv, NEW R \in SUBSET RoomIds, NEW type \in {"S_MULTICAST", "S_BROADCAST"}, CastToRooms(R, type),
         jobQueue # <<>>, jobQueue' = Tail(jobQueue), sender \in userList,
         UNCHANGED <<clientVars, toServer, toClient, recvPending>>
  PROVE  Rest'
<1> DEFINE chat == [type |-> type, nickname |-> nickname[sender]]
           seats == Seats(R)
<1>1. PICK o \in Orders(seats) : sendQueue' = sendQueue \o Cast(o, chat)
  BY DEF CastToRooms
<1>2. UNCHANGED <<userVars, roomVars, fault>>
  BY DEF CastToRooms
<1>3. chat \in ServerPackets /\ chat.type \in {"S_MULTICAST", "S_BROADCAST"}
  BY Come DEF ServerPackets, Inv, SysTypeOK, TypeOK
<1>4. seats \in SUBSET (RoomIds \X Users) /\ \A s \in seats : s[2] < userId
  BY SeatsType, Come
<1> DEFINE pushed == Cast(o, chat)
<1> HIDE DEF chat, seats
<1>5. /\ pushed \in Seq(Packages)
      /\ \A i \in DOMAIN pushed : pushed[i].session < userId /\ pushed[i].packet = chat
  BY <1>3, <1>4, CastFacts
<1>6. sendQueue' = sendQueue \o pushed
  BY <1>1
<1> HIDE DEF pushed
<1> QED
  BY <1>2, <1>3, <1>5, <1>6, ChatKeeps

\* The page tells what a client may have sent, and the packet the page.
LEMMA PageOf ==
  ASSUME SysTypeOK, NEW u \in Users, Connected(u)
  PROVE  /\ "C_SERVER_ENTER" \in Kinds[clientState[u]] => clientState[u] = "PENDING"
         /\ "C_ROOM_ENTER" \in Kinds[clientState[u]] => clientState[u] = "LOBBY"
         /\ "C_ROOM_EXIT" \in Kinds[clientState[u]] => clientState[u] = "CHATROOM"
<1>1. clientState[u] \in {"LOGIN", "PENDING", "LOBBY", "CHATROOM"}
  BY DEF SysTypeOK, ClientStates, Connected
<1>2. /\ Kinds["LOGIN"] = {} /\ Kinds["PENDING"] = {"C_SERVER_ENTER"}
      /\ Kinds["LOBBY"] = {"C_LOBBY_ROOM_INFO", "C_ROOM_CREATE", "C_ROOM_ENTER"}
      /\ Kinds["CHATROOM"] = {"C_UNICAST", "C_MULTICAST", "C_BROADCAST", "C_ROOM_EXIT", "C_SERVER_EXIT"}
  BY DEF Kinds
<1> QED
  BY <1>1, <1>2

\* Entering the server: the user waits in the lobby, and nothing else of it is
\* under way.
LEMMA EnterServerKeeps ==
  ASSUME Inv, C_SERVER_ENTER, UNCHANGED <<clientVars, toServer, toClient>> PROVE Rest'
<1>1. /\ jobQueue # <<>> /\ jobQueue' = Tail(jobQueue) /\ packet.type = "C_SERVER_ENTER"
      /\ UNCHANGED <<recvPending, userList, userId, currRoom, users, roomList, fault>> /\ sender \in userList
  BY DEF C_SERVER_ENTER, Dispatch, roomVars
<1>2. PICK u \in userList : u = sender
  BY <1>1
<1>3. u \in Users /\ u < userId /\ SysTypeOK /\ TypeOK /\ UserInv(u)
  BY <1>2, Come, UserFacts DEF Inv, SysTypeOK
<1> DEFINE ok == Package(u, [type |-> "S_SERVER_ENTER_OK", pid |-> u])
           list == RoomListPackage(u, roomList)
           pushed == <<ok, list>>
<1>4. /\ ok \in Packages /\ ok.session = u /\ ok.packet.type = "S_SERVER_ENTER_OK"
      /\ list \in Packages /\ list.session = u /\ list.packet.type = "S_LOBBY_ROOM_INFO"
      /\ list.packet.roomId = roomList
  BY <1>3 DEF RoomListPackage, Package, Packages, ServerPackets, TypeOK
<1>5. sendQueue' = sendQueue \o pushed
  BY <1>2 DEF C_SERVER_ENTER
<1> HIDE DEF ok, list
<1>6. /\ pushed \in Seq(Packages) /\ DOMAIN pushed = {1, 2} /\ pushed[1] = ok /\ pushed[2] = list
  BY <1>4
<1> HIDE DEF pushed
<1>7. Serves(pushed)
  <2>1. \A i \in DOMAIN pushed :
          /\ pushed[i].session < userId
          /\ pushed[i].packet.type = "S_LOBBY_ROOM_INFO" => pushed[i].packet.roomId \subseteq roomList'
    BY <1>1, <1>3, <1>4, <1>6
  <2> QED
    BY <1>1, <1>5, <1>6, <2>1, Handles
<1>8. UserInv(u)'
  <2>1. packet \in Going(u) /\ Going(u)' = {} /\ Final(packet)
    BY <1>1, <1>2, SenderFacts DEF Final
  <2>2. FinalLast(u)' /\ (IsInLobby(u)' <=> IsInLobby(u)) /\ clientState' = clientState /\ recvPending' = recvPending
    BY <1>1, <1>3, SenderFacts DEF UserInv, Requests, IsInLobby, clientVars
  <2>3. CASE ~Connected(u)
    <3>1. ~Connected(u)' /\ Going(u)' \subseteq Going(u)
      BY <2>1, <2>2, <2>3 DEF Connected
    <3> QED
      BY <1>3, <2>2, <3>1, GoneUser
  <2>4. CASE Connected(u)
    <3>1. clientState[u] = "PENDING" /\ u \in recvPending
      <4>1. "C_SERVER_ENTER" \in Kinds[clientState[u]]
        BY <1>1, <1>3, <2>1, <2>4 DEF UserInv, Page
      <4> QED
        BY <1>3, <2>4, <4>1, PageOf DEF UserInv, Page
    <3>2. IsInLobby(u)
      BY <1>3, <2>1, <2>4, <3>1 DEF UserInv, Page, Fits
    <3>3. /\ \A p \in Coming(u) : ~Closing(u, p)
          /\ \A p \in Coming(u) : ~Opening(p)
      BY <1>3, <2>1, <2>4, <3>1, <3>2 DEF UserInv, Page
    <3>4. /\ ~Opening(ok.packet) /\ ~Turning(u, list.packet)
      BY <1>4 DEF Turning, Opening, Closing
    <3>5. ClosingLast(u)' /\ \A p \in Coming(u)' : ~Opening(p)
      <4>1. \A i, j \in DOMAIN pushed : i < j => ~Turning(u, pushed[j].packet)
        BY <1>6, <3>4
      <4>2. \A i \in DOMAIN pushed : ~Opening(pushed[i].packet)
        BY <1>6, <3>4 DEF Turning
      <4>3. ClosingLast(u)'
        BY <1>3, <1>5, <1>6, <3>3, <4>1, PushPackages
      <4>4. \A p \in Coming(u)' :
              p \in Coming(u) \/ \E i \in DOMAIN pushed : pushed[i].session = u /\ pushed[i].packet = p
        BY <1>3, <1>5, <1>6, PushPackages
      <4> QED
        BY <3>3, <4>2, <4>3, <4>4
    <3>6. Requests(u)'
      BY <2>1, <2>2 DEF Requests
    <3>7. Page(u)'
      BY <2>1, <2>2, <3>1, <3>2, <3>5 DEF Page, Fits
    <3>8. Answered(u)'
      BY <2>2, <3>1, <3>2 DEF Answered, Fits
    <3> QED
      BY <3>6, <3>7, <3>8 DEF UserInv
  <2> QED
    BY <2>3, <2>4
<1>9. ASSUME NEW v \in userList', v # u PROVE UserInv(v)'
  <2>1. IsInLobby(v)' <=> IsInLobby(v)
    BY <1>1 DEF IsInLobby
  <2>2. \A i \in DOMAIN pushed : pushed[i].session = u
    BY <1>4, <1>6
  <2> QED
    BY <1>7, <1>9, <2>1, <2>2, OtherUser
<1>10. MembershipExact' /\ HandlersFindTheirRooms'
  BY <1>1 DEF Inv, Rest, MembershipExact, HandlersFindTheirRooms
<1> QED
  BY <1>7, <1>8, <1>9, <1>10, ServerKeeps

\* A user enters a room: it waits in the lobby's page for the entrance that is
\* pushed, and of those in the room nobody waits for the lobby.
LEMMA EnterRoomKeeps ==
  ASSUME Inv, C_ROOM_ENTER, UNCHANGED <<clientVars, toServer, toClient>> PROVE Rest'
<1>1. /\ jobQueue # <<>> /\ jobQueue' = Tail(jobQueue) /\ packet.type = "C_ROOM_ENTER"
      /\ UNCHANGED <<recvPending, userList, userId, roomList, fault, nickname>> /\ sender \in userList
  BY DEF C_ROOM_ENTER, Dispatch, EnterRoom
<1>2. PICK u \in userList, r \in RoomIds : u = sender /\ r = packet.rid
  BY <1>1 DEF C_ROOM_ENTER, Inv, SysTypeOK, TypeOK
<1>3. u \in Users /\ u < userId /\ SysTypeOK /\ TypeOK /\ UserInv(u) /\ Rest
  BY <1>2, Come, UserFacts DEF Inv, SysTypeOK
<1>4. packet \in Going(u) /\ Going(u)' = {} /\ Asks(packet) /\ IsInLobby(u)
  BY <1>1, <1>2, SenderFacts DEF Final, Asks, Requests
<1>5. /\ currRoom' = [currRoom EXCEPT ![u] = r] /\ users' = [users EXCEPT ![r] = @ \cup {u}]
      /\ ~IsInLobby(u)' /\ currRoom'[u] = r
      /\ \A v \in Users : v # u => currRoom'[v] = currRoom[v]
  BY <1>2, <1>3, MaxRoomIdAssumption DEF C_ROOM_ENTER, EnterRoom, TypeOK, IsInLobby, NoRoom, RoomIds
<1> DEFINE seats == Seats({r}) \cup {<<r, u>>}
           enter == [type |-> "S_ROOM_ENTER", uid |-> u, name |-> nickname[u]]
           named == Package(u, [type |-> "S_ROOM_NAME", rid |-> r])
<1>6. PICK o \in Orders(seats) : sendQueue' = sendQueue \o Cast(o, enter) \o <<named>>
  BY <1>2 DEF C_ROOM_ENTER, EnterRoom
<1>7. /\ seats \in SUBSET (RoomIds \X Users) /\ <<r, u>> \in seats
      /\ \A s \in seats : s[2] \in userList /\ s[2] < userId /\ (s[2] # u => ~IsInLobby(s[2]))
  <2>1. \A s \in Seats({r}) : s[2] \in userList /\ s[2] < userId /\ ~IsInLobby(s[2])
    BY Come, MaxRoomIdAssumption DEF IsInLobby, NoRoom, RoomIds
  <2> QED
    BY <1>3, <2>1, SeatsType
<1>8. /\ enter \in ServerPackets /\ enter.type = "S_ROOM_ENTER"
      /\ named \in Packages /\ named.session = u /\ named.packet.type = "S_ROOM_NAME"
  BY <1>3 DEF Package, Packages, ServerPackets, TypeOK
<1> HIDE DEF seats, enter, named
<1> DEFINE cast == Cast(o, enter)
           pushed == cast \o <<named>>
<1>9. /\ cast \in Seq(Packages)
      /\ \A i \in DOMAIN cast : cast[i].packet = enter /\ \E s \in seats : cast[i].session = s[2]
      /\ \E i \in DOMAIN cast : cast[i].session = u
  <2>1. <<r, u>>[2] = u
    OBVIOUS
  <2> QED
    BY <1>7, <1>8, <2>1, CastFacts
<1>10. sendQueue' = (sendQueue \o cast) \o <<named>>
  BY <1>6
<1> HIDE DEF cast
<1>11. pushed \in Seq(Packages) /\ sendQueue' = sendQueue \o pushed
  <2>1. <<named>> \in Seq(Packages) /\ sendQueue \in Seq(Packages)
    BY <1>3, <1>8 DEF TypeOK
  <2> QED
    BY <1>9, <1>10, <2>1, ConcatProperties, ConcatAssociative
<1>12. /\ \A i \in DOMAIN pushed : (i \in DOMAIN cast /\ pushed[i] = cast[i]) \/ pushed[i] = named
       /\ \A i \in DOMAIN cast : i \in DOMAIN pushed /\ pushed[i] = cast[i]
  <2>1. <<named>> \in Seq(Packages) /\ Len(<<named>>) = 1 /\ <<named>>[1] = named
    BY <1>8
  <2>2. /\ Len(pushed) = Len(cast) + 1 /\ Len(cast) \in Nat
        /\ \A i \in 1..Len(cast) : pushed[i] = cast[i]
        /\ \A i \in (Len(cast) + 1)..(Len(cast) + 1) : pushed[i] = <<named>>[i - Len(cast)]
    BY <1>9, <2>1, ConcatProperties, LenProperties
  <2>3. pushed[Len(cast) + 1] = named
    BY <2>1, <2>2
  <2> QED
    BY <1>9, <1>11, <2>2, <2>3, LenProperties
<1> HIDE DEF pushed
<1>13. \A i \in DOMAIN pushed :
         \/ pushed[i].packet = enter /\ \E s \in seats : pushed[i].session = s[2]
         \/ pushed[i] = named
  BY <1>9, <1>12
<1>14. Serves(pushed)
  <2>1. \A i \in DOMAIN pushed :
          pushed[i].session < userId /\ pushed[i].packet.type # "S_LOBBY_ROOM_INFO"
    BY <1>3, <1>7, <1>8, <1>13
  <2> QED
    BY <1>1, <1>11, <2>1, Handles
<1>15. ASSUME NEW v \in Users, NEW i \in DOMAIN pushed PROVE ~Closing(v, pushed[i].packet)
  BY <1>8, <1>13 DEF Closing
<1>16. UserInv(u)'
  <2>1. /\ clientState' = clientState /\ recvPending' = recvPending /\ waiting' = waiting
        /\ FinalLast(u)'
    BY <1>1, <1>3, SenderFacts DEF UserInv, Requests, clientVars
  <2>2. Requests(u)'
    BY <1>4, <2>1 DEF Requests
  <2>3. ASSUME Connected(u) PROVE Page(u)' /\ Answered(u)'
    <3>1. clientState[u] = "LOBBY" /\ u \in recvPending /\ u \in waiting
      <4>1. "C_ROOM_ENTER" \in Kinds[clientState[u]]
        BY <1>1, <1>3, <1>4, <2>3 DEF UserInv, Page
      <4>2. clientState[u] = "LOBBY"
        BY <1>3, <2>3, <4>1, PageOf
      <4> QED
        BY <1>3, <1>4, <2>3, <4>2 DEF UserInv, Page
    <3>2. \A p \in Coming(u) : ~Closing(u, p)
      BY <1>3, <1>4, <2>3 DEF UserInv, Page
    <3>3. ClosingLast(u)' /\ \A p \in Coming(u)' : ~Closing(u, p)
      <4>1. ClosingLast(u)'
        BY <1>3, <1>11, <1>15, <3>2, PushPackages
      <4>2. \A p \in Coming(u)' :
              p \in Coming(u) \/ \E i \in DOMAIN pushed : pushed[i].session = u /\ pushed[i].packet = p
        BY <1>3, <1>11, PushPackages
      <4> QED
        BY <1>3, <1>15, <3>2, <4>1, <4>2
    <3>4. \E p \in Coming(u)' : Opening(p)
      <4>1. PICK i \in DOMAIN pushed : pushed[i].session = u /\ pushed[i].packet = enter
        BY <1>9, <1>12
      <4>2. enter \in Coming(u)'
        BY <1>3, <1>11, <4>1, PushPackages
      <4> QED
        BY <1>8, <4>2 DEF Opening
    <3>5. Page(u)'
      BY <1>4, <1>5, <2>1, <3>1, <3>3 DEF Page
    <3> QED
      BY <1>5, <3>4, <3>5 DEF Answered
  <2>4. ~Connected(u) => Page(u)' /\ Answered(u)'
    BY <2>1 DEF Page, Answered, Connected
  <2> QED
    BY <2>2, <2>3, <2>4 DEF UserInv
<1>17. ASSUME NEW v \in userList', v # u PROVE UserInv(v)'
  <2>1. v \in Users /\ (IsInLobby(v)' <=> IsInLobby(v))
    BY <1>1, <1>3, <1>5, <1>17 DEF IsInLobby, TypeOK
  <2>2. \A i \in DOMAIN pushed : pushed[i].session = v => ~IsInLobby(v)
    BY <1>7, <1>8, <1>13, <1>17
  <2> QED
    BY <1>14, <1>15, <2>1, <2>2, OtherUser
<1>18. MembershipExact'
  BY <1>1, <1>3, <1>4, <1>5, MaxRoomIdAssumption
     DEF Rest, MembershipExact, TypeOK, IsInLobby, NoRoom, RoomIds
<1>19. HandlersFindTheirRooms'
  BY <1>1, <1>3 DEF Rest, HandlersFindTheirRooms
<1> QED
  BY <1>14, <1>16, <1>17, <1>18, <1>19, ServerKeeps

\* The cast of an exit: one package for everybody that is told, and nothing else.
LEMMA ExitCast ==
  ASSUME Inv, NEW u \in userList, ~IsInLobby(u), NEW exclusive \in BOOLEAN, ExitRoom(u, exclusive)
  PROVE  \E pushed \in Seq(Packages) :
           /\ sendQueue' = sendQueue \o pushed
           /\ \A i \in DOMAIN pushed :
                pushed[i].session < userId /\ pushed[i].packet = [type |-> "S_ROOM_EXIT", uid |-> u]
           /\ \A i, j \in DOMAIN pushed : i < j => pushed[i].session # pushed[j].session
           /\ ~exclusive => \E i \in DOMAIN pushed : pushed[i].session = u
<1> DEFINE r == currRoom[u]
           told == IF exclusive THEN Seats({r}) \ {<<r, u>>} ELSE Seats({r})
           notice == [type |-> "S_ROOM_EXIT", uid |-> u]
<1>1. r \in RoomIds /\ u \in Users
  BY Come DEF Inv, SysTypeOK, TypeOK, IsInLobby
<1>2. PICK o \in Orders(told) : sendQueue' = sendQueue \o Cast(o, notice)
  BY DEF ExitRoom
<1>3. told \in SUBSET (RoomIds \X Users) /\ told \subseteq {r} \X Users /\ \A s \in told : s[2] < userId
  <2>1. Seats({r}) \subseteq {r} \X Users /\ \A s \in Seats({r}) : s[2] < userId
    BY <1>1, Come, SeatsType DEF Seats
  <2> QED
    BY <1>1, <2>1
<1>4. ~exclusive => <<r, u>> \in told /\ <<r, u>>[2] = u
  BY <1>1 DEF Seats, Inv, Rest, MembershipExact
<1>5. notice \in ServerPackets
  BY <1>1 DEF ServerPackets
<1> HIDE DEF r, told, notice
<1> DEFINE pushed == Cast(o, notice)
<1>6. /\ pushed \in Seq(Packages)
      /\ \A i \in DOMAIN pushed : pushed[i].packet = notice /\ \E s \in told : pushed[i].session = s[2]
      /\ \A s \in told : \E i \in DOMAIN pushed : pushed[i].session = s[2]
  BY <1>3, <1>5, CastFacts
<1>7. \A i, j \in DOMAIN pushed : i < j => pushed[i].session # pushed[j].session
  BY <1>1, <1>3, <1>5, CastFacts
<1>8. sendQueue' = sendQueue \o pushed
  BY <1>2
<1> HIDE DEF pushed
<1>9. \A i \in DOMAIN pushed : pushed[i].session < userId /\ pushed[i].packet = notice
  BY <1>3, <1>6
<1>10. ~exclusive => \E i \in DOMAIN pushed : pushed[i].session = u
  BY <1>4, <1>6
<1> QED
  BY <1>6, <1>7, <1>8, <1>9, <1>10 DEF notice

\* A user is removed: those left in its room are told, which turns no page.
LEMMA RemoveUserKeeps ==
  ASSUME Inv, NEW u \in userList, RemoveUser(u), UNCHANGED <<clientVars, toClient, fault>>,
         \A v \in userList : v # u /\ v \in recvPending => v \in recvPending',
         \A v \in Users : Going(v)' \subseteq Going(v) /\ (FinalLast(v) => FinalLast(v)')
  PROVE  Rest'
<1>1. /\ userList' = userList \ {u} /\ userId' = userId /\ roomList' = roomList
      /\ Rest /\ TypeOK /\ u \in Users
  BY Come DEF RemoveUser, ExitRoom, roomVars, Inv, SysTypeOK
<1>2. PICK pushed \in Seq(Packages) :
        /\ sendQueue' = sendQueue \o pushed
        /\ \A i \in DOMAIN pushed :
             pushed[i].session < userId /\ pushed[i].packet = [type |-> "S_ROOM_EXIT", uid |-> u]
  <2>1. CASE IsInLobby(u)
    <3>1. << >> \in Seq(Packages) /\ sendQueue' = sendQueue \o << >> /\ DOMAIN << >> = {}
      BY <1>1, <2>1, EmptySeq, ConcatEmptySeq DEF RemoveUser, TypeOK
    <3> QED
      BY <3>1
  <2>2. CASE ~IsInLobby(u)
    <3>1. ExitRoom(u, TRUE)
      BY <2>2 DEF RemoveUser
    <3> QED
      BY <2>2, <3>1, ExitCast
  <2> QED
    BY <2>1, <2>2
<1>3. \A i \in DOMAIN pushed : pushed[i].packet.type = "S_ROOM_EXIT" /\ pushed[i].packet.uid = u
  BY <1>2
<1>4. Serves(pushed)
  BY <1>1, <1>2, <1>3 DEF Serves
<1>5. /\ \A v \in Users : v # u => currRoom'[v] = currRoom[v]
      /\ \A r \in RoomIds : users'[r] = users[r] \ {u}
  <2>1. CASE IsInLobby(u)
    <3>1. \A r \in RoomIds : u \notin users[r]
      BY <1>1, <2>1, MaxRoomIdAssumption DEF Rest, MembershipExact, IsInLobby, NoRoom, RoomIds
    <3> QED
      BY <2>1, <3>1 DEF RemoveUser, roomVars
  <2>2. CASE ~IsInLobby(u)
    <3>1. /\ currRoom' = [currRoom EXCEPT ![u] = NoRoom]
          /\ users' = [users EXCEPT ![currRoom[u]] = @ \ {u}]
      BY <2>2 DEF RemoveUser, ExitRoom
    <3>2. \A r \in RoomIds : r # currRoom[u] => u \notin users[r]
      BY <1>1 DEF Rest, MembershipExact
    <3> QED
      BY <1>1, <2>2, <3>1, <3>2 DEF TypeOK
  <2> QED
    BY <2>1, <2>2
<1>6. MembershipExact' /\ HandlersFindTheirRooms'
  <2>1. MembershipExact'
    BY <1>1, <1>5 DEF Rest, MembershipExact, TypeOK
  <2> QED
    BY <1>1, <2>1 DEF Rest, HandlersFindTheirRooms
<1>7. ASSUME NEW v \in userList' PROVE UserInv(v)'
  <2>1. v # u /\ v \in Users /\ (IsInLobby(v)' <=> IsInLobby(v))
    BY <1>1, <1>5, <1>7 DEF TypeOK, IsInLobby
  <2>2. \A i \in DOMAIN pushed : pushed[i].session = v =>
          ~Closing(v, pushed[i].packet) /\ ~Opening(pushed[i].packet)
    BY <1>3, <2>1 DEF Closing, Opening
  <2> QED
    BY <1>4, <2>1, <2>2, OtherUser
<1> QED
  BY <1>4, <1>6, <1>7, ServerKeeps

\* A failed completion removes the user, whose client is gone.
LEMMA FailedCompletionKeeps == ASSUME Inv, NEW u \in Users, SysFailedCompletion(u) PROVE Rest'
<1>1. /\ UNCHANGED <<clientVars, toClient>> /\ u \in userList /\ toServer' = [toServer EXCEPT ![u] = <<>>]
  BY DEF SysFailedCompletion, FailedCompletion
<1>2. ~RemovalMeetsDeleted(u)
  <2>1. ~IsInLobby(u) => {currRoom[u]} \in SUBSET RoomIds
    BY DEF Inv, SysTypeOK, TypeOK, IsInLobby
  <2> QED
    BY <2>1, NobodyDeleted DEF RemovalMeetsDeleted
<1>3. /\ RemoveUser(u) /\ UNCHANGED <<jobQueue, fault>> /\ recvPending' \in {recvPending, recvPending \ {u}}
  BY <1>2 DEF SysFailedCompletion, FailedCompletion
<1>4. /\ toServer'[u] = <<>> /\ \A v \in Users : v # u => toServer'[v] = toServer[v]
      /\ DOMAIN toServer'[u] = {}
  BY <1>1 DEF Inv, SysTypeOK
<1>5. ASSUME NEW v \in Users PROVE Going(v)' \subseteq Going(v) /\ (FinalLast(v) => FinalLast(v)')
  <2>1. CASE v # u
    <3>1. Stream(v)' = Stream(v) /\ Queued(v)' = Queued(v)
      BY <1>3, <1>4, <2>1 DEF Stream, Queued
    <3>2. FinalLast(v) => FinalLast(v)'
      BY <1>3, <1>4, <2>1, <3>1 DEF FinalLast
    <3> QED
      BY <3>1, <3>2 DEF Going
  <2>2. CASE v = u
    <3>1. Stream(u)' = {} /\ Queued(u)' = Queued(u)
      BY <1>3, <1>4 DEF Stream, Queued
    <3>2. FinalLast(u) => FinalLast(u)'
      BY <1>3, <1>4, <3>1 DEF FinalLast
    <3> QED
      BY <2>2, <3>1, <3>2 DEF Going
  <2> QED
    BY <2>1, <2>2
<1> QED
  BY <1>1, <1>3, <1>5, RemoveUserKeeps

\* /quit.
LEMMA ExitServerKeeps ==
  ASSUME Inv, C_SERVER_EXIT, UNCHANGED <<clientVars, toServer, toClient>> PROVE Rest'
<1>1. /\ jobQueue # <<>> /\ jobQueue' = Tail(jobQueue) /\ UNCHANGED <<recvPending, fault>>
      /\ sender \in userList /\ RemoveUser(sender)
  BY DEF C_SERVER_EXIT, Dispatch
<1>2. PICK u \in userList : u = sender
  BY <1>1
<1> QED
  BY <1>1, <1>2, SenderFacts, RemoveUserKeeps

\* /lobby: the user waits in the room's page for its own exit, which is pushed
\* once; to the others of the room it turns no page.
LEMMA ExitRoomKeeps ==
  ASSUME Inv, C_ROOM_EXIT, UNCHANGED <<clientVars, toServer, toClient>> PROVE Rest'
<1>1. /\ jobQueue # <<>> /\ jobQueue' = Tail(jobQueue) /\ packet.type = "C_ROOM_EXIT"
      /\ UNCHANGED <<recvPending, userList, userId, roomList, fault>> /\ sender \in userList
      /\ ~IsInLobby(sender) /\ ExitRoom(sender, FALSE)
  BY DEF C_ROOM_EXIT, Dispatch, ExitRoom
<1>2. PICK u \in userList : u = sender
  BY <1>1
<1>3. u \in Users /\ u < userId /\ SysTypeOK /\ TypeOK /\ UserInv(u) /\ Rest
  BY Come, UserFacts DEF Inv, SysTypeOK
<1>4. packet \in Going(u) /\ Going(u)' = {} /\ Asks(packet) /\ ~IsInLobby(u)
  BY <1>1, <1>2, SenderFacts DEF Final, Asks
<1>5. /\ currRoom' = [currRoom EXCEPT ![u] = NoRoom]
      /\ users' = [users EXCEPT ![currRoom[u]] = @ \ {u}]
      /\ IsInLobby(u)' /\ \A v \in Users : v # u => currRoom'[v] = currRoom[v]
  BY <1>1, <1>2, <1>3 DEF ExitRoom, TypeOK, IsInLobby
<1>6. PICK pushed \in Seq(Packages) :
        /\ sendQueue' = sendQueue \o pushed
        /\ \A i \in DOMAIN pushed :
             pushed[i].session < userId /\ pushed[i].packet = [type |-> "S_ROOM_EXIT", uid |-> u]
        /\ \A i, j \in DOMAIN pushed : i < j => pushed[i].session # pushed[j].session
        /\ \E i \in DOMAIN pushed : pushed[i].session = u
  <2>1. FALSE \in BOOLEAN /\ ~IsInLobby(u) /\ ExitRoom(u, FALSE)
    BY <1>1, <1>2
  <2>2. ~FALSE
    OBVIOUS
  <2> QED
    BY <2>1, <2>2, ExitCast
<1>7. /\ \A i \in DOMAIN pushed : pushed[i].packet.type = "S_ROOM_EXIT" /\ pushed[i].packet.uid = u
  BY <1>6
<1>8. Serves(pushed)
  BY <1>1, <1>6, <1>7, Handles
<1>9. UserInv(u)'
  <2>1. /\ clientState' = clientState /\ recvPending' = recvPending /\ waiting' = waiting
        /\ FinalLast(u)'
    BY <1>1, <1>3, SenderFacts DEF UserInv, Requests, clientVars
  <2>2. Requests(u)'
    BY <1>4, <2>1 DEF Requests
  <2>3. ASSUME Connected(u) PROVE Page(u)' /\ Answered(u)'
    <3>1. clientState[u] = "CHATROOM" /\ u \in recvPending /\ u \in waiting
      <4>1. "C_ROOM_EXIT" \in Kinds[clientState[u]]
        BY <1>1, <1>3, <1>4, <2>3 DEF UserInv, Page
      <4>2. clientState[u] = "CHATROOM"
        BY <1>3, <2>3, <4>1, PageOf
      <4> QED
        BY <1>3, <1>4, <2>3, <4>2 DEF UserInv, Page
    <3>2. \A p \in Coming(u) : ~Closing(u, p)
      BY <1>3, <1>4, <2>3 DEF UserInv, Page
    <3>3. ClosingLast(u)'
      <4>1. \A i, j \in DOMAIN pushed :
              i < j /\ pushed[i].session = u /\ pushed[j].session = u
                /\ Closing(u, pushed[i].packet) => ~Turning(u, pushed[j].packet)
        BY <1>6
      <4>2. SysTypeOK /\ u \in Users /\ sendQueue' = sendQueue \o pushed /\ UNCHANGED toClient
        BY <1>3, <1>6
      <4> QED
        BY <3>2, <4>1, <4>2, PushPackages
    <3>4. \E p \in Coming(u)' : Closing(u, p)
      <4>1. PICK i \in DOMAIN pushed : pushed[i].session = u
        BY <1>6
      <4>2. pushed[i].packet \in Coming(u)'
        BY <1>3, <1>6, <4>1, PushPackages
      <4> QED
        BY <1>7, <4>2 DEF Closing
    <3>5. Page(u)'
      BY <1>4, <1>5, <2>1, <3>1, <3>3 DEF Page
    <3> QED
      BY <1>5, <3>4, <3>5 DEF Answered
  <2>4. ~Connected(u) => Page(u)' /\ Answered(u)'
    BY <2>1 DEF Page, Answered, Connected
  <2> QED
    BY <2>2, <2>3, <2>4 DEF UserInv
<1>10. ASSUME NEW v \in userList', v # u PROVE UserInv(v)'
  <2>1. v \in Users /\ (IsInLobby(v)' <=> IsInLobby(v))
    BY <1>1, <1>3, <1>5, <1>10 DEF IsInLobby, TypeOK
  <2>2. \A i \in DOMAIN pushed : ~Closing(v, pushed[i].packet) /\ ~Opening(pushed[i].packet)
    BY <1>7, <1>10 DEF Closing, Opening
  <2> QED
    BY <1>8, <2>1, <2>2, OtherUser
<1>11. MembershipExact'
  <2>1. \A r \in RoomIds : r # NoRoom
    BY MaxRoomIdAssumption DEF NoRoom, RoomIds
  <2> QED
    BY <1>1, <1>3, <1>4, <1>5, <2>1 DEF Rest, MembershipExact, TypeOK, IsInLobby
<1>12. HandlersFindTheirRooms'
  BY <1>1, <1>3 DEF Rest, HandlersFindTheirRooms
<1> QED
  BY <1>8, <1>9, <1>10, <1>11, <1>12, ServerKeeps

\* The logic thread.
LEMMA LogicStepKeeps == ASSUME Inv, SysLogicStep PROVE Rest'
<1>0. LogicStep /\ UNCHANGED <<clientVars, toServer, toClient>> /\ Rest /\ SysTypeOK /\ TypeOK
  BY DEF SysLogicStep, Inv, SysTypeOK
<1>1. CASE C_SERVER_ENTER
  BY <1>0, <1>1, EnterServerKeeps
<1>2. CASE C_SERVER_EXIT
  BY <1>0, <1>2, ExitServerKeeps
<1>3. CASE C_LOBBY_ROOM_INFO
  BY <1>0, <1>3, ListKeeps DEF C_LOBBY_ROOM_INFO, userVars, roomVars, TypeOK
<1>4. CASE C_ROOM_CREATE
  <2>1. /\ jobQueue # <<>> /\ jobQueue' = Tail(jobQueue)
        /\ UNCHANGED <<userId, userList, currRoom, users, recvPending, fault>>
        /\ roomList \subseteq roomList' /\ roomList' \in SUBSET RoomIds
        /\ sendQueue' = Append(sendQueue, RoomListPackage(sender, roomList'))
    BY <1>0, <1>4 DEF C_ROOM_CREATE, Dispatch, userVars, TypeOK
  <2> QED
    BY <1>0, <2>1, ListKeeps
<1>5. CASE C_ROOM_ENTER
  BY <1>0, <1>5, EnterRoomKeeps
<1>6. CASE C_ROOM_EXIT
  BY <1>0, <1>6, ExitRoomKeeps
<1>7. CASE C_UNICAST
  BY <1>0, <1>7, UnicastKeeps
<1>8. CASE C_MULTICAST
  <2>1. /\ jobQueue # <<>> /\ jobQueue' = Tail(jobQueue) /\ sender \in userList /\ sender \in Users
        /\ ~IsInLobby(sender) /\ UNCHANGED recvPending /\ CastToRooms({currRoom[sender]}, "S_MULTICAST")
    BY <1>0, <1>8, JobType DEF C_MULTICAST, Dispatch
  <2>2. {currRoom[sender]} \in SUBSET RoomIds
    BY <1>0, <2>1 DEF TypeOK, IsInLobby
  <2> QED
    BY <1>0, <2>1, <2>2, CastKeeps
<1>9. CASE C_BROADCAST
  <2>1. /\ jobQueue # <<>> /\ jobQueue' = Tail(jobQueue) /\ sender \in userList
        /\ roomList \in SUBSET RoomIds /\ UNCHANGED recvPending /\ CastToRooms(roomList, "S_BROADCAST")
    BY <1>0, <1>9 DEF C_BROADCAST, Dispatch, TypeOK
  <2> QED
    BY <1>0, <2>1, CastKeeps
<1>10. CASE StaleJob
  <2>1. UNCHANGED <<userId, userList, currRoom, users, roomList, sendQueue, jobQueue, recvPending>>
        /\ fault' = "staleJob"
    BY <1>10 DEF StaleJob, Fault, userVars, roomVars
  <2>2. \A v \in Users : Going(v)' = Going(v) /\ (FinalLast(v) => FinalLast(v)')
    BY <1>0, <2>1 DEF Going, Stream, Queued, FinalLast
  <2>3. HandlersFindTheirRooms'
    BY <2>1 DEF HandlersFindTheirRooms
  <2> QED
    BY <1>0, <2>1, <2>2, <2>3, IdleServer
\* What the handlers do not check.
<1>11. ASSUME jobQueue # <<>>, sender \in userList
       PROVE  /\ packet.type = "C_ROOM_ENTER" => packet.rid \in roomList
              /\ packet.type \in {"C_ROOM_EXIT", "C_MULTICAST"} => ~IsInLobby(sender)
  <2>1. Len(jobQueue) \in Nat \ {0} /\ DOMAIN jobQueue = 1..Len(jobQueue) /\ Head(jobQueue) = jobQueue[1]
    BY <1>0, <1>11, Sequences, HeadTailProperties, EmptySeq
  <2>2. packet \in Going(sender)
    BY <2>1 DEF Going, Queued, sender, packet
  <2> QED
    BY <1>0, <1>11, <2>2, JobType DEF Rest, RoomsKnown, UserInv, Requests
<1>12. ~NullRoom
  BY <1>11 DEF NullRoom
<1>13. ~StaleMember
  <2>1. ASSUME jobQueue # <<>> PROVE Visited(sender, packet) \in SUBSET RoomIds
    <3>1. sender \in Users /\ roomList \in SUBSET RoomIds /\ currRoom[sender] \in RoomIds \cup {NoRoom}
      BY <1>0, <2>1, JobType DEF TypeOK
    <3> QED
      BY <3>1 DEF Visited
  <2> QED
    BY <2>1, NobodyDeleted DEF StaleMember
<1> QED
  BY <1>0, <1>1, <1>2, <1>3, <1>4, <1>5, <1>6, <1>7, <1>8, <1>9, <1>10, <1>12, <1>13 DEF LogicStep

-----------------------------------------------------------------------------
(* Every step.                                                              *)

\* A step of the whole is a step of ChatServer, or none.
LEMMA StepOfServer == ASSUME SysTypeOK, [SysNext]_sysVars PROVE [Next]_vars
<1>1. ASSUME NEW u \in Users, ClientStep(u) PROVE UNCHANGED vars
  BY <1>1 DEF ClientStep, SendNickname, LobbyPage, ChatRoomPage, CloseClient, LogicThread, Act, Miscast, Receive,
     F_SERVER_ENTER_OK, F_LOBBY_ROOM_INFO, F_ROOM_ENTER, F_ROOM_EXIT, F_ROOM_NAME_or_RECV_CAST
<1>2. ASSUME NEW u \in Users, SysRecvCompletion(u) PROVE Next
  <2>1. toServer[u] # <<>> /\ RecvCompletion(u, Head(toServer[u]))
    BY <1>2 DEF SysRecvCompletion
  <2>2. Head(toServer[u]) \in ClientPackets
    BY <2>1, Sequences, HeadTailProperties
  <2> QED
    BY <2>1, <2>2 DEF Next, WorkerStep
<1>3. ASSUME NEW u \in Users, SysFailedCompletion(u) \/ SysStaleCompletion(u) \/ SysOverlap(u) PROVE Next
  BY <1>3 DEF SysFailedCompletion, SysStaleCompletion, SysOverlap, Next, WorkerStep
<1>4. CASE SysCreateUser \/ SysLogicStep \/ SysSendPackage
  BY <1>4 DEF SysCreateUser, SysLogicStep, SysSendPackage, Next
<1>5. CASE UNCHANGED sysVars
  BY <1>5 DEF sysVars
<1> QED
  BY <1>1, <1>2, <1>3, <1>4, <1>5 DEF SysNext

\* The types of the clients' variables.
ClientTypes ==
  /\ clientState \in [Users -> ClientStates] /\ waiting \in SUBSET Users
  /\ shownRooms \in [Users -> SUBSET RoomIds] /\ shownUsers \in [Users -> SUBSET Users]
  /\ toServer \in [Users -> Seq(ClientPackets)] /\ toClient \in [Users -> Seq(ServerPackets)]
  /\ miscast \in SUBSET {p.type : p \in ServerPackets}

\* A receive, of a client or of the server, leaves the streams streams.
LEMMA ReceiveTypes ==
  ASSUME NEW S, NEW f \in [Users -> Seq(S)], NEW u \in Users, f[u] # <<>>,
         NEW k \in 1..(IF Coalescing THEN Len(f[u]) ELSE 1)
  PROVE  [f EXCEPT ![u] = SubSeq(@, k + 1, Len(@))] \in [Users -> Seq(S)]
<1>1. f[u] \in Seq(S) /\ Len(f[u]) \in Nat /\ Len(f[u]) # 0
  BY LenProperties, EmptySeq
<1>2. k \in 1..Len(f[u])
  BY <1>1
<1>3. SubSeq(f[u], k + 1, Len(f[u])) \in Seq(S)
  BY <1>1, <1>2, RestOfStream
<1> QED
  BY <1>3

\* The client's steps keep them.
LEMMA ClientTypeStep == ASSUME SysTypeOK, NEW u \in Users, ClientStep(u) PROVE ClientTypes'
<1>0. /\ clientState \in [Users -> ClientStates] /\ waiting \in SUBSET Users
      /\ shownRooms \in [Users -> SUBSET RoomIds] /\ shownUsers \in [Users -> SUBSET Users]
      /\ toServer \in [Users -> Seq(ClientPackets)] /\ toClient \in [Users -> Seq(ServerPackets)]
      /\ miscast \in SUBSET {p.type : p \in ServerPackets}
      /\ {"PENDING", "LOBBY", "CHATROOM", "GONE"} \subseteq ClientStates
  BY DEF SysTypeOK, ClientStates
<1>1. ASSUME NEW p \in ClientPackets
      PROVE  [toServer EXCEPT ![u] = Append(@, p)] \in [Users -> Seq(ClientPackets)]
  <2>1. Append(toServer[u], p) \in Seq(ClientPackets)
    BY <1>0, <1>1, AppendProperties
  <2> QED
    BY <1>0, <2>1
<1>2. ASSUME NEW s, NEW p \in ClientPackets, Act(u, s, p)
      PROVE  /\ toServer' \in [Users -> Seq(ClientPackets)]
             /\ UNCHANGED <<toClient, shownRooms, shownUsers, miscast>>
  BY <1>1, <1>2 DEF Act
<1>3. CASE SendNickname(u)
  <2>1. PICK n \in Nicknames : Act(u, "LOGIN", [type |-> "C_SERVER_ENTER", nickname |-> n])
    BY <1>3 DEF SendNickname
  <2>2. [type |-> "C_SERVER_ENTER", nickname |-> n] \in ClientPackets
    BY DEF ClientPackets
  <2>3. clientState' \in [Users -> ClientStates] /\ waiting' \in SUBSET Users
    BY <1>0, <1>3 DEF SendNickname
  <2> QED
    BY <1>0, <1>2, <2>1, <2>2, <2>3 DEF ClientTypes
<1>4. CASE LobbyPage(u)
  <2>1. [type |-> "C_ROOM_CREATE"] \in ClientPackets
    BY DEF ClientPackets
  <2>2. \A r \in Selections(u) : [type |-> "C_ROOM_ENTER", rid |-> r] \in ClientPackets
    BY <1>0, MaxRoomIdAssumption DEF Selections, ClientPackets, RoomIds
  <2>3. UNCHANGED clientState /\ waiting' \in SUBSET Users
    BY <1>0, <1>4 DEF LobbyPage
  <2>4. \E p \in ClientPackets : Act(u, "LOBBY", p)
    BY <1>4, <2>1, <2>2 DEF LobbyPage
  <2> QED
    BY <1>0, <1>2, <2>3, <2>4 DEF ClientTypes
<1>5. CASE ChatRoomPage(u)
  <2>1. \A t \in {"C_ROOM_EXIT", "C_SERVER_EXIT"} : [type |-> t] \in ClientPackets
    BY DEF ClientPackets
  <2>2. \E p \in ClientPackets : Act(u, "CHATROOM", p)
    BY <1>5, <2>1 DEF ChatRoomPage
  <2>3. UNCHANGED clientState /\ waiting' \in SUBSET Users
    BY <1>0, <1>5 DEF ChatRoomPage
  <2> QED
    BY <1>0, <1>2, <2>2, <2>3 DEF ClientTypes
<1>6. ASSUME clientState' = [clientState EXCEPT ![u] = "GONE"], waiting' = waiting \ {u},
             shownRooms' = [shownRooms EXCEPT ![u] = {}], shownUsers' = [shownUsers EXCEPT ![u] = {}],
             toClient' = [toClient EXCEPT ![u] = <<>>], UNCHANGED toServer,
             miscast' \in SUBSET {p.type : p \in ServerPackets}
      PROVE  ClientTypes'
  <2>1. toClient' \in [Users -> Seq(ServerPackets)]
    BY <1>0, <1>6, EmptySeq
  <2> QED
    BY <1>0, <1>6, <2>1 DEF ClientTypes
<1>7. CASE CloseClient(u)
  BY <1>0, <1>6, <1>7 DEF CloseClient
<1>8. ASSUME toClient[u] # <<>> PROVE Received(u) \in ServerPackets
  BY <1>0, <1>8, HeadTailProperties DEF Received
<1>9. CASE Miscast(u)
  <2>1. Received(u).type \in {p.type : p \in ServerPackets}
    BY <1>8, <1>9 DEF Miscast
  <2> QED
    BY <1>0, <1>6, <1>9, <2>1 DEF Miscast
<1>10. ASSUME NEW s \in ClientStates, Receive(u, s)
       PROVE  /\ clientState' \in [Users -> ClientStates] /\ waiting' \in SUBSET Users
              /\ toClient' \in [Users -> Seq(ServerPackets)] /\ Received(u) \in ServerPackets
  <2>1. PICK k \in 1..(IF Coalescing THEN Len(toClient[u]) ELSE 1) :
          toClient' = [toClient EXCEPT ![u] = SubSeq(@, k + 1, Len(@))]
    BY <1>10 DEF Receive
  <2>2. toClient' \in [Users -> Seq(ServerPackets)]
    BY <1>0, <1>10, <2>1, ReceiveTypes DEF Receive
  <2> QED
    BY <1>0, <1>8, <1>10, <2>2 DEF Receive
<1>11. CASE F_SERVER_ENTER_OK(u)
  <2>1. [type |-> "C_LOBBY_ROOM_INFO"] \in ClientPackets
    BY DEF ClientPackets
  <2> QED
    BY <1>0, <1>1, <1>10, <1>11, <2>1 DEF F_SERVER_ENTER_OK, ClientTypes
<1>12. CASE F_LOBBY_ROOM_INFO(u)
  <2>1. Receive(u, clientState[u]) /\ Received(u).type = "S_LOBBY_ROOM_INFO" /\ clientState[u] \in ClientStates
    BY <1>0, <1>12 DEF F_LOBBY_ROOM_INFO
  <2>2. Received(u).roomId \in SUBSET RoomIds
    BY <1>10, <2>1 DEF ServerPackets
  <2> QED
    BY <1>0, <1>10, <1>12, <2>1, <2>2 DEF F_LOBBY_ROOM_INFO, ClientTypes
<1>13. CASE F_ROOM_ENTER(u)
  <2>1. Receive(u, "CHATROOM") /\ Received(u).type = "S_ROOM_ENTER"
    BY <1>13 DEF F_ROOM_ENTER
  <2>2. Received(u).uid \in Users
    BY <1>0, <1>10, <2>1 DEF ServerPackets
  <2>3. shownUsers' \in [Users -> SUBSET Users]
    BY <1>0, <1>13, <2>2 DEF F_ROOM_ENTER
  <2> QED
    BY <1>0, <1>10, <1>13, <2>1, <2>3 DEF F_ROOM_ENTER, ClientTypes
<1>14. CASE F_ROOM_EXIT(u)
  <2>1. \E s \in ClientStates : Receive(u, s)
    BY <1>0, <1>14 DEF F_ROOM_EXIT
  <2>2. /\ shownUsers' \in [Users -> SUBSET Users] /\ shownRooms' \in [Users -> SUBSET RoomIds]
        /\ UNCHANGED <<toServer, miscast>>
    BY <1>0, <1>14 DEF F_ROOM_EXIT
  <2> QED
    BY <1>0, <1>10, <2>1, <2>2 DEF ClientTypes
<1>15. CASE F_ROOM_NAME_or_RECV_CAST(u)
  BY <1>0, <1>10, <1>15 DEF F_ROOM_NAME_or_RECV_CAST, ClientTypes
<1> QED
  BY <1>3, <1>4, <1>5, <1>7, <1>9, <1>11, <1>12, <1>13, <1>14, <1>15 DEF ClientStep, LogicThread

\* So does every step.
LEMMA SysTypeStep == ASSUME SysTypeOK, [SysNext]_sysVars PROVE SysTypeOK'
<1>0. /\ TypeOK /\ ClientTypes
      /\ (TypeOK' /\ ClientTypes') => SysTypeOK'
  BY DEF SysTypeOK, ClientTypes
<1>1. TypeOK'
  BY <1>0, StepOfServer, TypeStep
<1>2. ASSUME SysCreateUser PROVE ClientTypes'
  BY <1>0, <1>2 DEF SysCreateUser, ClientTypes, ClientStates
<1>3. ASSUME NEW u \in Users, SysRecvCompletion(u) PROVE ClientTypes'
  <2>1. PICK k \in 1..(IF Coalescing THEN Len(toServer[u]) ELSE 1) :
          toServer' = [toServer EXCEPT ![u] = SubSeq(@, k + 1, Len(@))]
    BY <1>3 DEF SysRecvCompletion
  <2>2. toServer' \in [Users -> Seq(ClientPackets)]
    BY <1>0, <1>3, <2>1, ReceiveTypes DEF SysRecvCompletion, ClientTypes
  <2> QED
    BY <1>0, <1>3, <2>2 DEF SysRecvCompletion, ClientTypes, clientVars
<1>4. ASSUME NEW u \in Users, SysFailedCompletion(u) PROVE ClientTypes'
  <2>1. toServer' \in [Users -> Seq(ClientPackets)]
    BY <1>0, <1>4, EmptySeq DEF SysFailedCompletion, ClientTypes
  <2> QED
    BY <1>0, <1>4, <2>1 DEF SysFailedCompletion, ClientTypes, clientVars
<1>5. ASSUME UNCHANGED <<clientVars, toServer, toClient>> PROVE ClientTypes'
  BY <1>0, <1>5 DEF ClientTypes, clientVars
<1>6. ASSUME SysSendPackage PROVE ClientTypes'
  <2> DEFINE u == Head(sendQueue).session
             p == Head(sendQueue).packet
  <2>1. sendQueue # <<>> /\ sendQueue \in Seq(Packages) /\ UNCHANGED <<clientVars, toServer>>
    BY <1>0, <1>6 DEF SysSendPackage, SendPackage, TypeOK
  <2>2. u \in Users /\ p \in ServerPackets
    <3>1. Head(sendQueue) \in Packages
      BY <2>1, HeadTailProperties
    <3> QED
      BY <3>1 DEF Packages
  <2>3. Append(toClient[u], p) \in Seq(ServerPackets)
    BY <1>0, <2>2, AppendProperties DEF ClientTypes
  <2>4. toClient' = toClient \/ toClient' = [toClient EXCEPT ![u] = Append(@, p)]
    BY <1>6 DEF SysSendPackage
  <2>5. toClient' \in [Users -> Seq(ServerPackets)]
    BY <1>0, <2>2, <2>3, <2>4 DEF ClientTypes
  <2> QED
    BY <1>0, <2>1, <2>5 DEF ClientTypes, clientVars
<1>7. ClientTypes'
  <2>1. ASSUME NEW u \in Users, SysStaleCompletion(u) PROVE ClientTypes'
    BY <1>5, <2>1 DEF SysStaleCompletion
  <2>10. ASSUME NEW u \in Users, SysOverlap(u) PROVE ClientTypes'
    BY <1>5, <2>10 DEF SysOverlap
  <2>2. ASSUME SysLogicStep PROVE ClientTypes'
    BY <1>5, <2>2 DEF SysLogicStep
  <2>3. ASSUME UNCHANGED sysVars PROVE ClientTypes'
    BY <1>5, <2>3 DEF sysVars
  <2> QED
    BY <1>2, <1>3, <1>4, <1>6, <2>1, <2>10, <2>2, <2>3, ClientTypeStep DEF SysNext
<1> QED
  BY <1>0, <1>1, <1>7

\* Nothing is under way at the start, and no user is listed.
LEMMA SysInitInv == SysInit => Inv
<1> SUFFICES ASSUME SysInit PROVE Inv
  OBVIOUS
<1>1. IInv /\ TypeOK
  BY InitInv DEF SysInit, IInv
<1>2. SysTypeOK
  BY <1>1, EmptySeq DEF SysInit, SysTypeOK, ClientStates
<1>3. /\ MembershipExact /\ HandlersFindTheirRooms /\ userList = {}
  BY DEF SysInit, Init, MembershipExact, HandlersFindTheirRooms
<1>4. \A u \in Users : Going(u) = {} /\ Coming(u) = {}
  BY DEF SysInit, Init, Going, Stream, Queued, Coming, Arrived, Pushed
<1>5. RoomsKnown
  BY <1>4 DEF SysInit, RoomsKnown
<1>6. Unborn
  BY <1>3, <1>4 DEF SysInit, Unborn
<1> QED
  BY <1>1, <1>2, <1>3, <1>5, <1>6 DEF Inv, Rest

\* Every step keeps the invariant.
LEMMA SysInvStep == Inv /\ [SysNext]_sysVars => Inv'
<1> SUFFICES ASSUME Inv, [SysNext]_sysVars PROVE Inv'
  OBVIOUS
<1>1. SysTypeOK'
  BY SysTypeStep DEF Inv
<1>2. IInv'
  BY StepOfServer, InvStep DEF Inv
<1>3. Rest'
  <2>1. ASSUME UNCHANGED sysVars PROVE Rest'
    <3>1. UNCHANGED <<clientVars, toServer, toClient, userId, userList, currRoom, users, roomList, sendQueue,
                      jobQueue, recvPending, fault>>
      BY <2>1 DEF sysVars, vars, userVars, roomVars
    <3>2. \A v \in Users : Going(v)' = Going(v) /\ (FinalLast(v) => FinalLast(v)')
      BY <3>1 DEF Going, Stream, Queued, FinalLast
    <3>3. HandlersFindTheirRooms'
      BY <3>1 DEF Inv, Rest, HandlersFindTheirRooms
    <3> QED
      BY <3>1, <3>2, <3>3, IdleServer
  <2> QED
    BY <2>1, CreateUserKeeps, ClientStepKeeps, RecvCompletionKeeps, FailedCompletionKeeps, StaleCompletionKeeps,
       OverlapKeeps, LogicStepKeeps, SendPackageKeeps DEF SysNext
<1> QED
  BY <1>1, <1>2, <1>3 DEF Inv

-----------------------------------------------------------------------------
(* The server's own theorems.                                               *)

\* The invariant holds throughout.
LEMMA Invariant == SysSpec => []Inv
BY SysInitInv, SysInvStep, PTL DEF SysSpec

\* The variables of the server, of the clients and of the streams keep their
\* types.
THEOREM SysTypeCorrect == SysSpec => []SysTypeOK
<1>1. Inv => SysTypeOK
  BY DEF Inv
<1> QED
  BY <1>1, Invariant, PTL

\* C_ROOM_ENTER, C_ROOM_EXIT and the casts of LogicProcessFunc.cpp, which check
\* neither, look for no room that is not there and at no member that was deleted:
\* of users that wait for the page they asked for, until a removal overlaps a
\* handler, for any number of users, rooms and packets under way.
THEOREM RoomsAreFound == SysSpec => []HandlersFindTheirRooms
<1>1. Inv => HandlersFindTheirRooms
  BY DEF Inv, Rest
<1> QED
  BY <1>1, Invariant, PTL

\* Room::users_ holds exactly the users of the list whose currRoom_ is the room,
\* though the one is changed without asking the other: of users that wait for the
\* page they asked for, until a removal overlaps a handler.
THEOREM MembersExact == SysSpec => []MembershipExact
<1>1. Inv => MembershipExact
  BY DEF Inv, Rest
<1> QED
  BY <1>1, Invariant, PTL

\* If every receive returns one packet, and until a removal overlaps a handler: a
\* client with nothing under way shows the room's page exactly when the server has
\* its user in a room.
THEOREM PagesFit == ASSUME ~Coalescing PROVE SysSpec => []PagesMatchRooms
<1>1. Inv => PagesMatchRooms
  <2> SUFFICES ASSUME Inv PROVE PagesMatchRooms
    OBVIOUS
  <2>1. ASSUME NEW u \in Users, Settled(u) PROVE Fits(u)
    <3>1. Connected(u) /\ UserInv(u)
      BY <2>1, UserFacts DEF Settled
    <3>2. Coming(u) = {}
      BY <2>1 DEF Settled, Coming, Arrived, Pushed
    <3> QED
      BY <3>1, <3>2 DEF UserInv, Answered
  <2> QED
    BY <2>1 DEF PagesMatchRooms, Fits
<1> QED
  BY <1>1, Invariant, PTL

-----------------------------------------------------------------------------
(* What is picked out of a sequence: Sift and OnTheWay.                     *)

\* Where Sift finds something, and how many of them are not behind i.
Found(s, f) == {i \in DOMAIN s : s[i] \in DOMAIN f}
Rank(I, i) == Cardinality({j \in I : j <= i})

\* The ranks in a finite set of numbers are 1, 2, ... in the order of the numbers.
LEMMA Ranks ==
  ASSUME NEW m \in Nat, NEW I \in SUBSET (1..m)
  PROVE  /\ IsFiniteSet(I) /\ Cardinality(I) \in Nat
         /\ \A i \in I : Rank(I, i) \in 1..Cardinality(I)
         /\ \A i, j \in I : Rank(I, i) = Rank(I, j) => i = j
         /\ \A k \in 1..Cardinality(I) : \E i \in I : Rank(I, i) = k
<1> DEFINE n == Cardinality(I)
           T == {Rank(I, i) : i \in I}
<1>1. IsFiniteSet(I) /\ n \in Nat
  <2>1. IsFiniteSet(1..m)
    BY FS_Interval
  <2> QED
    BY <2>1, FS_Subset, FS_CardinalityType
<1>2. ASSUME NEW i \in I PROVE Rank(I, i) \in 1..n
  <2> DEFINE J == {j \in I : j <= i}
  <2>1. i \in J /\ J \in SUBSET I
    BY <1>2
  <2>2. IsFiniteSet(J) /\ Cardinality(J) \in Nat /\ Cardinality(J) <= n
    BY <1>1, <2>1, FS_Subset, FS_CardinalityType
  <2>3. Cardinality(J) # 0
    BY <2>1, <2>2, FS_EmptySet
  <2> QED
    BY <1>1, <2>2, <2>3 DEF Rank
<1>3. ASSUME NEW i \in I, NEW j \in I, i < j PROVE Rank(I, i) < Rank(I, j)
  <2> DEFINE J == {x \in I : x <= i}
             K == {x \in I : x <= j}
  <2>0. i \in Int /\ j \in Int /\ \A x \in I : x \in Int
    OBVIOUS
  <2>1. J \in SUBSET K /\ j \in K /\ j \notin J
    <3>1. \A x \in I : x <= i => x <= j
      BY <1>3, <2>0
    <3>2. ~(j <= i) /\ j <= j
      BY <1>3, <2>0
    <3> QED
      BY <3>1, <3>2
  <2>2. IsFiniteSet(K) /\ IsFiniteSet(J) /\ Cardinality(K) \in Nat /\ Cardinality(J) \in Nat
    BY <1>1, FS_Subset, FS_CardinalityType
  <2>3. Cardinality(J) <= Cardinality(K) /\ Cardinality(J) # Cardinality(K)
    BY <2>1, <2>2, FS_Subset
  <2> QED
    BY <2>2, <2>3 DEF Rank
<1>4. \A i, j \in I : Rank(I, i) = Rank(I, j) => i = j
  <2>1. ASSUME NEW i \in I, NEW j \in I, Rank(I, i) = Rank(I, j), i # j PROVE FALSE
    <3>1. (i < j \/ j < i) /\ Rank(I, i) \in Int
      BY <1>1, <1>2, <2>1
    <3> QED
      BY <1>3, <2>1, <3>1
  <2> QED
    BY <2>1
<1>5. T \in SUBSET (1..n)
  BY <1>2
<1>6. ExistsBijection(I, T)
  <2> DEFINE g == [i \in I |-> Rank(I, i)]
  <2>1. /\ g \in [I -> T] /\ (\A i, j \in I : g[i] = g[j] => i = j)
        /\ \A t \in T : \E i \in I : g[i] = t
    BY <1>4
  <2> HIDE DEF g, T
  <2>2. g \in Bijection(I, T)
    BY <2>1, Fun_IsBij
  <2> QED
    BY <2>2 DEF ExistsBijection
<1> HIDE DEF T, n
<1>7. Cardinality(T) = n
  BY <1>1, <1>6, FS_Bijection DEF n
<1>8. IsFiniteSet(1..n) /\ Cardinality(1..n) = n
  BY <1>1, FS_Interval
<1>9. T = 1..n
  BY <1>5, <1>7, <1>8, FS_Subset
<1> QED
  BY <1>1, <1>2, <1>4, <1>9 DEF T, n

\* What is found is at the place of its rank.
LEMMA SiftRank ==
  ASSUME NEW S, NEW s \in Seq(S), NEW f
  PROVE  LET I == Found(s, f) IN
         /\ I \in SUBSET (1..Len(s)) /\ Len(s) \in Nat /\ Cardinality(I) \in Nat
         /\ DOMAIN Sift(s, f) = 1..Cardinality(I)
         /\ Sift(s, f) = [k \in 1..Cardinality(I) |-> Sift(s, f)[k]]
         /\ \A i \in I : Rank(I, i) \in 1..Cardinality(I) /\ Sift(s, f)[Rank(I, i)] = f[s[i]]
         /\ \A k \in 1..Cardinality(I) : \E i \in I : Rank(I, i) = k
<1> DEFINE I == Found(s, f)
<1>1. Len(s) \in Nat /\ DOMAIN s = 1..Len(s) /\ I \in SUBSET (1..Len(s))
  BY LenProperties DEF Found
<1>2. /\ Cardinality(I) \in Nat
      /\ \A i \in I : Rank(I, i) \in 1..Cardinality(I)
      /\ \A i, j \in I : Rank(I, i) = Rank(I, j) => i = j
      /\ \A k \in 1..Cardinality(I) : \E i \in I : Rank(I, i) = k
  BY <1>1, Ranks
<1>3. Sift(s, f) = [k \in 1..Cardinality(I) |-> f[s[CHOOSE i \in I : Rank(I, i) = k]]]
  BY DEF Sift, Found, Rank
<1>4. \A i \in I : (CHOOSE j \in I : Rank(I, j) = Rank(I, i)) = i
  BY <1>2
<1> HIDE DEF I
<1>5. \A i \in I : Sift(s, f)[Rank(I, i)] = f[s[i]]
  BY <1>2, <1>3, <1>4
<1> QED
  BY <1>1, <1>2, <1>3, <1>5 DEF I

\* And there is nothing else.
LEMMA SiftIs ==
  ASSUME NEW S, NEW s \in Seq(S), NEW f, NEW R, NEW q \in Seq(R),
         Len(q) = Cardinality(Found(s, f)),
         \A i \in Found(s, f) : q[Rank(Found(s, f), i)] = f[s[i]]
  PROVE  Sift(s, f) = q
<1> DEFINE I == Found(s, f)
           n == Cardinality(I)
           t == Sift(s, f)
<1>1. /\ n \in Nat /\ t = [k \in 1..n |-> t[k]]
      /\ \A i \in I : t[Rank(I, i)] = f[s[i]]
      /\ \A k \in 1..n : \E i \in I : Rank(I, i) = k
  BY SiftRank
<1>2. q = [k \in 1..n |-> q[k]]
  BY LenProperties
<1>3. \A i \in I : q[Rank(I, i)] = f[s[i]]
  OBVIOUS
<1> HIDE DEF I, n, t
<1>4. ASSUME NEW k \in 1..n PROVE t[k] = q[k]
  <2>1. PICK i \in I : Rank(I, i) = k
    BY <1>1
  <2> QED
    BY <1>1, <1>3, <2>1
<1>5. t = q
  BY <1>1, <1>2, <1>4
<1> QED
  BY <1>5 DEF t

\* The values of f.
LEMMA SiftType ==
  ASSUME NEW S, NEW s \in Seq(S), NEW f, NEW R, \A x \in DOMAIN f : f[x] \in R
  PROVE  Sift(s, f) \in Seq(R)
<1> DEFINE I == Found(s, f)
           n == Cardinality(I)
           t == Sift(s, f)
<1>1. /\ n \in Nat /\ t = [k \in 1..n |-> t[k]]
      /\ \A i \in I : t[Rank(I, i)] = f[s[i]]
      /\ \A k \in 1..n : \E i \in I : Rank(I, i) = k
  BY SiftRank
<1>2. \A i \in I : f[s[i]] \in R
  BY DEF Found
<1> HIDE DEF I, n, t
<1>3. \A k \in 1..n : t[k] \in R
  BY <1>1, <1>2
<1>4. t \in [1..n -> R]
  BY <1>1, <1>3
<1> QED
  BY <1>1, <1>4 DEF t

\* Nothing found, or one.
LEMMA SiftNone ==
  ASSUME NEW S, NEW s \in Seq(S), NEW f, Found(s, f) = {}
  PROVE  Sift(s, f) = <<>>
<1>1. Cardinality(Found(s, f)) = 0
  BY FS_EmptySet
<1>2. << >> \in Seq({}) /\ Len(<< >>) = 0
  BY EmptySeq
<1> DEFINE q == << >>
<1> HIDE DEF q
<1>3. q \in Seq({}) /\ Len(q) = 0
  BY <1>2 DEF q
<1>4. Sift(s, f) = q
  BY <1>1, <1>3, SiftIs
<1> QED
  BY <1>4 DEF q

\* One element is found.
LEMMA SiftOne ==
  ASSUME NEW S, NEW s \in Seq(S), NEW f, NEW i, Found(s, f) = {i}
  PROVE  Sift(s, f) = <<f[s[i]]>>
<1> DEFINE q == <<f[s[i]]>>
<1>0. Found(s, f) \in SUBSET (1..Len(s)) /\ Len(s) \in Nat
  BY SiftRank
<1>1. Cardinality({i}) = 1 /\ i \in Int
  <2>1. i \in 1..Len(s)
    BY <1>0
  <2>2. i \in Int
    BY <1>0, <2>1
  <2>3. Cardinality({i}) = 1
    BY FS_Singleton
  <2> QED
    BY <2>2, <2>3
<1>2. q \in Seq({f[s[i]]}) /\ Len(q) = 1 /\ q[1] = f[s[i]]
  OBVIOUS
<1>3. Rank({i}, i) = 1
  <2>1. {j \in {i} : j <= i} = {i}
    BY <1>1
  <2> QED
    BY <1>1, <2>1 DEF Rank
<1>4. \A k \in Found(s, f) : q[Rank(Found(s, f), k)] = f[s[k]]
  BY <1>2, <1>3
<1>5. Len(q) = Cardinality(Found(s, f))
  BY <1>1, <1>2
<1> DEFINE R == {f[s[i]]}
<1>6. q \in Seq(R)
  BY <1>2
<1> HIDE DEF q, R
<1>7. Sift(s, f) = q
  BY <1>4, <1>5, <1>6, SiftIs
<1> QED
  BY <1>7 DEF q

\* A set of numbers moved up by n.
LEMMA Moved ==
  ASSUME NEW n \in Nat, NEW m \in Nat, NEW A \in SUBSET (1..m), NEW B \in SUBSET (1..n)
  PROVE  /\ IsFiniteSet(B \cup {n + i : i \in A})
         /\ Cardinality(B \cup {n + i : i \in A}) = Cardinality(B) + Cardinality(A)
<1> DEFINE H == {n + i : i \in A}
           g == [i \in A |-> n + i]
<1>1. IsFiniteSet(A) /\ IsFiniteSet(B) /\ Cardinality(A) \in Nat /\ Cardinality(B) \in Nat
  BY Ranks
<1>2. g \in Bijection(A, H)
  <2>1. \A i, j \in A : g[i] = g[j] => i = j
    OBVIOUS
  <2>2. g \in [A -> H] /\ \A h \in H : \E i \in A : g[i] = h
    OBVIOUS
  <2> HIDE DEF g, H
  <2> QED
    BY <2>1, <2>2, Fun_IsBij
<1> HIDE DEF g, H
<1>3. IsFiniteSet(H) /\ Cardinality(H) = Cardinality(A)
  <2>1. ExistsBijection(A, H)
    BY <1>2 DEF ExistsBijection
  <2> QED
    BY <1>1, <2>1, FS_Bijection
<1>4. B \cap H = {}
  BY DEF H
<1>5. Cardinality(B \cap H) = 0
  BY <1>4, FS_EmptySet
<1>6. /\ IsFiniteSet(B \cup H)
      /\ Cardinality(B \cup H) = Cardinality(B) + Cardinality(H) - Cardinality(B \cap H)
  BY <1>1, <1>3, FS_Union
<1> QED
  BY <1>1, <1>3, <1>5, <1>6 DEF H

\* What is found in one sequence after another.
LEMMA SiftConcat ==
  ASSUME NEW S, NEW s \in Seq(S), NEW t \in Seq(S), NEW f
  PROVE  Sift(s \o t, f) = Sift(s, f) \o Sift(t, f)
<1> DEFINE n == Len(s)
           m == Len(t)
           I == Found(s, f)
           J == Found(t, f)
           K == Found(s \o t, f)
           R == {f[x] : x \in DOMAIN f}
           a == Sift(s, f)
           b == Sift(t, f)
<1>1. /\ n \in Nat /\ m \in Nat /\ s \o t \in Seq(S)
      /\ DOMAIN s = 1..n /\ DOMAIN t = 1..m /\ DOMAIN (s \o t) = 1..(n + m)
      /\ \A i \in 1..n : (s \o t)[i] = s[i]
      /\ \A i \in (n + 1)..(n + m) : (s \o t)[i] = t[i - n]
  BY ConcatProperties, LenProperties
<1>2. /\ I \in SUBSET (1..n) /\ J \in SUBSET (1..m) /\ K \in SUBSET (1..(n + m))
      /\ Cardinality(I) \in Nat /\ Cardinality(J) \in Nat
  <2>1. I \in SUBSET (1..n) /\ J \in SUBSET (1..m)
    BY <1>1 DEF Found
  <2>2. K \in SUBSET (1..(n + m))
    BY <1>1 DEF Found
  <2>3. Cardinality(I) \in Nat
    BY SiftRank
  <2>4. Cardinality(J) \in Nat
    BY SiftRank
  <2> QED
    BY <2>1, <2>2, <2>3, <2>4
<1>3. \A i \in 1..(n + m) : i \in 1..n \/ (i - n \in 1..m /\ i \in (n + 1)..(n + m) /\ n + (i - n) = i)
  BY <1>1
<1>4. \A i \in 1..m : n + i \in (n + 1)..(n + m) /\ n + i - n = i /\ n + i \in 1..(n + m)
  BY <1>1
<1>5. \A i \in 1..n : i \in 1..(n + m)
  BY <1>1
<1>6. K = I \cup {n + i : i \in J}
  <2>1. ASSUME NEW i \in K PROVE i \in I \cup {n + j : j \in J}
    BY <1>1, <1>2, <1>3 DEF Found
  <2>2. ASSUME NEW i \in I PROVE i \in K
    BY <1>1, <1>2, <1>5 DEF Found
  <2>3. ASSUME NEW i \in J PROVE n + i \in K
    BY <1>1, <1>2, <1>4 DEF Found
  <2> QED
    BY <2>1, <2>2, <2>3
<1>7. Cardinality(K) = Cardinality(I) + Cardinality(J)
  <2> HIDE DEF I, J, K, n, m
  <2> QED
    BY <1>1, <1>2, <1>6, Moved
<1>8. /\ a \in Seq(R) /\ b \in Seq(R) /\ Len(a) = Cardinality(I) /\ Len(b) = Cardinality(J)
  <2>1. a \in Seq(R)
    BY SiftType
  <2>2. b \in Seq(R)
    BY SiftType
  <2>3. DOMAIN a = 1..Cardinality(I)
    BY SiftRank
  <2>4. DOMAIN b = 1..Cardinality(J)
    BY SiftRank
  <2> HIDE DEF a, b, I, J, R
  <2>5. Len(a) \in Nat /\ Len(b) \in Nat /\ DOMAIN a = 1..Len(a) /\ DOMAIN b = 1..Len(b)
    BY <2>1, <2>2, LenProperties
  <2> QED
    BY <1>2, <2>1, <2>2, <2>3, <2>4, <2>5
<1>9. /\ a \o b \in Seq(R) /\ Len(a \o b) = Cardinality(K)
      /\ \A i \in 1..Cardinality(I) : (a \o b)[i] = a[i]
      /\ \A i \in 1..Cardinality(J) : (a \o b)[Cardinality(I) + i] = b[i]
  <2> HIDE DEF a, b, I, J, R, K
  <2>1. /\ a \o b \in Seq(R) /\ Len(a \o b) = Len(a) + Len(b)
        /\ \A i \in 1..Len(a) : (a \o b)[i] = a[i]
        /\ \A i \in (Len(a) + 1)..(Len(a) + Len(b)) : (a \o b)[i] = b[i - Len(a)]
    <3>1. a \in Seq(R) /\ b \in Seq(R)
      BY <1>8
    <3> QED
      BY <3>1, ConcatProperties
  <2>2. \A i \in 1..Cardinality(J) :
          /\ Cardinality(I) + i \in (Len(a) + 1)..(Len(a) + Len(b))
          /\ (Cardinality(I) + i) - Len(a) = i
    BY <1>2, <1>8
  <2> QED
    BY <1>7, <1>8, <2>1, <2>2
<1>10. ASSUME NEW i \in I PROVE (a \o b)[Rank(K, i)] = f[(s \o t)[i]]
  <2>1. {j \in K : j <= i} = {j \in I : j <= i}
    <3>1. \A j \in J : ~(n + j <= i)
      BY <1>1, <1>2
    <3> HIDE DEF I, J, K
    <3> QED
      BY <1>6, <3>1
  <2>2. Rank(K, i) = Rank(I, i)
    BY <2>1 DEF Rank
  <2>3. Rank(I, i) \in 1..Cardinality(I) /\ a[Rank(I, i)] = f[s[i]]
    BY SiftRank
  <2>4. (s \o t)[i] = s[i]
    BY <1>1, <1>2
  <2> HIDE DEF a, b, I, J, K
  <2>5. (a \o b)[Rank(I, i)] = a[Rank(I, i)]
    BY <1>9, <2>3
  <2> QED
    BY <2>2, <2>3, <2>4, <2>5
<1>11. ASSUME NEW i \in J PROVE (a \o b)[Rank(K, n + i)] = f[(s \o t)[n + i]]
  <2> DEFINE A == {j \in J : j <= i}
  <2>1. {j \in K : j <= n + i} = I \cup {n + j : j \in A}
    <3>1. \A j \in J : n + j <= n + i <=> j <= i
      BY <1>1, <1>2
    <3>2. \A j \in I : j <= n + i
      BY <1>1, <1>2
    <3> HIDE DEF I, J, K
    <3> QED
      BY <1>6, <3>1, <3>2
  <2>2. A \in SUBSET (1..m)
    BY <1>2
  <2>3. Cardinality(I \cup {n + j : j \in A}) = Cardinality(I) + Cardinality(A)
    BY <1>1, <1>2, <2>2, Moved
  <2>4. Rank(K, n + i) = Cardinality(I) + Rank(J, i)
    BY <2>1, <2>3 DEF Rank
  <2>5. Rank(J, i) \in 1..Cardinality(J) /\ b[Rank(J, i)] = f[t[i]]
    BY SiftRank
  <2>6. (s \o t)[n + i] = t[i]
    <3>1. i \in 1..m
      BY <1>2
    <3> QED
      BY <1>1, <1>4, <3>1
  <2> HIDE DEF a, b, I, J, K, A
  <2>7. (a \o b)[Cardinality(I) + Rank(J, i)] = b[Rank(J, i)]
    BY <1>9, <2>5
  <2> QED
    BY <2>4, <2>5, <2>6, <2>7
<1>12. \A k \in K : (a \o b)[Rank(K, k)] = f[(s \o t)[k]]
  <2> HIDE DEF K, I, J, a, b
  <2> QED
    BY <1>6, <1>10, <1>11
<1> DEFINE q == a \o b
           st == s \o t
<1>13. q \in Seq(R) /\ st \in Seq(S) /\ Len(q) = Cardinality(Found(st, f))
       /\ \A k \in Found(st, f) : q[Rank(Found(st, f), k)] = f[st[k]]
  BY <1>1, <1>9, <1>12
<1> HIDE DEF q, st, R
<1>14. Sift(st, f) = q
  BY <1>13, SiftIs
<1> QED
  BY <1>14 DEF q, st

\* One element: made something of, or passed over.
LEMMA SiftSingle ==
  ASSUME NEW f, NEW x
  PROVE  /\ x \in DOMAIN f => Sift(<<x>>, f) = <<f[x]>>
         /\ x \notin DOMAIN f => Sift(<<x>>, f) = <<>>
<1> DEFINE s == <<x>>
<1>1. s \in Seq({x}) /\ DOMAIN s = {1} /\ s[1] = x
  OBVIOUS
<1> HIDE DEF s
<1>2. ASSUME x \in DOMAIN f PROVE Sift(s, f) = <<f[x]>>
  <2>1. Found(s, f) = {1}
    BY <1>1, <1>2 DEF Found
  <2> QED
    BY <1>1, <2>1, SiftOne
<1>3. ASSUME x \notin DOMAIN f PROVE Sift(s, f) = <<>>
  <2>1. Found(s, f) = {}
    BY <1>1, <1>3 DEF Found
  <2> QED
    BY <1>1, <2>1, SiftNone
<1> QED
  BY <1>2, <1>3 DEF s

\* What f makes of a package for u.
Addressed(u, f) == [p \in [session : {u}, packet : DOMAIN f] |-> f[p.packet]]

\* OnTheWay is a sequence of what f makes.
LEMMA WayType ==
  ASSUME SysTypeOK, NEW u \in Users, NEW f, NEW R, \A x \in DOMAIN f : f[x] \in R
  PROVE  /\ OnTheWay(u, f) = Sift(toClient[u], f) \o Sift(sendQueue, Addressed(u, f))
         /\ Sift(toClient[u], f) \in Seq(R) /\ Sift(sendQueue, Addressed(u, f)) \in Seq(R)
         /\ OnTheWay(u, f) \in Seq(R)
<1>1. OnTheWay(u, f) = Sift(toClient[u], f) \o Sift(sendQueue, Addressed(u, f))
  BY DEF OnTheWay, Addressed
<1>2. Sift(toClient[u], f) \in Seq(R)
  BY Sequences, SiftType
<1>3. Sift(sendQueue, Addressed(u, f)) \in Seq(R)
  <2> DEFINE g == Addressed(u, f)
  <2>1. \A x \in DOMAIN g : g[x] \in R
    BY DEF Addressed
  <2> HIDE DEF g
  <2>2. Sift(sendQueue, g) \in Seq(R)
    BY <2>1, Sequences, SiftType
  <2> QED
    BY <2>2 DEF g
<1> QED
  BY <1>1, <1>2, <1>3, ConcatProperties

\* A handler pushes packages: what is for u comes last.
LEMMA WayPush ==
  ASSUME SysTypeOK, NEW pushed \in Seq(Packages), sendQueue' = sendQueue \o pushed,
         UNCHANGED toClient, NEW u \in Users, NEW f
  PROVE  OnTheWay(u, f)' = OnTheWay(u, f) \o Sift(pushed, Addressed(u, f))
<1> DEFINE R == {f[x] : x \in DOMAIN f}
           g == Addressed(u, f)
<1>1. \A x \in DOMAIN f : f[x] \in R
  OBVIOUS
<1>2. \A x \in DOMAIN g : g[x] \in R
  BY DEF Addressed
<1> HIDE DEF R, g
<1>3. Sift(pushed, g) \in Seq(R)
  BY <1>2, SiftType
<1>4. Sift(sendQueue \o pushed, g) = Sift(sendQueue, g) \o Sift(pushed, g)
  BY Sequences, SiftConcat
<1>5. /\ OnTheWay(u, f) = Sift(toClient[u], f) \o Sift(sendQueue, g)
      /\ Sift(toClient[u], f) \in Seq(R) /\ Sift(sendQueue, g) \in Seq(R)
  BY <1>1, WayType DEF g
<1>6. OnTheWay(u, f)' = Sift(toClient[u], f) \o Sift(sendQueue', g)
  BY DEF OnTheWay, Addressed, g
<1>7. OnTheWay(u, f)' = Sift(toClient[u], f) \o (Sift(sendQueue, g) \o Sift(pushed, g))
  BY <1>4, <1>6
<1>8. Sift(toClient[u], f) \o (Sift(sendQueue, g) \o Sift(pushed, g))
        = (Sift(toClient[u], f) \o Sift(sendQueue, g)) \o Sift(pushed, g)
  BY <1>3, <1>5, ConcatAssociative
<1> QED
  BY <1>5, <1>7, <1>8 DEF g

\* Packages of which f makes nothing for u.
LEMMA WayQuiet ==
  ASSUME SysTypeOK, NEW pushed \in Seq(Packages), sendQueue' = sendQueue \o pushed,
         UNCHANGED toClient, NEW u \in Users, NEW f,
         \A i \in DOMAIN pushed : pushed[i].session = u => pushed[i].packet \notin DOMAIN f
  PROVE  OnTheWay(u, f)' = OnTheWay(u, f)
<1> DEFINE g == Addressed(u, f)
           R == {f[x] : x \in DOMAIN f}
<1>1. Found(pushed, g) = {}
  BY DEF Found, Addressed
<1> HIDE DEF g
<1>2. Sift(pushed, g) = <<>>
  BY <1>1, SiftNone
<1>3. OnTheWay(u, f)' = OnTheWay(u, f) \o << >>
  BY <1>2, WayPush DEF g
<1>4. \A x \in DOMAIN f : f[x] \in R
  OBVIOUS
<1> HIDE DEF R
<1>5. OnTheWay(u, f) \in Seq(R)
  BY <1>4, WayType
<1> QED
  BY <1>3, <1>5, ConcatEmptySeq

\* A sequence is its head and its tail.
LEMMA HeadFirst ==
  ASSUME NEW S, NEW s \in Seq(S), s # <<>>
  PROVE  s = <<Head(s)>> \o Tail(s) /\ Tail(s) \in Seq(S) /\ Head(s) \in S
<1>1. Head(s) \in S /\ Tail(s) \in Seq(S) /\ <<Head(s)>> \in Seq(S)
  BY HeadTailProperties
<1> QED
  BY <1>1, HeadTailProperties, ConcatProperties

\* The send thread takes a package that is not for u, or one it drops of which
\* f makes nothing.
LEMMA WayDrop ==
  ASSUME SysTypeOK, sendQueue # <<>>, sendQueue' = Tail(sendQueue),
         NEW u \in Users, NEW f, toClient'[u] = toClient[u], Head(sendQueue).session # u
  PROVE  OnTheWay(u, f)' = OnTheWay(u, f)
<1> DEFINE g == Addressed(u, f)
           h == Head(sendQueue)
           q == Tail(sendQueue)
           R == {f[x] : x \in DOMAIN f}
<1>1. sendQueue = <<h>> \o q /\ q \in Seq(Packages) /\ h \in Packages
  BY HeadFirst, Sequences
<1>2. h \notin DOMAIN g
  BY DEF Addressed
<1>3. \A x \in DOMAIN g : g[x] \in R
  BY DEF Addressed
<1>4. sendQueue' = q
  OBVIOUS
<1> HIDE DEF g, h, q, R
<1>5. Sift(<<h>>, g) = <<>> /\ <<h>> \in Seq(Packages)
  BY <1>1, <1>2, SiftSingle
<1>6. Sift(sendQueue, g) = << >> \o Sift(q, g)
  <2> DEFINE hs == <<h>>
  <2>1. hs \in Seq(Packages) /\ q \in Seq(Packages) /\ sendQueue = hs \o q
    BY <1>1, <1>5
  <2> HIDE DEF hs
  <2>2. Sift(hs \o q, g) = Sift(hs, g) \o Sift(q, g)
    BY <2>1, SiftConcat
  <2> QED
    BY <1>5, <2>1, <2>2 DEF hs
<1>7. Sift(q, g) \in Seq(R)
  BY <1>1, <1>3, SiftType
<1>8. Sift(sendQueue, g) = Sift(sendQueue', g)
  BY <1>4, <1>6, <1>7, ConcatEmptySeq
<1> QED
  BY <1>8 DEF OnTheWay, Addressed, g

\* The send thread sends a package: what is on the way is what it was.
LEMMA WaySend ==
  ASSUME SysTypeOK, sendQueue # <<>>, sendQueue' = Tail(sendQueue), NEW f,
         NEW u, u = Head(sendQueue).session, NEW p, p = Head(sendQueue).packet,
         toClient' = [toClient EXCEPT ![u] = Append(@, p)], NEW v \in Users
  PROVE  OnTheWay(v, f)' = OnTheWay(v, f)
<1>1. u \in Users /\ p \in ServerPackets
  BY TakePackage DEF Packages
<1>2. /\ toClient'[u] = Append(toClient[u], p) /\ toClient[u] \in Seq(ServerPackets)
      /\ \A w \in Users : w # u => toClient'[w] = toClient[w]
  BY <1>1 DEF SysTypeOK
<1>3. CASE v # u
  BY <1>2, <1>3, WayDrop
<1>4. CASE v = u
  <2> DEFINE g == Addressed(u, f)
             h == Head(sendQueue)
             q == Tail(sendQueue)
             s == toClient[u]
             R == {f[x] : x \in DOMAIN f}
  <2>1. sendQueue = <<h>> \o q /\ q \in Seq(Packages) /\ h \in Packages
    BY HeadFirst, Sequences
  <2>2. (h \in DOMAIN g <=> p \in DOMAIN f) /\ (h \in DOMAIN g => g[h] = f[p])
    <3>1. h = [session |-> u, packet |-> p]
      BY <2>1 DEF Packages
    <3> QED
      BY <3>1 DEF Addressed
  <2>3. (\A x \in DOMAIN g : g[x] \in R) /\ \A x \in DOMAIN f : f[x] \in R
    BY DEF Addressed
  <2>4. sendQueue' = q /\ toClient'[u] = Append(s, p) /\ s \in Seq(ServerPackets)
    BY <1>2
  <2> HIDE DEF g, h, q, R, s
  <2>5. Sift(<<h>>, g) = Sift(<<p>>, f)
    BY <2>2, SiftSingle
  <2>6. Sift(sendQueue, g) = Sift(<<h>>, g) \o Sift(q, g)
    <3> DEFINE hs == <<h>>
    <3>1. hs \in Seq(Packages) /\ q \in Seq(Packages) /\ sendQueue = hs \o q
      BY <2>1
    <3> HIDE DEF hs
    <3>2. Sift(hs \o q, g) = Sift(hs, g) \o Sift(q, g)
      BY <3>1, SiftConcat
    <3> QED
      BY <3>1, <3>2 DEF hs
  <2>7. Append(s, p) = s \o <<p>> /\ <<p>> \in Seq(ServerPackets)
    BY <1>1, <2>4, AppendIsConcat
  <2>8. Sift(Append(s, p), f) = Sift(s, f) \o Sift(<<p>>, f)
    <3> DEFINE ps == <<p>>
    <3>1. ps \in Seq(ServerPackets) /\ s \in Seq(ServerPackets) /\ Append(s, p) = s \o ps
      BY <2>4, <2>7
    <3> HIDE DEF ps
    <3>2. Sift(s \o ps, f) = Sift(s, f) \o Sift(ps, f)
      BY <3>1, SiftConcat
    <3> QED
      BY <3>1, <3>2 DEF ps
  <2>9. Sift(s, f) \in Seq(R) /\ Sift(<<p>>, f) \in Seq(R) /\ Sift(q, g) \in Seq(R)
    BY <2>1, <2>3, <2>4, <2>7, SiftType
  <2>10. (Sift(s, f) \o Sift(<<p>>, f)) \o Sift(q, g) = Sift(s, f) \o (Sift(<<p>>, f) \o Sift(q, g))
    BY <2>9, ConcatAssociative
  <2>11. OnTheWay(u, f)' = Sift(Append(s, p), f) \o Sift(q, g)
    BY <2>4 DEF OnTheWay, Addressed, g
  <2>12. OnTheWay(u, f) = Sift(s, f) \o Sift(sendQueue, g)
    BY DEF OnTheWay, Addressed, g, s
  <2> QED
    BY <1>4, <2>5, <2>6, <2>8, <2>10, <2>11, <2>12
<1> QED
  BY <1>3, <1>4

\* The client of u receives one packet: it was the first on the way.
LEMMA WayReceive ==
  ASSUME SysTypeOK, NEW u \in Users, toClient[u] # <<>>, UNCHANGED sendQueue, NEW f,
         toClient' = [toClient EXCEPT ![u] = SubSeq(@, 2, Len(@))]
  PROVE  /\ OnTheWay(u, f) = Sift(<<Received(u)>>, f) \o OnTheWay(u, f)'
         /\ OnTheWay(u, f)' \in Seq({f[x] : x \in DOMAIN f})
         /\ \A v \in Users : v # u => OnTheWay(v, f)' = OnTheWay(v, f)
<1> DEFINE g == Addressed(u, f)
           s == toClient[u]
           p == Received(u)
           q == Tail(s)
           R == {f[x] : x \in DOMAIN f}
<1>1. /\ toClient'[u] = SubSeq(s, 2, Len(s)) /\ s \in Seq(ServerPackets)
      /\ \A v \in Users : v # u => toClient'[v] = toClient[v]
  BY DEF SysTypeOK
<1>2. SubSeq(s, 2, Len(s)) = Tail(s)
  BY <1>1, TailIsSubSeq
<1>3. s = <<p>> \o q /\ q \in Seq(ServerPackets) /\ p \in ServerPackets
  BY <1>1, HeadFirst DEF Received
<1>4. (\A x \in DOMAIN g : g[x] \in R) /\ \A x \in DOMAIN f : f[x] \in R
  BY DEF Addressed
<1>5. toClient'[u] = q
  BY <1>1, <1>2
<1> HIDE DEF g, p, q, R, s
<1>6. Sift(s, f) = Sift(<<p>>, f) \o Sift(q, f) /\ <<p>> \in Seq(ServerPackets)
  <2> DEFINE ps == <<p>>
  <2>1. ps \in Seq(ServerPackets) /\ q \in Seq(ServerPackets) /\ s = ps \o q
    BY <1>3
  <2> HIDE DEF ps
  <2>2. Sift(ps \o q, f) = Sift(ps, f) \o Sift(q, f)
    BY <2>1, SiftConcat
  <2> QED
    BY <2>1, <2>2 DEF ps
<1>7. Sift(<<p>>, f) \in Seq(R) /\ Sift(q, f) \in Seq(R) /\ Sift(sendQueue, g) \in Seq(R)
  BY <1>3, <1>4, <1>6, SiftType, Sequences
<1>8. (Sift(<<p>>, f) \o Sift(q, f)) \o Sift(sendQueue, g) = Sift(<<p>>, f) \o (Sift(q, f) \o Sift(sendQueue, g))
  BY <1>7, ConcatAssociative
<1>9. OnTheWay(u, f) = Sift(s, f) \o Sift(sendQueue, g)
  BY DEF OnTheWay, Addressed, g, s
<1>10. OnTheWay(u, f)' = Sift(q, f) \o Sift(sendQueue, g)
  BY <1>5 DEF OnTheWay, Addressed, g
<1>11. OnTheWay(u, f) = Sift(<<Received(u)>>, f) \o OnTheWay(u, f)'
  BY <1>6, <1>8, <1>9, <1>10 DEF p
<1>12. \A v \in Users : v # u => OnTheWay(v, f)' = OnTheWay(v, f)
  BY <1>1 DEF OnTheWay
<1>13. OnTheWay(u, f)' \in Seq(R)
  BY <1>7, <1>10, ConcatProperties
<1> QED
  BY <1>11, <1>12, <1>13 DEF R

\* A sequence is its first k elements and those after them.
LEMMA TakenApart ==
  ASSUME NEW S, NEW s \in Seq(S), NEW k \in 1..Len(s)
  PROVE  /\ s = SubSeq(s, 1, k) \o SubSeq(s, k + 1, Len(s))
         /\ SubSeq(s, 1, k) \in Seq(S) /\ SubSeq(s, k + 1, Len(s)) \in Seq(S)
         /\ SubSeq(s, 1, k) # <<>> /\ Head(SubSeq(s, 1, k)) = Head(s)
<1> DEFINE n == Len(s)
           a == SubSeq(s, 1, k)
           b == SubSeq(s, k + 1, n)
<1>1. n \in Nat /\ k \in Nat /\ 1 <= k /\ k <= n /\ DOMAIN s = 1..n /\ \A i \in 1..n : s[i] \in S
  BY LenProperties, ElementOfSeq
<1>2. /\ b \in Seq(S) /\ DOMAIN b = 1..(n - k) /\ \A i \in 1..(n - k) : b[i] = s[k + i]
      /\ Head(s) = s[1]
  BY RestOfStream
<1>3. a \in Seq(S) /\ Len(a) = k /\ \A i \in 1..k : a[i] = s[i]
  <2>1. \A i \in 1..k : s[i] \in S
    BY <1>1
  <2>2. /\ a \in Seq(S) /\ Len(a) = IF 1 <= k THEN k - 1 + 1 ELSE 0
        /\ \A i \in 1..(k - 1 + 1) : a[i] = s[1 + i - 1]
    BY <1>1, <2>1, SubSeqProperties
  <2> QED
    BY <1>1, <2>2
<1> HIDE DEF a, b, n
<1>4. n = Len(s) /\ Len(b) = n - k
  <2> DEFINE m == n - k
  <2>1. m \in Nat /\ DOMAIN b = 1..m
    BY <1>1, <1>2
  <2>2. Len(b) \in Nat /\ DOMAIN b = 1..Len(b)
    BY <1>2, LenProperties
  <2> HIDE DEF m
  <2>3. Len(b) = m
    BY <2>1, <2>2
  <2> QED
    BY <2>3 DEF m, n
<1>5. /\ a \o b \in Seq(S) /\ Len(a \o b) = n
      /\ \A i \in 1..n : (a \o b)[i] = IF i <= k THEN a[i] ELSE b[i - k]
  <2>1. /\ a \o b \in Seq(S) /\ Len(a \o b) = Len(a) + Len(b)
        /\ \A i \in 1..Len(a) + Len(b) : (a \o b)[i] = IF i <= Len(a) THEN a[i] ELSE b[i - Len(a)]
    BY <1>2, <1>3, ConcatProperties
  <2>2. Len(a) + Len(b) = n
    BY <1>1, <1>3, <1>4
  <2> QED
    BY <1>3, <2>1, <2>2
<1>6. ASSUME NEW i \in 1..n PROVE (a \o b)[i] = s[i]
  <2>1. CASE i <= k
    <3>1. i \in 1..k
      BY <1>1, <2>1
    <3> QED
      BY <1>3, <1>5, <2>1, <3>1
  <2>2. CASE i > k
    <3>1. i - k \in 1..(n - k) /\ k + (i - k) = i /\ ~(i <= k)
      BY <1>1, <2>2
    <3>2. b[i - k] = s[k + (i - k)]
      BY <1>2, <3>1
    <3> QED
      BY <1>5, <3>1, <3>2
  <2>3. i <= k \/ i > k
    BY <1>1
  <2> QED
    BY <2>1, <2>2, <2>3
<1> DEFINE ab == a \o b
<1>7. ab \in Seq(S) /\ Len(ab) = Len(s) /\ \A i \in 1..Len(ab) : ab[i] = s[i]
  BY <1>4, <1>5, <1>6
<1> HIDE DEF ab
<1>8. ab = s
  BY <1>7, SeqEqual
<1>9. a # <<>> /\ Head(a) = s[1]
  BY <1>1, <1>3
<1> QED
  BY <1>2, <1>3, <1>4, <1>8, <1>9 DEF a, b, ab

\* A client takes its first packet, and those that came with it are lost.
LEMMA WayLoses ==
  ASSUME SysTypeOK, NEW u \in Users, UNCHANGED sendQueue, NEW f, NEW k \in 1..Len(toClient[u]),
         toClient' = [toClient EXCEPT ![u] = SubSeq(@, k + 1, Len(@))]
  PROVE  /\ OnTheWay(u, f)' \in Seq({f[x] : x \in DOMAIN f})
         /\ \E lost \in Seq({f[x] : x \in DOMAIN f}) :
              OnTheWay(u, f) = (Sift(<<Received(u)>>, f) \o lost) \o OnTheWay(u, f)'
         /\ \A v \in Users : v # u => OnTheWay(v, f)' = OnTheWay(v, f)
<1> DEFINE g == Addressed(u, f)
           s == toClient[u]
           p == Received(u)
           a == SubSeq(s, 1, k)
           b == SubSeq(s, k + 1, Len(s))
           t == Tail(a)
           R == {f[x] : x \in DOMAIN f}
           sent == Sift(sendQueue, g)
<1>1. /\ toClient'[u] = b /\ s \in Seq(ServerPackets)
      /\ \A v \in Users : v # u => toClient'[v] = toClient[v]
  BY DEF SysTypeOK
<1>2. /\ s = a \o b /\ a \in Seq(ServerPackets) /\ b \in Seq(ServerPackets) /\ a # <<>> /\ Head(a) = p
  BY <1>1, TakenApart DEF Received
<1>3. OnTheWay(u, f) = Sift(s, f) \o sent
  BY DEF OnTheWay, Addressed
<1>4. OnTheWay(u, f)' = Sift(b, f) \o sent
  BY <1>1 DEF OnTheWay, Addressed
<1>5. sent \in Seq(R)
  <2>1. \A x \in DOMAIN f : f[x] \in R
    OBVIOUS
  <2> HIDE DEF R, sent, g
  <2>2. Sift(sendQueue, Addressed(u, f)) \in Seq(R)
    BY <2>1, WayType
  <2> QED
    BY <2>2 DEF sent, g
<1>6. \A x \in DOMAIN f : f[x] \in R
  OBVIOUS
<1> HIDE DEF g, s, p, a, b, R, sent
<1>7. a = <<p>> \o t /\ t \in Seq(ServerPackets) /\ p \in ServerPackets
  BY <1>2, HeadFirst
<1> HIDE DEF t
<1> DEFINE ps == <<p>>
<1>8. ps \in Seq(ServerPackets) /\ a = ps \o t
  BY <1>7
<1> HIDE DEF ps
<1>9. Sift(s, f) = Sift(a, f) \o Sift(b, f) /\ Sift(a, f) = Sift(ps, f) \o Sift(t, f)
  <2>1. Sift(a \o b, f) = Sift(a, f) \o Sift(b, f)
    BY <1>2, SiftConcat
  <2>2. Sift(ps \o t, f) = Sift(ps, f) \o Sift(t, f)
    BY <1>7, <1>8, SiftConcat
  <2> QED
    BY <1>2, <1>8, <2>1, <2>2
<1>10. Sift(ps, f) \in Seq(R) /\ Sift(t, f) \in Seq(R) /\ Sift(b, f) \in Seq(R)
  BY <1>2, <1>6, <1>7, <1>8, SiftType
<1>11. Sift(ps, f) \o Sift(t, f) \in Seq(R)
  BY <1>10, ConcatProperties
<1>12. ((Sift(ps, f) \o Sift(t, f)) \o Sift(b, f)) \o sent = (Sift(ps, f) \o Sift(t, f)) \o (Sift(b, f) \o sent)
  BY <1>5, <1>10, <1>11, ConcatAssociative
<1>13. OnTheWay(u, f) = (Sift(ps, f) \o Sift(t, f)) \o OnTheWay(u, f)'
  BY <1>3, <1>4, <1>9, <1>12
<1>14. OnTheWay(u, f)' \in Seq(R)
  BY <1>4, <1>5, <1>10, ConcatProperties
<1>15. \A v \in Users : v # u => OnTheWay(v, f)' = OnTheWay(v, f)
  BY <1>1 DEF OnTheWay
<1> QED
  BY <1>10, <1>13, <1>14, <1>15 DEF R, ps, p

\* A cast to members of one room: one item for each of them, none for the others.
LEMMA WayCast ==
  ASSUME NEW r \in RoomIds, NEW S \in SUBSET ({r} \X Users), NEW o \in Orders(S),
         NEW p \in ServerPackets, NEW f, NEW u \in Users
  PROVE  /\ <<r, u>> \in S /\ p \in DOMAIN f => Sift(Cast(o, p), Addressed(u, f)) = <<f[p]>>
         /\ ~(<<r, u>> \in S /\ p \in DOMAIN f) => Sift(Cast(o, p), Addressed(u, f)) = <<>>
<1> DEFINE c == Cast(o, p)
           g == Addressed(u, f)
<1>1. S \in SUBSET (RoomIds \X Users)
  OBVIOUS
<1>2. /\ c \in Seq(Packages) /\ Len(c) \in Nat /\ DOMAIN c = 1..Len(c)
      /\ \A i \in DOMAIN c : c[i].packet = p /\ \E s \in S : c[i].session = s[2]
      /\ \A s \in S : \E i \in DOMAIN c : c[i].session = s[2]
      /\ \A i, j \in DOMAIN c : i < j => c[i].session # c[j].session
  <2>1. /\ c \in Seq(Packages)
        /\ \A i \in DOMAIN c : c[i].packet = p /\ \E s \in S : c[i].session = s[2]
        /\ \A s \in S : \E i \in DOMAIN c : c[i].session = s[2]
    BY <1>1, CastFacts
  <2>2. \A i, j \in DOMAIN c : i < j => c[i].session # c[j].session
    BY <1>1, CastFacts
  <2> QED
    BY <2>1, <2>2, LenProperties
<1> HIDE DEF c
<1>3. \A i \in DOMAIN c : c[i].session = u => <<r, u>> \in S
  <2>1. \A s \in S : s = <<r, s[2]>>
    OBVIOUS
  <2>2. ASSUME NEW i \in DOMAIN c, c[i].session = u PROVE <<r, u>> \in S
    <3>1. PICK s \in S : c[i].session = s[2]
      BY <1>2
    <3> QED
      BY <2>1, <2>2, <3>1
  <2> QED
    BY <2>2
<1>4. \A i \in DOMAIN c : c[i] \in Packages
  BY <1>2, ElementOfSeq
<1>5. \A i \in DOMAIN c : c[i] \in DOMAIN g <=> (c[i].session = u /\ p \in DOMAIN f)
  <2>1. \A i \in DOMAIN c : c[i] = [session |-> c[i].session, packet |-> p]
    BY <1>2, <1>4 DEF Packages
  <2> QED
    BY <2>1 DEF Addressed
<1>6. ASSUME <<r, u>> \in S, p \in DOMAIN f PROVE Sift(c, g) = <<f[p]>>
  <2>1. PICK i \in DOMAIN c : c[i].session = u
    <3>1. <<r, u>>[2] = u
      OBVIOUS
    <3> QED
      BY <1>2, <1>6, <3>1
  <2>2. \A j \in DOMAIN c : c[j].session = u => j = i
    <3>1. \A j \in DOMAIN c : j = i \/ i < j \/ j < i
      BY <1>2
    <3> QED
      BY <1>2, <2>1, <3>1
  <2>3. Found(c, g) = {i}
    BY <1>5, <1>6, <2>1, <2>2 DEF Found
  <2>4. g[c[i]] = f[p]
    BY <1>2, <1>5, <1>6, <2>1 DEF Addressed
  <2> HIDE DEF g
  <2>5. Sift(c, g) = <<g[c[i]]>>
    <3>1. c \in Seq(Packages)
      BY <1>2
    <3> QED
      BY <2>3, <3>1, SiftOne
  <2> QED
    BY <2>4, <2>5
<1>7. ASSUME ~(<<r, u>> \in S /\ p \in DOMAIN f) PROVE Sift(c, g) = <<>>
  <2>1. Found(c, g) = {}
    BY <1>3, <1>5, <1>7 DEF Found
  <2> HIDE DEF g
  <2> QED
    BY <1>2, <2>1, SiftNone
<1> QED
  BY <1>6, <1>7 DEF c

-----------------------------------------------------------------------------
(* What the handlers push, for those in a room and for one user.            *)

\* The users S of room r are told p; after that comes rest.
Tells(r, S, p, rest) ==
  /\ rest \in Seq(Packages)
  /\ \E o \in Orders({r} \X S) : sendQueue' = sendQueue \o (Cast(o, p) \o rest)

\* What f makes of the packet p told to S, on its way to v.
Share(S, p, v, f) == IF v \in S /\ p \in DOMAIN f THEN <<f[p]>> ELSE <<>>

\* Each of them has it on its way, once, and nobody else.
LEMMA TellWay ==
  ASSUME SysTypeOK, NEW r \in RoomIds, NEW S \in SUBSET Users, NEW p \in ServerPackets, NEW rest \in Seq(Packages),
         Tells(r, S, p, rest), UNCHANGED toClient, NEW f, NEW v \in Users
  PROVE  OnTheWay(v, f)' =
           (OnTheWay(v, f) \o Share(S, p, v, f)) \o Sift(rest, Addressed(v, f))
<1> DEFINE seats == {r} \X S
           g == Addressed(v, f)
           told == Share(S, p, v, f)
           R == {f[x] : x \in DOMAIN f}
<1>1. PICK o \in Orders(seats) : sendQueue' = sendQueue \o (Cast(o, p) \o rest)
  BY DEF Tells
<1>2. seats \in SUBSET ({r} \X Users) /\ seats \in SUBSET (RoomIds \X Users) /\ (<<r, v>> \in seats <=> v \in S)
  OBVIOUS
<1>3. rest \in Seq(Packages)
  OBVIOUS
<1> HIDE DEF seats
<1>4. Cast(o, p) \in Seq(Packages)
  BY <1>2, CastFacts
<1>5. Sift(Cast(o, p), g) = told
  BY <1>2, WayCast DEF Share
<1>6. (\A x \in DOMAIN f : f[x] \in R) /\ \A x \in DOMAIN g : g[x] \in R
  BY DEF Addressed
<1>7. told \in Seq(R)
  <2>1. p \in DOMAIN f => f[p] \in R
    BY <1>6
  <2> HIDE DEF R
  <2> QED
    BY <2>1 DEF Share
<1> DEFINE c == Cast(o, p)
           pushed == c \o rest
<1>8. sendQueue' = sendQueue \o pushed /\ c \in Seq(Packages)
  BY <1>1, <1>4
<1> HIDE DEF c, R, told, g
<1>9. pushed \in Seq(Packages) /\ Sift(pushed, g) = Sift(c, g) \o Sift(rest, g)
  BY <1>3, <1>8, SiftConcat, ConcatProperties
<1>10. Sift(rest, g) \in Seq(R) /\ OnTheWay(v, f) \in Seq(R)
  <2>1. Sift(rest, g) \in Seq(R)
    BY <1>3, <1>6, SiftType
  <2>2. OnTheWay(v, f) \in Seq(R)
    BY <1>6, WayType
  <2> QED
    BY <2>1, <2>2
<1> HIDE DEF pushed
<1>11. OnTheWay(v, f)' = OnTheWay(v, f) \o Sift(pushed, g)
  BY <1>8, <1>9, WayPush DEF g
<1>12. OnTheWay(v, f)' = OnTheWay(v, f) \o (told \o Sift(rest, g))
  BY <1>5, <1>9, <1>11 DEF c
<1>13. OnTheWay(v, f) \o (told \o Sift(rest, g)) = (OnTheWay(v, f) \o told) \o Sift(rest, g)
  BY <1>7, <1>10, ConcatAssociative
<1> QED
  BY <1>12, <1>13 DEF g, told

\* What is then on its way.
LEMMA TellComing ==
  ASSUME SysTypeOK, NEW r \in RoomIds, NEW S \in SUBSET Users, NEW p \in ServerPackets, NEW rest,
         Tells(r, S, p, rest), UNCHANGED toClient, NEW v \in Users
  PROVE  /\ Coming(v) \subseteq Coming(v)'
         /\ \A q \in Coming(v)' :
              q \in Coming(v) \/ (q = p /\ v \in S)
                \/ \E i \in DOMAIN rest : rest[i].session = v /\ rest[i].packet = q
<1> DEFINE seats == {r} \X S
<1>1. PICK o \in Orders(seats) : sendQueue' = sendQueue \o (Cast(o, p) \o rest)
  BY DEF Tells
<1>2. seats \in SUBSET (RoomIds \X Users) /\ rest \in Seq(Packages) /\ \A s \in seats : s[2] \in S
  BY DEF Tells
<1> HIDE DEF seats
<1> DEFINE c == Cast(o, p)
           pushed == c \o rest
<1>3. c \in Seq(Packages) /\ \A i \in DOMAIN c : c[i].packet = p /\ c[i].session \in S
  BY <1>2, CastFacts
<1> HIDE DEF c
<1>4. /\ pushed \in Seq(Packages)
      /\ \A i \in DOMAIN pushed :
           (i \in DOMAIN c /\ pushed[i] = c[i]) \/ \E j \in DOMAIN rest : pushed[i] = rest[j]
  <2>1. /\ pushed \in Seq(Packages) /\ Len(pushed) = Len(c) + Len(rest)
        /\ \A i \in 1..Len(c) : pushed[i] = c[i]
        /\ \A i \in (Len(c) + 1)..(Len(c) + Len(rest)) : pushed[i] = rest[i - Len(c)]
    BY <1>2, <1>3, ConcatProperties
  <2>2. /\ Len(c) \in Nat /\ DOMAIN c = 1..Len(c) /\ Len(rest) \in Nat /\ DOMAIN rest = 1..Len(rest)
        /\ DOMAIN pushed = 1..Len(pushed)
    BY <1>2, <1>3, <2>1, LenProperties
  <2> HIDE DEF pushed
  <2>3. ASSUME NEW i \in DOMAIN pushed, i \notin DOMAIN c PROVE \E j \in DOMAIN rest : pushed[i] = rest[j]
    <3>1. i \in (Len(c) + 1)..(Len(c) + Len(rest)) /\ i - Len(c) \in DOMAIN rest
      BY <2>1, <2>2, <2>3
    <3> QED
      BY <2>1, <3>1
  <2> QED
    BY <2>1, <2>2, <2>3
<1>5. sendQueue' = sendQueue \o pushed
  BY <1>1 DEF c
<1> HIDE DEF pushed
<1>6. /\ Coming(v) \subseteq Coming(v)'
      /\ \A q \in Coming(v)' :
           q \in Coming(v) \/ \E i \in DOMAIN pushed : pushed[i].session = v /\ pushed[i].packet = q
  BY <1>4, <1>5, PushPackages
<1> QED
  BY <1>3, <1>4, <1>6

\* The seats of one room.
LEMMA SeatsOf ==
  ASSUME NEW r, users[r] \in SUBSET Users
  PROVE  Seats({r}) = {r} \X users[r]
<1>1. ASSUME NEW s \in Seats({r}) PROVE s \in {r} \X users[r]
  <2>1. s \in {r} \X Users /\ s[2] \in users[s[1]]
    BY DEF Seats
  <2>2. PICK v \in Users : s = <<r, v>>
    BY <2>1
  <2> QED
    BY <2>1, <2>2
<1>2. ASSUME NEW s \in {r} \X users[r] PROVE s \in Seats({r})
  <2>1. PICK v \in users[r] : s = <<r, v>>
    OBVIOUS
  <2>2. s \in {r} \X Users /\ s[1] = r /\ s[2] = v
    BY <2>1
  <2> QED
    BY <2>1, <2>2 DEF Seats
<1> QED
  BY <1>1, <1>2

\* Room::ExitRoom tells the room.
LEMMA ExitTells ==
  ASSUME TypeOK, NEW u \in Users, ~IsInLobby(u), NEW exclusive \in BOOLEAN, ExitRoom(u, exclusive)
  PROVE  /\ currRoom[u] \in RoomIds /\ users[currRoom[u]] \in SUBSET Users
         /\ [type |-> "S_ROOM_EXIT", uid |-> u] \in ServerPackets
         /\ Tells(currRoom[u], IF exclusive THEN users[currRoom[u]] \ {u} ELSE users[currRoom[u]],
                  [type |-> "S_ROOM_EXIT", uid |-> u], <<>>)
<1> DEFINE r == currRoom[u]
           S == IF exclusive THEN users[r] \ {u} ELSE users[r]
           told == IF exclusive THEN Seats({r}) \ {<<r, u>>} ELSE Seats({r})
           notice == [type |-> "S_ROOM_EXIT", uid |-> u]
<1>1. r \in RoomIds /\ users[r] \in SUBSET Users
  BY DEF TypeOK, IsInLobby
<1>2. notice \in ServerPackets
  BY DEF ServerPackets
<1>3. told = {r} \X S
  <2>1. Seats({r}) = {r} \X users[r]
    BY <1>1, SeatsOf
  <2>2. ({r} \X users[r]) \ {<<r, u>>} = {r} \X (users[r] \ {u})
    OBVIOUS
  <2>3. CASE exclusive
    BY <2>1, <2>2, <2>3
  <2>4. CASE ~exclusive
    BY <2>1, <2>4
  <2> QED
    BY <2>3, <2>4
<1>4. PICK o \in Orders(told) : sendQueue' = sendQueue \o Cast(o, notice)
  BY DEF ExitRoom
<1>5. told \in SUBSET (RoomIds \X Users)
  <2>1. S \in SUBSET Users
    BY <1>1
  <2> HIDE DEF told, S, r
  <2> QED
    BY <1>1, <1>3, <2>1
<1> HIDE DEF told, notice, S, r
<1>6. Cast(o, notice) \in Seq(Packages)
  BY <1>2, <1>5, CastFacts
<1>7. Cast(o, notice) \o << >> = Cast(o, notice) /\ << >> \in Seq(Packages)
  BY <1>6, ConcatEmptySeq, EmptySeq
<1>8. Tells(r, S, notice, << >>)
  BY <1>3, <1>4, <1>7 DEF Tells
<1> QED
  BY <1>1, <1>2, <1>8 DEF S, r, notice

\* Room::EnterRoom tells the room, the user included, and the user the room's name.
LEMMA EnterTells ==
  ASSUME TypeOK, NEW u \in Users, NEW r \in RoomIds, EnterRoom(u, r)
  PROVE  /\ users[r] \cup {u} \in SUBSET Users
         /\ [type |-> "S_ROOM_ENTER", uid |-> u, name |-> nickname[u]] \in ServerPackets
         /\ Package(u, [type |-> "S_ROOM_NAME", rid |-> r]) \in Packages
         /\ Tells(r, users[r] \cup {u}, [type |-> "S_ROOM_ENTER", uid |-> u, name |-> nickname[u]],
                  <<Package(u, [type |-> "S_ROOM_NAME", rid |-> r])>>)
<1> DEFINE S == users[r] \cup {u}
           enter == [type |-> "S_ROOM_ENTER", uid |-> u, name |-> nickname[u]]
           named == Package(u, [type |-> "S_ROOM_NAME", rid |-> r])
           seats == Seats({r}) \cup {<<r, u>>}
<1>1. S \in SUBSET Users
  BY DEF TypeOK
<1>2. enter \in ServerPackets /\ named \in Packages
  BY DEF TypeOK, ServerPackets, Package, Packages
<1>3. seats = {r} \X S
  <2>1. Seats({r}) = {r} \X users[r]
    BY <1>1, SeatsOf
  <2> QED
    BY <2>1
<1>4. PICK o \in Orders(seats) : sendQueue' = sendQueue \o Cast(o, enter) \o <<named>>
  BY DEF EnterRoom
<1>5. seats \in SUBSET (RoomIds \X Users)
  BY <1>1, <1>3
<1> HIDE DEF S, enter, named, seats
<1> DEFINE c == Cast(o, enter)
           rest == <<named>>
<1>6. c \in Seq(Packages) /\ rest \in Seq(Packages) /\ sendQueue \in Seq(Packages)
  BY <1>2, <1>5, CastFacts DEF TypeOK
<1>7. sendQueue' = (sendQueue \o c) \o rest
  BY <1>4
<1> HIDE DEF c, rest
<1>8. sendQueue' = sendQueue \o (c \o rest)
  BY <1>6, <1>7, ConcatAssociative
<1>9. Tells(r, S, enter, rest)
  BY <1>3, <1>6, <1>8 DEF Tells, c
<1> QED
  BY <1>1, <1>2, <1>9 DEF S, enter, named, rest

\* A line of chat tells the room.
LEMMA ChatTells ==
  ASSUME TypeOK, NEW r \in RoomIds, sender \in Users, CastToRooms({r}, "S_MULTICAST")
  PROVE  /\ users[r] \in SUBSET Users
         /\ [type |-> "S_MULTICAST", nickname |-> nickname[sender]] \in ServerPackets
         /\ Tells(r, users[r], [type |-> "S_MULTICAST", nickname |-> nickname[sender]], <<>>)
<1> DEFINE S == users[r]
           chat == [type |-> "S_MULTICAST", nickname |-> nickname[sender]]
           seats == Seats({r})
<1>1. S \in SUBSET Users
  BY DEF TypeOK
<1>2. chat \in ServerPackets
  BY DEF TypeOK, ServerPackets
<1>3. seats = {r} \X S
  BY <1>1, SeatsOf
<1>4. PICK o \in Orders(seats) : sendQueue' = sendQueue \o Cast(o, chat)
  BY DEF CastToRooms
<1>5. seats \in SUBSET (RoomIds \X Users)
  BY <1>1, <1>3
<1> HIDE DEF S, chat, seats
<1>6. Cast(o, chat) \in Seq(Packages)
  BY <1>2, <1>5, CastFacts
<1>7. Cast(o, chat) \o << >> = Cast(o, chat) /\ << >> \in Seq(Packages)
  BY <1>6, ConcatEmptySeq, EmptySeq
<1>8. Tells(r, S, chat, << >>)
  BY <1>3, <1>4, <1>7 DEF Tells
<1> QED
  BY <1>1, <1>2, <1>8 DEF S, chat

\* The other handlers tell no news, and only who enters the server is welcomed.
LEMMA QuietPushes ==
  ASSUME Inv, C_SERVER_ENTER \/ C_LOBBY_ROOM_INFO \/ C_ROOM_CREATE \/ C_UNICAST \/ C_BROADCAST
  PROVE  /\ UNCHANGED <<userList, currRoom>>
         /\ jobQueue # <<>> /\ jobQueue' = Tail(jobQueue)
         /\ \E pushed \in Seq(Packages) :
              /\ sendQueue' = sendQueue \o pushed
              /\ \A i \in DOMAIN pushed :
                   /\ pushed[i].packet.type \in {"S_SERVER_ENTER_OK", "S_LOBBY_ROOM_INFO",
                                                 "S_UNICAST_OK", "S_UNICAST_NO", "S_BROADCAST"}
                   /\ pushed[i].packet.type = "S_SERVER_ENTER_OK" =>
                        packet.type = "C_SERVER_ENTER" /\ pushed[i].session = sender /\ sender \in userList
<1>1. UNCHANGED <<userList, currRoom>> /\ jobQueue # <<>> /\ jobQueue' = Tail(jobQueue)
  BY DEF C_SERVER_ENTER, C_LOBBY_ROOM_INFO, C_ROOM_CREATE, C_UNICAST, C_BROADCAST, CastToRooms,
     Dispatch, userVars
<1>2. TypeOK /\ SysTypeOK /\ sender \in Users
  BY <1>1, JobType DEF Inv, SysTypeOK
<1>3. ASSUME NEW rooms \in SUBSET RoomIds, sendQueue' = Append(sendQueue, RoomListPackage(sender, rooms))
      PROVE  \E pushed \in Seq(Packages) :
               /\ sendQueue' = sendQueue \o pushed
               /\ \A i \in DOMAIN pushed : pushed[i].packet.type = "S_LOBBY_ROOM_INFO"
  <2> DEFINE list == RoomListPackage(sender, rooms)
             pushed == <<list>>
  <2>1. list \in Packages /\ list.packet.type = "S_LOBBY_ROOM_INFO"
    BY <1>2 DEF RoomListPackage, Package, Packages, ServerPackets
  <2>2. sendQueue' = Append(sendQueue, list)
    BY <1>3
  <2> HIDE DEF list
  <2>3. pushed \in Seq(Packages) /\ (\A i \in DOMAIN pushed : pushed[i] = list) /\ sendQueue' = sendQueue \o pushed
    BY <1>2, <2>1, <2>2, AppendIsConcat DEF TypeOK
  <2> HIDE DEF pushed
  <2> QED
    BY <2>1, <2>3
<1>4. CASE C_SERVER_ENTER
  <2> DEFINE ok == Package(sender, [type |-> "S_SERVER_ENTER_OK", pid |-> sender])
             list == RoomListPackage(sender, roomList)
             pushed == <<ok, list>>
  <2>1. /\ ok \in Packages /\ ok.session = sender /\ ok.packet.type = "S_SERVER_ENTER_OK"
        /\ list \in Packages /\ list.packet.type = "S_LOBBY_ROOM_INFO"
    BY <1>2 DEF RoomListPackage, Package, Packages, ServerPackets, TypeOK
  <2>2. sendQueue' = sendQueue \o pushed /\ packet.type = "C_SERVER_ENTER" /\ sender \in userList
    BY <1>4 DEF C_SERVER_ENTER, Dispatch
  <2> HIDE DEF ok, list
  <2>3. pushed \in Seq(Packages) /\ \A i \in DOMAIN pushed : pushed[i] = ok \/ pushed[i] = list
    BY <2>1
  <2> HIDE DEF pushed
  <2> QED
    BY <1>1, <2>1, <2>2, <2>3
<1>5. CASE C_LOBBY_ROOM_INFO \/ C_ROOM_CREATE
  <2>1. PICK rooms \in SUBSET RoomIds : sendQueue' = Append(sendQueue, RoomListPackage(sender, rooms))
    <3>1. CASE C_LOBBY_ROOM_INFO
      BY <1>2, <3>1 DEF C_LOBBY_ROOM_INFO, TypeOK
    <3>2. CASE C_ROOM_CREATE
      <4>1. roomList' \in SUBSET RoomIds
        BY <1>2, <3>2 DEF C_ROOM_CREATE, TypeOK
      <4>2. PICK rooms \in SUBSET RoomIds : rooms = roomList'
        BY <4>1
      <4> QED
        BY <3>2, <4>2 DEF C_ROOM_CREATE
    <3> QED
      BY <1>5, <3>1, <3>2
  <2>2. PICK pushed \in Seq(Packages) :
          /\ sendQueue' = sendQueue \o pushed
          /\ \A i \in DOMAIN pushed : pushed[i].packet.type = "S_LOBBY_ROOM_INFO"
    BY <1>3, <2>1
  <2>3. \A i \in DOMAIN pushed :
                   /\ pushed[i].packet.type \in {"S_SERVER_ENTER_OK", "S_LOBBY_ROOM_INFO",
                                                 "S_UNICAST_OK", "S_UNICAST_NO", "S_BROADCAST"}
                   /\ pushed[i].packet.type # "S_SERVER_ENTER_OK"
    BY <2>2
  <2> QED
    BY <1>1, <2>2, <2>3
<1>6. CASE C_UNICAST
  <2>1. CASE sendQueue' = Append(sendQueue, Package(sender, [type |-> "S_UNICAST_NO"]))
    <3> DEFINE no == Package(sender, [type |-> "S_UNICAST_NO"])
               pushed == <<no>>
    <3>1. no \in Packages /\ no.packet.type = "S_UNICAST_NO"
      BY <1>2 DEF Package, Packages, ServerPackets
    <3>2. sendQueue' = Append(sendQueue, no)
      BY <2>1
    <3> HIDE DEF no
    <3>3. pushed \in Seq(Packages) /\ (\A i \in DOMAIN pushed : pushed[i] = no) /\ sendQueue' = sendQueue \o pushed
      BY <1>2, <3>1, <3>2, AppendIsConcat DEF TypeOK
    <3> HIDE DEF pushed
    <3> QED
      BY <1>1, <3>1, <3>3
  <2>2. ASSUME NEW recver \in FindByNickname(packet.recver),
               sendQueue' = sendQueue \o
                 <<Package(sender, [type |-> "S_UNICAST_OK", nickname |-> nickname[sender]]),
                   Package(recver, [type |-> "S_UNICAST_OK", nickname |-> nickname[sender]])>>
        PROVE  \E pushed \in Seq(Packages) :
                 /\ sendQueue' = sendQueue \o pushed
                 /\ \A i \in DOMAIN pushed : pushed[i].packet.type = "S_UNICAST_OK"
    <3> DEFINE ok == [type |-> "S_UNICAST_OK", nickname |-> nickname[sender]]
               pushed == <<Package(sender, ok), Package(recver, ok)>>
    <3>1. recver \in Users
      BY <1>2, <2>2 DEF FindByNickname, TypeOK
    <3>2. ok \in ServerPackets /\ ok.type = "S_UNICAST_OK"
      BY <1>2 DEF ServerPackets, TypeOK
    <3>3. sendQueue' = sendQueue \o pushed
      BY <2>2
    <3> HIDE DEF ok
    <3>4. pushed \in Seq(Packages) /\ \A i \in DOMAIN pushed : pushed[i].packet = ok
      BY <1>2, <3>1, <3>2 DEF Package, Packages
    <3> HIDE DEF pushed
    <3> QED
      BY <3>2, <3>3, <3>4
  <2> QED
    BY <1>1, <1>6, <2>1, <2>2 DEF C_UNICAST
<1>7. CASE C_BROADCAST
  <2> DEFINE chat == [type |-> "S_BROADCAST", nickname |-> nickname[sender]]
             seats == Seats(roomList)
  <2>1. PICK o \in Orders(seats) : sendQueue' = sendQueue \o Cast(o, chat)
    BY <1>7 DEF C_BROADCAST, CastToRooms
  <2>2. chat \in ServerPackets /\ chat.type = "S_BROADCAST" /\ seats \in SUBSET (RoomIds \X Users)
    BY <1>2 DEF ServerPackets, TypeOK, Seats
  <2> DEFINE pushed == Cast(o, chat)
  <2> HIDE DEF chat, seats
  <2>3. pushed \in Seq(Packages) /\ \A i \in DOMAIN pushed : pushed[i].packet = chat
    BY <2>2, CastFacts
  <2>4. sendQueue' = sendQueue \o pushed
    BY <2>1
  <2> HIDE DEF pushed
  <2> QED
    BY <1>1, <2>2, <2>3, <2>4
<1> QED
  BY <1>4, <1>5, <1>6, <1>7

-----------------------------------------------------------------------------
(* What a client shows.                                                     *)

\* Who has typed /quit and been let go still shows the room, and waits.
Departed(u) ==
  clientState[u] = "CHATROOM" /\ u \in waiting /\ Going(u) = {} /\ \A p \in Coming(u) : ~Closing(u, p)

\* Only the room's page lists members, the welcome comes to who waits for it, and
\* who is no user any more has departed.
Screen(u) ==
  /\ clientState[u] # "CHATROOM" => shownUsers[u] = {}
  /\ Connected(u) =>
       /\ u \notin userList => Departed(u)
       /\ (\E p \in Coming(u) : p.type = "S_SERVER_ENTER_OK") => clientState[u] = "PENDING"

Screens == \A u \in Users : Screen(u)

\* A user whose screen the step leaves alone.
LEMMA KeepsScreen ==
  ASSUME NEW v \in Users, Screen(v), UNCHANGED <<clientState[v], shownUsers[v]>>,
         v \in waiting => v \in waiting', v \in userList => v \in userList',
         v \notin userList => Going(v)' \subseteq Going(v),
         \A p \in Coming(v)' :
           \/ p \in Coming(v) \/ ~Closing(v, p)
           \/ v \in userList /\ (p.type = "S_SERVER_ENTER_OK" /\ Connected(v) => clientState[v] = "PENDING")
  PROVE  Screen(v)'
<1>1. Connected(v)' <=> Connected(v)
  BY DEF Connected
<1>2. ASSUME Connected(v), v \notin userList' PROVE Departed(v)'
  <2>1. Departed(v) /\ v \notin userList
    BY <1>2 DEF Screen
  <2> QED
    BY <2>1 DEF Departed
<1>3. ASSUME Connected(v), NEW p \in Coming(v)', p.type = "S_SERVER_ENTER_OK" PROVE clientState[v] = "PENDING"
  <2>1. Closing(v, p)
    BY <1>3 DEF Closing
  <2> QED
    BY <1>3, <2>1 DEF Screen
<1> QED
  BY <1>1, <1>2, <1>3 DEF Screen

\* A step of a client is of no concern to the others.
LEMMA Solitary ==
  ASSUME SysTypeOK, NEW u \in Users, ClientStep(u)
  PROVE  /\ UNCHANGED vars /\ Connected(u)
         /\ \A v \in Users : v # u =>
              /\ UNCHANGED <<clientState[v], toServer[v], toClient[v], shownUsers[v]>>
              /\ v \in waiting' <=> v \in waiting
<1>1. CASE SendNickname(u) \/ LobbyPage(u) \/ ChatRoomPage(u)
  BY <1>1 DEF SendNickname, LobbyPage, ChatRoomPage, Act, Connected, SysTypeOK
<1>2. CASE CloseClient(u) \/ Miscast(u)
  BY <1>2 DEF CloseClient, Miscast, SysTypeOK
<1>3. ASSUME NEW s \in ClientStates, Receive(u, s)
      PROVE  /\ UNCHANGED vars /\ Connected(u)
             /\ \A v \in Users : v # u =>
                  UNCHANGED <<clientState[v], toClient[v]>> /\ (v \in waiting' <=> v \in waiting)
  BY <1>3 DEF Receive, SysTypeOK
<1>4. CASE F_SERVER_ENTER_OK(u) \/ F_LOBBY_ROOM_INFO(u) \/ F_ROOM_ENTER(u) \/ F_ROOM_EXIT(u)
           \/ F_ROOM_NAME_or_RECV_CAST(u)
  <2>1. {"LOBBY", "CHATROOM", clientState[u]} \subseteq ClientStates
    BY DEF SysTypeOK, ClientStates
  <2>2. \E s \in ClientStates : Receive(u, s)
    BY <1>4, <2>1 DEF F_SERVER_ENTER_OK, F_LOBBY_ROOM_INFO, F_ROOM_ENTER, F_ROOM_EXIT, F_ROOM_NAME_or_RECV_CAST
  <2>3. \A v \in Users : v # u => UNCHANGED <<toServer[v], shownUsers[v]>>
    BY <1>4 DEF F_SERVER_ENTER_OK, F_LOBBY_ROOM_INFO, F_ROOM_ENTER, F_ROOM_EXIT, F_ROOM_NAME_or_RECV_CAST, SysTypeOK
  <2> QED
    BY <1>3, <2>2, <2>3
<1> QED
  BY <1>1, <1>2, <1>4 DEF ClientStep, LogicThread

\* A client's own steps.
LEMMA ClientScreens == ASSUME Inv, Screens, NEW u \in Users, ClientStep(u) PROVE Screens'
<1>1. /\ SysTypeOK /\ UNCHANGED vars /\ Connected(u)
      /\ \A v \in Users : v # u =>
           /\ UNCHANGED <<clientState[v], toServer[v], toClient[v], shownUsers[v]>>
           /\ v \in waiting' <=> v \in waiting
  BY Solitary DEF Inv
<1>2. UNCHANGED <<userList, jobQueue, sendQueue>>
  BY <1>1 DEF vars, userVars
<1>3. ASSUME NEW v \in Users, v # u PROVE Screen(v)'
  <2>1. Going(v)' = Going(v) /\ Coming(v)' = Coming(v)
    BY <1>1, <1>2, <1>3 DEF Going, Stream, Queued, Coming, Arrived, Pushed
  <2> QED
    BY <1>1, <1>2, <1>3, <2>1, KeepsScreen DEF Screens
<1> SUFFICES Screen(u)'
  BY <1>3 DEF Screens
<1>4. /\ Screen(u) /\ clientState[u] \in ClientStates /\ {"LOBBY", "CHATROOM"} \subseteq ClientStates
      /\ shownUsers \in [Users -> SUBSET Users] /\ clientState \in [Users -> ClientStates]
  BY <1>1 DEF Screens, SysTypeOK, ClientStates
\* The user acts.
<1>5. CASE SendNickname(u) \/ LobbyPage(u) \/ ChatRoomPage(u)
  <2>1. /\ u \notin waiting /\ UNCHANGED <<toClient, shownUsers>>
        /\ \/ clientState' = clientState
           \/ clientState[u] = "LOGIN" /\ clientState' = [clientState EXCEPT ![u] = "PENDING"]
    BY <1>5 DEF SendNickname, LobbyPage, ChatRoomPage, Act
  <2>2. Coming(u)' = Coming(u) /\ u \in userList
    BY <1>1, <1>2, <1>4, <2>1 DEF Coming, Arrived, Pushed, Screen, Departed
  <2>3. shownUsers'[u] = shownUsers[u] /\ (clientState'[u] = clientState[u] \/ clientState'[u] = "PENDING")
        /\ (clientState'[u] = "CHATROOM" <=> clientState[u] = "CHATROOM")
    BY <1>4, <2>1
  <2> QED
    BY <1>1, <1>2, <1>4, <2>2, <2>3 DEF Screen
\* The client goes.
<1>6. CASE CloseClient(u) \/ Miscast(u)
  <2>1. clientState'[u] = "GONE" /\ shownUsers'[u] = {}
    BY <1>4, <1>6 DEF CloseClient, Miscast
  <2> QED
    BY <2>1 DEF Screen, Connected
\* A packet that closes the page comes only to who is still a user.
<1>7. ASSUME Receive(u, "LOBBY"), Closing(u, Received(u)), shownUsers'[u] = {} PROVE Screen(u)'
  <2>1. /\ Received(u) \in Coming(u) /\ clientState'[u] = "LOBBY"
        /\ ClosingLast(u) => \A q \in Coming(u)' : ~Turning(u, q)
    BY <1>4, <1>7, ReceiveFacts
  <2>2. u \in userList
    BY <1>1, <1>4, <1>7, <2>1 DEF Screen, Departed
  <2>3. ClosingLast(u)
    BY <1>1, <2>2, UserFacts DEF UserInv, Page
  <2>4. \A q \in Coming(u)' : q.type # "S_SERVER_ENTER_OK"
    BY <2>1, <2>3 DEF Turning, Closing
  <2> QED
    BY <1>2, <1>7, <2>1, <2>2, <2>4 DEF Screen
\* Any other leaves the page, or opens the room's.
<1>8. ASSUME NEW s \in ClientStates, Receive(u, s), UNCHANGED toServer, s = clientState[u] \/
               (clientState[u] = "LOBBY" /\ s = "CHATROOM"),
             s = "CHATROOM" \/ shownUsers'[u] = shownUsers[u]
      PROVE  Screen(u)'
  <2>1. /\ clientState'[u] = s /\ Coming(u)' \subseteq Coming(u)
        /\ u \in waiting' <=> u \in waiting /\ s = clientState[u]
    BY <1>8, ReceiveFacts
  <2>2. Going(u)' = Going(u)
    BY <1>2, <1>8 DEF Going, Stream, Queued
  <2>3. s # "CHATROOM" => shownUsers'[u] = {}
    BY <1>4, <1>8 DEF Screen
  <2>4. u \notin userList => Departed(u)'
    BY <1>1, <1>4, <1>8, <2>1, <2>2 DEF Screen, Departed
  <2>5. (\E p \in Coming(u)' : p.type = "S_SERVER_ENTER_OK") => s = "PENDING"
    BY <1>1, <1>4, <1>8, <2>1 DEF Screen
  <2> QED
    BY <1>2, <2>1, <2>3, <2>4, <2>5 DEF Screen
<1>9. CASE F_SERVER_ENTER_OK(u)
  <2>1. Receive(u, "LOBBY") /\ Closing(u, Received(u)) /\ Received(u).type = "S_SERVER_ENTER_OK" /\ UNCHANGED shownUsers
    BY <1>9 DEF F_SERVER_ENTER_OK, Closing
  <2>2. Received(u) \in Coming(u)
    BY <1>4, <2>1, ReceiveFacts
  <2>3. shownUsers[u] = {}
    BY <1>1, <1>4, <2>1, <2>2 DEF Screen
  <2> QED
    BY <1>7, <2>1, <2>3
<1>10. CASE F_LOBBY_ROOM_INFO(u)
  BY <1>4, <1>8, <1>10 DEF F_LOBBY_ROOM_INFO
<1>11. CASE F_ROOM_ENTER(u)
  BY <1>4, <1>8, <1>11 DEF F_ROOM_ENTER
<1>12. CASE F_ROOM_EXIT(u)
  <2>1. CASE Received(u).uid = u /\ Receive(u, "LOBBY") /\ shownUsers' = [shownUsers EXCEPT ![u] = {}]
    <3>1. Closing(u, Received(u)) /\ shownUsers'[u] = {}
      BY <1>4, <1>12, <2>1 DEF F_ROOM_EXIT, Closing
    <3> QED
      BY <1>7, <2>1, <3>1
  <2>2. CASE clientState[u] = "CHATROOM" /\ Receive(u, "CHATROOM")
    BY <1>4, <1>8, <1>12, <2>2 DEF F_ROOM_EXIT
  <2> QED
    BY <1>12, <2>1, <2>2 DEF F_ROOM_EXIT
<1>13. CASE F_ROOM_NAME_or_RECV_CAST(u)
  BY <1>4, <1>8, <1>13 DEF F_ROOM_NAME_or_RECV_CAST
<1> QED
  BY <1>5, <1>6, <1>9, <1>10, <1>11, <1>12, <1>13 DEF ClientStep, LogicThread

\* A step of the server that removes nobody, and welcomes only who waits for it.
LEMMA ServerScreens ==
  ASSUME Inv, Screens, UNCHANGED clientVars, userList \subseteq userList',
         \A v \in Users : Going(v)' \subseteq Going(v),
         \A v \in Users : \A p \in Coming(v)' :
           \/ p \in Coming(v) \/ ~Closing(v, p)
           \/ v \in userList /\ (p.type = "S_SERVER_ENTER_OK" /\ Connected(v) => clientState[v] = "PENDING")
  PROVE  Screens'
<1>1. ASSUME NEW v \in Users PROVE Screen(v)'
  <2>1. UNCHANGED <<clientState[v], shownUsers[v], waiting>>
    BY DEF clientVars
  <2> QED
    BY <2>1, KeepsScreen DEF Screens
<1> QED
  BY <1>1 DEF Screens

\* The server removes user u: its client has gone, or has asked for it.
LEMMA RemovalScreens ==
  ASSUME Inv, Screens, NEW u \in userList, RemoveUser(u), UNCHANGED <<clientVars, toClient>>,
         \A v \in Users : Going(v)' \subseteq Going(v),
         Connected(u) =>
           clientState[u] = "CHATROOM" /\ u \in waiting /\ Going(u)' = {} /\ \A p \in Coming(u) : ~Closing(u, p)
  PROVE  Screens'
<1>1. TypeOK /\ SysTypeOK /\ u \in Users /\ userList' = userList \ {u}
  BY DEF Inv, SysTypeOK, TypeOK, RemoveUser
<1>2. UNCHANGED <<clientState, shownUsers, waiting>>
  BY DEF clientVars
<1>3. ASSUME NEW v \in Users, NEW p \in Coming(v)'
      PROVE  p \in Coming(v) \/ (v # u /\ p.type = "S_ROOM_EXIT" /\ p.uid = u)
  <2>1. CASE IsInLobby(u)
    <3>1. UNCHANGED <<sendQueue, toClient>>
      BY <2>1 DEF RemoveUser
    <3> QED
      BY <1>3, <3>1 DEF Coming, Arrived, Pushed
  <2>2. CASE ~IsInLobby(u)
    <3> DEFINE notice == [type |-> "S_ROOM_EXIT", uid |-> u]
               S == users[currRoom[u]] \ {u}
    <3>1. /\ currRoom[u] \in RoomIds /\ S \in SUBSET Users /\ notice \in ServerPackets
          /\ Tells(currRoom[u], S, notice, << >>)
      <4>1. ExitRoom(u, TRUE) /\ TRUE \in BOOLEAN
        BY <2>2 DEF RemoveUser
      <4> QED
        BY <1>1, <2>2, <4>1, ExitTells
    <3>2. notice.type = "S_ROOM_EXIT" /\ notice.uid = u /\ u \notin S
      OBVIOUS
    <3> HIDE DEF notice, S
    <3>3. p \in Coming(v) \/ (p = notice /\ v \in S) \/ \E i \in DOMAIN << >> : << >>[i].packet = p
      BY <1>1, <1>3, <3>1, TellComing
    <3>4. DOMAIN << >> = {}
      OBVIOUS
    <3> QED
      BY <3>2, <3>3, <3>4
  <2> QED
    BY <2>1, <2>2
<1>4. ASSUME NEW v \in Users, v # u PROVE Screen(v)'
  <2>1. \A p \in Coming(v)' : p \in Coming(v) \/ ~Closing(v, p)
    BY <1>3, <1>4 DEF Closing
  <2> QED
    BY <1>1, <1>2, <1>4, <2>1, KeepsScreen DEF Screens
<1>5. Screen(u)'
  <2>1. Screen(u) /\ (Connected(u)' <=> Connected(u)) /\ Coming(u)' \subseteq Coming(u)
    BY <1>1, <1>2, <1>3 DEF Screens, Connected
  <2> QED
    BY <1>2, <2>1 DEF Screen, Departed
<1> QED
  BY <1>4, <1>5 DEF Screens

\* The send thread.
LEMMA SendComing == ASSUME Inv, SysSendPackage, NEW v \in Users PROVE Coming(v)' \subseteq Coming(v)
<1> DEFINE u == Head(sendQueue).session
           p == Head(sendQueue).packet
<1>1. SysTypeOK /\ sendQueue # <<>>
  BY DEF Inv, SysSendPackage, SendPackage
<1>2. CASE u \notin userList
  <2>1. UNCHANGED <<toClient, sendQueue>>
    BY <1>2 DEF SysSendPackage, SendPackage, Fault
  <2> QED
    BY <2>1 DEF Coming, Arrived, Pushed
<1>3. CASE u \in userList
  <2>1. sendQueue' = Tail(sendQueue)
    BY <1>3 DEF SysSendPackage, SendPackage
  <2>2. CASE u \in recvPending \cap userList /\ Connected(u)
    <3>1. toClient' = [toClient EXCEPT ![u] = Append(@, p)]
      BY <2>2 DEF SysSendPackage
    <3> QED
      BY <1>1, <2>1, <3>1, PassPackage
  <2>3. CASE ~(u \in recvPending \cap userList /\ Connected(u))
    <3>1. UNCHANGED toClient
      BY <2>3 DEF SysSendPackage
    <3> QED
      BY <1>1, <2>1, <3>1, DropPackage
  <2> QED
    BY <2>2, <2>3
<1> QED
  BY <1>2, <1>3

\* Each handler that the server completes.
LEMMA LogicScreens == ASSUME Inv, Screens, SysLogicStep PROVE Screens'
<1>1. LogicStep /\ UNCHANGED <<clientVars, toServer, toClient>> /\ SysTypeOK /\ TypeOK
  BY DEF SysLogicStep, Inv, SysTypeOK
<1>2. ASSUME jobQueue # <<>>, jobQueue' = Tail(jobQueue)
      PROVE  /\ sender \in Users /\ packet \in Going(sender)
             /\ (sender \in userList => Page(sender))
             /\ \A v \in userList : v = sender /\ Final(packet) => Going(v)' = {}
             /\ \A v \in Users : Going(v)' \subseteq Going(v)
  <2>1. UNCHANGED toServer
    BY <1>1
  <2> QED
    BY <1>2, <2>1, SenderFacts
<1>3. CASE C_SERVER_ENTER \/ C_LOBBY_ROOM_INFO \/ C_ROOM_CREATE \/ C_UNICAST \/ C_BROADCAST
  <2>1. UNCHANGED userList /\ jobQueue # <<>> /\ jobQueue' = Tail(jobQueue)
    BY <1>3, QuietPushes
  <2>2. PICK pushed \in Seq(Packages) :
          /\ sendQueue' = sendQueue \o pushed
          /\ \A i \in DOMAIN pushed :
               /\ pushed[i].packet.type \in {"S_SERVER_ENTER_OK", "S_LOBBY_ROOM_INFO",
                                             "S_UNICAST_OK", "S_UNICAST_NO", "S_BROADCAST"}
               /\ pushed[i].packet.type = "S_SERVER_ENTER_OK" =>
                    packet.type = "C_SERVER_ENTER" /\ pushed[i].session = sender /\ sender \in userList
    BY <1>3, QuietPushes
  <2>3. ASSUME sender \in userList, packet.type = "C_SERVER_ENTER", Connected(sender)
        PROVE  clientState[sender] = "PENDING"
    <3>1. "C_SERVER_ENTER" \in Kinds[clientState[sender]]
      BY <1>2, <2>1, <2>3 DEF Page
    <3> QED
      BY <1>1, <1>2, <2>1, <2>3, <3>1, PageOf
  <2>4. ASSUME NEW v \in Users, NEW p \in Coming(v)'
        PROVE  \/ p \in Coming(v) \/ ~Closing(v, p)
               \/ v \in userList /\ (p.type = "S_SERVER_ENTER_OK" /\ Connected(v) => clientState[v] = "PENDING")
    <3>1. CASE \E i \in DOMAIN pushed : pushed[i].session = v /\ pushed[i].packet = p
      <4>1. PICK i \in DOMAIN pushed : pushed[i].session = v /\ pushed[i].packet = p
        BY <3>1
      <4>2. CASE p.type = "S_SERVER_ENTER_OK"
        BY <2>2, <2>3, <4>1, <4>2
      <4>3. CASE p.type # "S_SERVER_ENTER_OK"
        BY <2>2, <4>1, <4>3 DEF Closing
      <4> QED
        BY <4>2, <4>3
    <3> QED
      BY <1>1, <2>2, <2>4, <3>1, PushPackages
  <2> QED
    BY <1>1, <1>2, <2>1, <2>4, ServerScreens
\* What is told to a room: it closes the page of nobody but a user that leaves it.
<1>4. ASSUME jobQueue # <<>>, jobQueue' = Tail(jobQueue), UNCHANGED userList,
             NEW r \in RoomIds, NEW S \in SUBSET Users, NEW p \in ServerPackets,
             NEW rest, Tells(r, S, p, rest),
             \A i \in DOMAIN rest : rest[i].packet.type = "S_ROOM_NAME",
             p.type # "S_SERVER_ENTER_OK", \A v \in S : Closing(v, p) => v \in userList
      PROVE  Screens'
  <2>1. ASSUME NEW v \in Users, NEW q \in Coming(v)'
        PROVE  q \in Coming(v) \/ ~Closing(v, q) \/ (v \in userList /\ q.type # "S_SERVER_ENTER_OK")
    <3>1. q \in Coming(v) \/ (q = p /\ v \in S) \/ \E i \in DOMAIN rest : rest[i].packet = q
      BY <1>1, <1>4, <2>1, TellComing
    <3> QED
      BY <1>4, <3>1 DEF Closing
  <2> QED
    BY <1>1, <1>2, <1>4, <2>1, ServerScreens
<1>5. DOMAIN << >> = {}
  OBVIOUS
<1>6. CASE C_ROOM_ENTER
  <2>1. /\ jobQueue # <<>> /\ jobQueue' = Tail(jobQueue) /\ UNCHANGED userList /\ sender \in userList
        /\ packet.rid \in RoomIds /\ EnterRoom(sender, packet.rid)
    BY <1>1, <1>6 DEF C_ROOM_ENTER, Dispatch, EnterRoom, TypeOK
  <2>2. PICK u \in Users, r \in RoomIds : u = sender /\ r = packet.rid
    BY <1>2, <2>1
  <2> DEFINE S == users[r] \cup {u}
             enter == [type |-> "S_ROOM_ENTER", uid |-> u, name |-> nickname[u]]
             named == Package(u, [type |-> "S_ROOM_NAME", rid |-> r])
             rest == <<named>>
  <2>3. S \in SUBSET Users /\ enter \in ServerPackets /\ Tells(r, S, enter, rest)
    BY <1>1, <2>1, <2>2, EnterTells
  <2>4. enter.type = "S_ROOM_ENTER" /\ \A i \in DOMAIN rest : rest[i].packet.type = "S_ROOM_NAME"
    BY DEF Package
  <2> HIDE DEF S, enter, rest
  <2>5. enter.type # "S_SERVER_ENTER_OK" /\ \A v \in S : ~Closing(v, enter)
    BY <2>4 DEF Closing
  <2> QED
    BY <1>4, <2>1, <2>3, <2>4, <2>5
<1>7. CASE C_ROOM_EXIT
  <2>1. /\ jobQueue # <<>> /\ jobQueue' = Tail(jobQueue) /\ UNCHANGED userList /\ sender \in userList
        /\ ~IsInLobby(sender) /\ ExitRoom(sender, FALSE)
    BY <1>1, <1>7 DEF C_ROOM_EXIT, Dispatch, ExitRoom
  <2>2. PICK u \in Users : u = sender /\ u \in userList
    BY <1>2, <2>1
  <2> DEFINE r == currRoom[u]
             S == users[r]
             notice == [type |-> "S_ROOM_EXIT", uid |-> u]
  <2>3. r \in RoomIds /\ S \in SUBSET Users /\ notice \in ServerPackets /\ Tells(r, S, notice, << >>)
    <3>1. FALSE \in BOOLEAN /\ ~IsInLobby(u) /\ ExitRoom(u, FALSE)
      BY <2>1, <2>2
    <3> QED
      BY <1>1, <3>1, ExitTells
  <2>4. notice.type = "S_ROOM_EXIT" /\ notice.uid = u
    OBVIOUS
  <2> HIDE DEF r, S, notice
  <2>5. notice.type # "S_SERVER_ENTER_OK" /\ \A v \in S : Closing(v, notice) => v \in userList
    BY <2>2, <2>4 DEF Closing
  <2> QED
    BY <1>4, <1>5, <2>1, <2>3, <2>5
<1>8. CASE C_MULTICAST
  <2>1. /\ jobQueue # <<>> /\ jobQueue' = Tail(jobQueue) /\ UNCHANGED userList
        /\ ~IsInLobby(sender) /\ CastToRooms({currRoom[sender]}, "S_MULTICAST")
    BY <1>8 DEF C_MULTICAST, Dispatch, CastToRooms, userVars
  <2> DEFINE r == currRoom[sender]
             S == users[r]
             chat == [type |-> "S_MULTICAST", nickname |-> nickname[sender]]
  <2>2. r \in RoomIds
    BY <1>1, <1>2, <2>1 DEF TypeOK, IsInLobby
  <2>3. S \in SUBSET Users /\ chat \in ServerPackets /\ Tells(r, S, chat, << >>)
    BY <1>1, <1>2, <2>1, <2>2, ChatTells
  <2>4. chat.type = "S_MULTICAST"
    OBVIOUS
  <2> HIDE DEF r, S, chat
  <2>5. chat.type # "S_SERVER_ENTER_OK" /\ \A v \in S : ~Closing(v, chat)
    BY <2>4 DEF Closing
  <2> QED
    BY <1>4, <1>5, <2>1, <2>2, <2>3, <2>5
<1>9. CASE C_SERVER_EXIT
  <2>1. /\ jobQueue # <<>> /\ jobQueue' = Tail(jobQueue) /\ packet.type = "C_SERVER_EXIT"
        /\ sender \in userList /\ RemoveUser(sender)
    BY <1>9 DEF C_SERVER_EXIT, Dispatch
  <2>2. PICK u \in userList : u = sender /\ u \in Users
    BY <1>2, <2>1
  <2>3. Asks(packet) /\ Final(packet)
    BY <2>1 DEF Asks, Final
  <2>4. ASSUME Connected(u)
        PROVE  clientState[u] = "CHATROOM" /\ u \in waiting /\ Going(u)' = {} /\ \A p \in Coming(u) : ~Closing(u, p)
    <3>1. /\ packet.type \in Kinds[clientState[u]] /\ u \in waiting /\ Going(u)' = {}
          /\ \A p \in Coming(u) : ~Closing(u, p)
      BY <1>2, <2>1, <2>2, <2>3, <2>4 DEF Page
    <3>2. clientState[u] = "CHATROOM"
      <4>1. clientState[u] \in {"LOGIN", "PENDING", "LOBBY", "CHATROOM"}
        BY <1>1, <2>2, <2>4 DEF SysTypeOK, ClientStates, Connected
      <4> QED
        BY <2>1, <3>1, <4>1 DEF Kinds
    <3> QED
      BY <3>1, <3>2
  <2>5. RemoveUser(u)
    BY <2>1, <2>2
  <2> QED
    BY <1>1, <1>2, <2>1, <2>4, <2>5, RemovalScreens
\* The handlers that do not get to their end change nothing here.
<1>10. CASE StaleJob \/ NullRoom \/ StaleMember
  <2>1. UNCHANGED <<userList, sendQueue, jobQueue>>
    BY <1>10 DEF StaleJob, NullRoom, StaleMember, Fault, userVars
  <2>2. \A v \in Users : Going(v)' = Going(v) /\ Coming(v)' = Coming(v)
    BY <1>1, <2>1 DEF Going, Stream, Queued, Coming, Arrived, Pushed
  <2> QED
    BY <1>1, <2>1, <2>2, ServerScreens
<1> QED
  BY <1>1, <1>3, <1>6, <1>7, <1>8, <1>9, <1>10 DEF LogicStep

\* Every step.
LEMMA ScreensStep == ASSUME Inv, Screens, [SysNext]_sysVars PROVE Screens'
<1>1. SysTypeOK /\ Rest
  BY DEF Inv
<1>2. CASE SysCreateUser
  <2>1. PICK u \in Users : u = userId
    BY <1>2 DEF SysCreateUser, CreateUser
  <2>2. /\ UNCHANGED <<waiting, shownUsers, toServer, toClient, jobQueue, sendQueue>>
        /\ userList' = userList \cup {u} /\ clientState' = [clientState EXCEPT ![u] = "LOGIN"]
    BY <1>2, <2>1 DEF SysCreateUser, CreateUser
  <2>3. /\ clientState[u] = "ABSENT" /\ Coming(u) = {} /\ clientState'[u] = "LOGIN"
        /\ \A v \in Users : v # u => clientState'[v] = clientState[v]
    BY <1>1, <2>1, <2>2 DEF Rest, Unborn, SysTypeOK, TypeOK
  <2>4. \A v \in Users : Going(v)' = Going(v) /\ Coming(v)' = Coming(v)
    BY <2>2 DEF Going, Stream, Queued, Coming, Arrived, Pushed
  <2>5. Screen(u)'
    BY <2>2, <2>3, <2>4 DEF Screens, Screen
  <2>6. ASSUME NEW v \in Users, v # u PROVE Screen(v)'
    BY <2>2, <2>3, <2>4, <2>6, KeepsScreen DEF Screens
  <2> QED
    BY <2>5, <2>6 DEF Screens
<1>3. ASSUME NEW u \in Users, SysRecvCompletion(u) PROVE Screens'
  <2>1. /\ UNCHANGED <<clientVars, toClient, userList, sendQueue>> /\ toServer[u] # <<>>
        /\ jobQueue' = Append(jobQueue, [session |-> u, packet |-> Head(toServer[u])])
    BY <1>3 DEF SysRecvCompletion, RecvCompletion, userVars
  <2>2. PICK k \in 1..(IF Coalescing THEN Len(toServer[u]) ELSE 1) :
          toServer' = [toServer EXCEPT ![u] = SubSeq(@, k + 1, Len(@))]
    BY <1>3 DEF SysRecvCompletion
  <2>3. k \in 1..Len(toServer[u])
    BY <1>1, <2>1, <2>2, Sequences, EmptySeq
  <2>4. \A v \in Users : Going(v)' \subseteq Going(v)
    BY <1>1, <2>1, <2>2, <2>3, PassJob
  <2>5. \A v \in Users : Coming(v)' = Coming(v)
    BY <2>1 DEF Coming, Arrived, Pushed
  <2> QED
    BY <2>1, <2>4, <2>5, ServerScreens
<1>4. ASSUME NEW u \in Users, SysFailedCompletion(u) PROVE Screens'
  <2>1. /\ UNCHANGED <<clientVars, toClient>> /\ u \in userList /\ toServer' = [toServer EXCEPT ![u] = <<>>]
        /\ clientState[u] = "GONE"
    BY <1>4 DEF SysFailedCompletion, FailedCompletion
  <2>2. ~RemovalMeetsDeleted(u)
    <3>1. ~IsInLobby(u) => {currRoom[u]} \in SUBSET RoomIds
      BY DEF Inv, SysTypeOK, TypeOK, IsInLobby
    <3> QED
      BY <3>1, NobodyDeleted DEF RemovalMeetsDeleted
  <2>3. RemoveUser(u) /\ UNCHANGED jobQueue
    BY <1>4, <2>2 DEF SysFailedCompletion, FailedCompletion
  <2>4. toServer'[u] = <<>> /\ \A v \in Users : v # u => toServer'[v] = toServer[v]
    BY <1>1, <2>1 DEF SysTypeOK
  <2>5. \A v \in Users : Going(v)' \subseteq Going(v)
    <3>1. \A v \in Users : Queued(v)' = Queued(v) /\ (v # u => Stream(v)' = Stream(v))
      BY <2>3, <2>4 DEF Queued, Stream
    <3>2. Stream(u)' = {}
      BY <2>4 DEF Stream
    <3> QED
      BY <3>1, <3>2 DEF Going
  <2>6. ~Connected(u)
    BY <2>1 DEF Connected
  <2> QED
    BY <2>1, <2>3, <2>5, <2>6, RemovalScreens
<1>5. ASSUME NEW u \in Users, SysStaleCompletion(u) PROVE Screens'
  <2>1. UNCHANGED <<clientVars, toClient, toServer, userList, sendQueue, jobQueue>>
    BY <1>5 DEF SysStaleCompletion, StaleCompletion, Fault, userVars
  <2>2. \A v \in Users : Going(v)' = Going(v) /\ Coming(v)' = Coming(v)
    BY <2>1 DEF Going, Stream, Queued, Coming, Arrived, Pushed
  <2> QED
    BY <2>1, <2>2, ServerScreens
<1>50. ASSUME NEW u \in Users, SysOverlap(u) PROVE Screens'
  <2>1. \A v \in Users : Going(v)' = Going(v) /\ Coming(v)' = Coming(v)
    BY <1>50, OverlapStops DEF Going, Stream, Queued, Coming, Arrived, Pushed
  <2> QED
    BY <1>50, <2>1, OverlapStops, ServerScreens
<1>6. CASE SysSendPackage
  <2>1. UNCHANGED <<clientVars, toServer, userList, jobQueue>>
    BY <1>6 DEF SysSendPackage, SendPackage, Fault, userVars
  <2>2. \A v \in Users : Going(v)' = Going(v) /\ Coming(v)' \subseteq Coming(v)
    BY <1>6, <2>1, SendComing DEF Going, Stream, Queued
  <2> QED
    BY <2>1, <2>2, ServerScreens
<1>7. CASE UNCHANGED sysVars
  <2>1. UNCHANGED <<clientVars, toClient, toServer, userList, sendQueue, jobQueue>>
    BY <1>7 DEF sysVars, vars, userVars
  <2>2. \A v \in Users : Going(v)' = Going(v) /\ Coming(v)' = Coming(v)
    BY <2>1 DEF Going, Stream, Queued, Coming, Arrived, Pushed
  <2> QED
    BY <2>1, <2>2, ServerScreens
<1> QED
  BY <1>2, <1>3, <1>4, <1>5, <1>50, <1>6, <1>7, ClientScreens, LogicScreens DEF SysNext

-----------------------------------------------------------------------------
(* The steps of the system are steps of RoomTalk.                           *)

\* What the news are, and that they are.
LEMMA NewsType ==
  /\ \A p \in DOMAIN NewsOf : NewsOf[p] \in Talk!News
  /\ \A p \in ServerPackets :
       p \in DOMAIN NewsOf <=> p.type \in {"S_ROOM_ENTER", "S_ROOM_EXIT", "S_MULTICAST"}
  /\ \A p \in ServerPackets :
       /\ p.type = "S_ROOM_ENTER" => NewsOf[p] = [kind |-> "enter", who |-> p.uid]
       /\ p.type = "S_ROOM_EXIT" => NewsOf[p] = [kind |-> "exit", who |-> p.uid]
       /\ p.type = "S_MULTICAST" => NewsOf[p] = [kind |-> "say", who |-> 0]
  /\ \A p \in ServerPackets : p.type \in {"S_ROOM_ENTER", "S_ROOM_EXIT"} => p.uid \in Users
<1>1. \A p \in ServerPackets : p.type \in {"S_ROOM_ENTER", "S_ROOM_EXIT"} => p.uid \in Users
  BY DEF ServerPackets
<1>2. DOMAIN NewsOf = {q \in ServerPackets : q.type \in {"S_ROOM_ENTER", "S_ROOM_EXIT", "S_MULTICAST"}}
  BY DEF NewsOf
<1>3. \A p \in ServerPackets :
       /\ p.type = "S_ROOM_ENTER" => NewsOf[p] = [kind |-> "enter", who |-> p.uid]
       /\ p.type = "S_ROOM_EXIT" => NewsOf[p] = [kind |-> "exit", who |-> p.uid]
       /\ p.type = "S_MULTICAST" => NewsOf[p] = [kind |-> "say", who |-> 0]
  BY DEF NewsOf
<1>4. \A p \in DOMAIN NewsOf : NewsOf[p] \in Talk!News
  <2>1. ASSUME NEW u \in Users
        PROVE  [kind |-> "enter", who |-> u] \in Talk!News /\ [kind |-> "exit", who |-> u] \in Talk!News
    BY DEF Talk!News
  <2>2. [kind |-> "say", who |-> 0] \in Talk!News
    BY DEF Talk!News, Talk!Nobody
  <2> QED
    BY <1>1, <1>2, <1>3, <2>1, <2>2
<1> QED
  BY <1>1, <1>2, <1>3, <1>4

\* What is on the way to a user is news.
LEMMA InboxType ==
  ASSUME SysTypeOK, NEW v \in Users
  PROVE  OnTheWay(v, NewsOf) \in Seq(Talk!News) /\ Inbox[v] \in Seq(Talk!News)
<1>1. OnTheWay(v, NewsOf) \in Seq(Talk!News)
  BY NewsType, WayType
<1> QED
  BY <1>1 DEF Inbox

\* The members of a room, as the rooms and as the users have them.
LEMMA MembersAre ==
  ASSUME Inv, NEW r \in RoomIds
  PROVE  Talk!Members(r) = users[r]
<1>1. users[r] = {u \in userList : currRoom[u] = r} /\ userList \in SUBSET Users
  BY DEF Inv, Rest, MembershipExact, SysTypeOK, TypeOK
<1>2. r # Outside
  BY MaxRoomIdAssumption DEF RoomIds, Outside, NoRoom
<1>3. \A u \in Users : Seat[u] = r <=> u \in userList /\ currRoom[u] = r
  BY <1>2 DEF Seat
<1> QED
  BY <1>1, <1>3 DEF Talk!Members

\* A step that RoomTalk does not see.
LEMMA Unseen ==
  ASSUME UNCHANGED <<userList, currRoom, shownUsers>>,
         \A v \in Users : Connected(v)' <=> Connected(v),
         \A v \in Users : Connected(v) => OnTheWay(v, NewsOf)' = OnTheWay(v, NewsOf)
  PROVE  UNCHANGED Talk!vars
<1>1. Present' = Present
  BY DEF Present
<1>2. Seat' = Seat
  BY DEF Seat
<1>3. Inbox' = Inbox
  BY DEF Inbox
<1> QED
  BY <1>1, <1>2, <1>3 DEF Talk!vars

\* A room is told.
LEMMA Told ==
  ASSUME SysTypeOK, NEW r \in RoomIds, NEW S \in SUBSET Users, NEW p \in ServerPackets, NEW rest \in Seq(Packages),
         Tells(r, S, p, rest), \A i \in DOMAIN rest : rest[i].packet.type = "S_ROOM_NAME",
         UNCHANGED <<toClient, clientState>>, p \in DOMAIN NewsOf,
         NEW kind, NEW who, NewsOf[p] = [kind |-> kind, who |-> who]
  PROVE  Talk!Tell(S, kind, who)
<1>1. ASSUME NEW v \in Users
      PROVE  OnTheWay(v, NewsOf)' = IF v \in S THEN Append(OnTheWay(v, NewsOf), NewsOf[p])
                                               ELSE OnTheWay(v, NewsOf)
  <2> DEFINE g == Addressed(v, NewsOf)
             way == OnTheWay(v, NewsOf)
             e == NewsOf[p]
  <2>1. rest \in Seq(Packages)
    OBVIOUS
  <2>2. Found(rest, g) = {}
    <3>1. ASSUME NEW i \in DOMAIN rest PROVE rest[i] \notin DOMAIN g
      <4>1. rest[i] \in Packages
        BY <2>1, <3>1
      <4>2. rest[i].packet \in ServerPackets /\ rest[i].packet.type = "S_ROOM_NAME"
        BY <3>1, <4>1 DEF Packages
      <4>3. rest[i].packet \notin DOMAIN NewsOf
        BY <4>2, NewsType
      <4> QED
        BY <4>3 DEF Addressed
    <3> QED
      BY <3>1 DEF Found
  <2> HIDE DEF g
  <2>3. Sift(rest, g) = <<>>
    BY <2>1, <2>2, SiftNone
  <2>4. OnTheWay(v, NewsOf)' = (way \o (IF v \in S THEN <<e>> ELSE <<>>)) \o << >>
    <3>1. OnTheWay(v, NewsOf)' =
            (OnTheWay(v, NewsOf) \o Share(S, p, v, NewsOf)) \o Sift(rest, Addressed(v, NewsOf))
      BY TellWay
    <3>2. Share(S, p, v, NewsOf) = IF v \in S THEN <<e>> ELSE <<>>
      BY DEF Share
    <3> QED
      BY <2>3, <3>1, <3>2 DEF g
  <2>5. way \in Seq(Talk!News) /\ e \in Talk!News
    BY InboxType, NewsType
  <2> HIDE DEF way, e
  <2>6. (way \o <<e>>) \o << >> = Append(way, e) /\ (way \o << >>) \o << >> = way
    BY <2>5
  <2> QED
    BY <2>4, <2>6 DEF way, e
<1>2. Present \subseteq Users /\ \A v \in Users : (v \in Present <=> Connected(v)) /\ (Connected(v)' <=> Connected(v))
  BY DEF Present, Connected
<1>3. \A v \in Users : Inbox[v] = IF Connected(v) THEN OnTheWay(v, NewsOf) ELSE <<>>
  BY DEF Inbox
<1>4. Inbox' = [v \in Users |-> IF Connected(v)' THEN OnTheWay(v, NewsOf)' ELSE <<>>]
  BY DEF Inbox
<1>5. Inbox' = [v \in Users |-> IF v \in S \cap Present THEN Append(Inbox[v], [kind |-> kind, who |-> who])
                                                       ELSE Inbox[v]]
  BY <1>1, <1>2, <1>3, <1>4
<1> QED
  BY <1>5 DEF Talk!Tell

\* Nothing is on its way to a user for whom nothing is coming.
LEMMA WayEmpty ==
  ASSUME SysTypeOK, NEW u \in Users, Coming(u) = {}
  PROVE  OnTheWay(u, NewsOf) = <<>>
<1> DEFINE g == Addressed(u, NewsOf)
<1>1. toClient[u] \in Seq(ServerPackets) /\ sendQueue \in Seq(Packages)
  BY Sequences
<1>2. Found(toClient[u], NewsOf) = {}
  BY DEF Found, Coming, Arrived
<1>3. Found(sendQueue, g) = {}
  <2>1. \A i \in DOMAIN sendQueue : sendQueue[i].session # u
    BY DEF Coming, Pushed
  <2> QED
    BY <2>1 DEF Found, Addressed
<1> HIDE DEF g
<1>4. Sift(toClient[u], NewsOf) = <<>> /\ Sift(sendQueue, g) = <<>>
  BY <1>1, <1>2, <1>3, SiftNone
<1>5. OnTheWay(u, NewsOf) = Sift(toClient[u], NewsOf) \o Sift(sendQueue, g)
  BY DEF OnTheWay, g, Addressed
<1> QED
  BY <1>4, <1>5

\* A user comes.
LEMMA Comes == ASSUME Inv, SysCreateUser PROVE \E u \in Users : Talk!Arrive(u)
<1>1. PICK u \in Users : u = userId
  BY DEF SysCreateUser, CreateUser
<1>2. /\ userList' = userList \cup {u} /\ clientState' = [clientState EXCEPT ![u] = "LOGIN"]
      /\ UNCHANGED <<currRoom, shownUsers, toClient, sendQueue>>
  BY <1>1 DEF SysCreateUser, CreateUser
<1>3. /\ u \notin userList /\ clientState[u] = "ABSENT" /\ Coming(u) = {} /\ currRoom[u] = NoRoom /\ SysTypeOK
      /\ clientState \in [Users -> ClientStates]
  BY <1>1 DEF Inv, Rest, Unborn, IInv, AbsentUsersInLobby, SysTypeOK, Users, TypeOK, IsInLobby
<1>4. OnTheWay(u, NewsOf) = <<>>
  BY <1>3, WayEmpty
<1>5. \A v \in Users : OnTheWay(v, NewsOf)' = OnTheWay(v, NewsOf)
  BY <1>2 DEF OnTheWay
<1>6. /\ ~Connected(u) /\ Connected(u)' /\ \A v \in Users : v # u => (Connected(v)' <=> Connected(v))
  BY <1>2, <1>3 DEF Connected
<1>7. u \notin Present /\ Present' = Present \cup {u}
  BY <1>6 DEF Present
<1>8. Seat[u] = Outside /\ Seat' = [Seat EXCEPT ![u] = NoRoom]
  BY <1>2, <1>3 DEF Seat
<1>9. Inbox' = Inbox
  BY <1>4, <1>5, <1>6 DEF Inbox
<1> QED
  BY <1>2, <1>7, <1>8, <1>9 DEF Talk!Arrive

\* A client goes.
LEMMA Goes ==
  ASSUME Inv, NEW u \in Users, CloseClient(u) \/ Miscast(u)
  PROVE  Talk!Close(u)
<1>1. /\ UNCHANGED vars /\ Connected(u) /\ SysTypeOK
      /\ clientState' = [clientState EXCEPT ![u] = "GONE"]
      /\ shownUsers' = [shownUsers EXCEPT ![u] = {}] /\ toClient' = [toClient EXCEPT ![u] = <<>>]
  BY DEF CloseClient, Miscast, Inv
<1>2. UNCHANGED <<userList, currRoom, sendQueue>>
  BY <1>1 DEF vars, userVars
<1>3. /\ ~Connected(u)' /\ \A v \in Users : v # u => (Connected(v)' <=> Connected(v))
      /\ \A v \in Users : v # u => toClient'[v] = toClient[v]
  BY <1>1 DEF Connected, SysTypeOK
<1>4. \A v \in Users : v # u => OnTheWay(v, NewsOf)' = OnTheWay(v, NewsOf)
  BY <1>2, <1>3 DEF OnTheWay
<1>5. u \in Present /\ Present' = Present \ {u}
  BY <1>1, <1>3 DEF Present
<1>6. Seat' = Seat
  BY <1>2 DEF Seat
<1>7. Inbox' = [Inbox EXCEPT ![u] = <<>>]
  BY <1>3, <1>4 DEF Inbox
<1> QED
  BY <1>1, <1>5, <1>6, <1>7 DEF Talk!Close

\* A client takes a packet that is news, or another one.
LEMMA Taken ==
  ASSUME ~Coalescing, Inv, NEW u \in Users, NEW s \in ClientStates, Receive(u, s),
         s \in {"LOBBY", "CHATROOM", clientState[u]}
  PROVE  /\ Received(u) \in ServerPackets /\ UNCHANGED <<userList, currRoom>> /\ Connected(u)
         /\ \A v \in Users : Connected(v)' <=> Connected(v)
         /\ Received(u) \notin DOMAIN NewsOf => UNCHANGED <<Present, Seat, Inbox>>
         /\ Received(u) \in DOMAIN NewsOf =>
              /\ UNCHANGED <<Present, Seat>> /\ Inbox[u] # <<>> /\ Head(Inbox[u]) = NewsOf[Received(u)]
              /\ Inbox' = [Inbox EXCEPT ![u] = Tail(@)]
<1> DEFINE p == Received(u)
           way == OnTheWay(u, NewsOf)
           rest == OnTheWay(u, NewsOf)'
           R == {NewsOf[x] : x \in DOMAIN NewsOf}
<1>1. /\ SysTypeOK /\ Connected(u) /\ clientState'[u] = s /\ p \in ServerPackets /\ UNCHANGED <<userList, currRoom, sendQueue>>
      /\ \A v \in Users : v # u => clientState'[v] = clientState[v]
  BY ReceiveFacts DEF Inv, vars, userVars
<1>2. \A v \in Users : Connected(v)' <=> Connected(v)
  BY <1>1 DEF Connected
<1>3. toClient[u] # <<>> /\ toClient' = [toClient EXCEPT ![u] = SubSeq(@, 2, Len(@))]
  <2>1. PICK k \in 1..1 : toClient' = [toClient EXCEPT ![u] = SubSeq(@, k + 1, Len(@))]
    BY DEF Receive
  <2>2. k = 1 /\ k + 1 = 2
    OBVIOUS
  <2>3. toClient' = [toClient EXCEPT ![u] = SubSeq(@, 2, Len(@))]
    BY <2>1, <2>2
  <2> QED
    BY <2>3 DEF Receive
<1>4. /\ way = Sift(<<p>>, NewsOf) \o rest /\ rest \in Seq(R)
      /\ \A v \in Users : v # u => OnTheWay(v, NewsOf)' = OnTheWay(v, NewsOf)
  BY <1>1, <1>3, WayReceive
<1>5. Inbox \in [Users -> Seq(Talk!News)]
  BY <1>1, InboxType DEF Inbox
<1>6. Present' = Present /\ Seat' = Seat
  BY <1>1, <1>2 DEF Present, Seat
<1>7. Inbox[u] = way /\ Inbox'[u] = rest
  BY <1>1, <1>2 DEF Inbox
<1>8. \A v \in Users : v # u => Inbox'[v] = Inbox[v]
  BY <1>2, <1>4 DEF Inbox
<1>9. ASSUME p \notin DOMAIN NewsOf PROVE Inbox' = Inbox
  <2>1. Sift(<<p>>, NewsOf) = <<>>
    BY <1>9, SiftSingle
  <2>2. << >> \o rest = rest
    BY <1>4
  <2>3. Inbox'[u] = Inbox[u]
    BY <1>4, <1>7, <2>1, <2>2
  <2> QED
    BY <1>8, <2>3 DEF Inbox
<1>10. ASSUME p \in DOMAIN NewsOf
       PROVE  Inbox[u] # <<>> /\ Head(Inbox[u]) = NewsOf[p] /\ Inbox' = [Inbox EXCEPT ![u] = Tail(@)]
  <2> DEFINE e == NewsOf[p]
  <2>1. Sift(<<p>>, NewsOf) = <<e>> /\ e \in R
    BY <1>10, SiftSingle
  <2>2. Inbox[u] = <<e>> \o Inbox'[u] /\ Inbox'[u] \in Seq(R)
    BY <1>4, <1>7, <2>1
  <2> HIDE DEF e, R
  <2>3. Inbox[u] # <<>> /\ Head(Inbox[u]) = e /\ Tail(Inbox[u]) = Inbox'[u]
    BY <2>1, <2>2
  <2>4. Inbox' = [Inbox EXCEPT ![u] = Tail(@)]
    BY <1>8, <2>3 DEF Inbox
  <2> QED
    BY <2>3, <2>4 DEF e
<1> QED
  BY <1>1, <1>2, <1>6, <1>9, <1>10

\* What is left of a sequence of news when its first part is gone.
LEMMA Missed ==
  ASSUME NEW S, NEW a \in Seq(S), NEW b \in Seq(S), a # <<>>
  PROVE  /\ Len(a) \in 1..Len(a \o b) /\ SubSeq(a \o b, Len(a) + 1, Len(a \o b)) = b
         /\ Head(a \o b) = Head(a)
<1> DEFINE s == a \o b
           n == Len(a)
           m == Len(b)
<1>1. n \in Nat /\ n > 0 /\ m \in Nat
  BY EmptySeq, LenProperties
<1>2. s \in Seq(S) /\ Len(s) = n + m /\ \A i \in 1..(n + m) : s[i] = IF i <= n THEN a[i] ELSE b[i - n]
  BY <1>1, ConcatProperties
<1> HIDE DEF s
<1>3. n \in 1..Len(s)
  BY <1>1, <1>2
<1> DEFINE r == SubSeq(s, n + 1, Len(s))
<1>4. r \in Seq(S) /\ DOMAIN r = 1..m /\ \A i \in 1..m : r[i] = s[n + i]
  BY <1>1, <1>2, <1>3, RestOfStream
<1> HIDE DEF r
<1>5. Len(r) = m
  BY <1>1, <1>4, LenProperties
<1>6. ASSUME NEW i \in 1..m PROVE r[i] = b[i]
  <2>1. n + i \in 1..(n + m) /\ ~(n + i <= n) /\ (n + i) - n = i
    BY <1>1
  <2> QED
    BY <1>2, <1>4, <2>1
<1>7. r = b
  BY <1>4, <1>5, <1>6, SeqEqual
<1>8. Head(s) = s[1] /\ Head(a) = a[1] /\ s[1] = a[1]
  BY <1>1, <1>2, <1>3
<1> QED
  BY <1>3, <1>7, <1>8 DEF r, s

\* A receive returns several packets: the client takes the first, and its user is
\* told nothing of the others.
LEMMA Skipped ==
  ASSUME Inv, NEW u \in Users, NEW s \in ClientStates, Receive(u, s),
         s \in {"LOBBY", "CHATROOM", clientState[u]}
  PROVE  /\ UNCHANGED <<Present, Seat>>
         /\ \/ Received(u) \notin DOMAIN NewsOf /\ UNCHANGED Inbox
            \/ /\ \E k \in 1..Len(Inbox[u]) : Inbox' = [Inbox EXCEPT ![u] = SubSeq(@, k + 1, Len(@))]
               /\ Received(u) \in DOMAIN NewsOf => Head(Inbox[u]) = NewsOf[Received(u)]
<1> DEFINE p == Received(u)
           way == OnTheWay(u, NewsOf)
           rest == OnTheWay(u, NewsOf)'
           R == {NewsOf[x] : x \in DOMAIN NewsOf}
<1>1. /\ SysTypeOK /\ Connected(u) /\ clientState'[u] = s /\ UNCHANGED <<userList, currRoom, sendQueue>>
      /\ \A v \in Users : v # u => clientState'[v] = clientState[v]
  BY ReceiveFacts DEF Inv, vars, userVars
<1>2. \A v \in Users : Connected(v)' <=> Connected(v)
  BY <1>1 DEF Connected
<1>3. PICK k \in 1..Len(toClient[u]) : toClient' = [toClient EXCEPT ![u] = SubSeq(@, k + 1, Len(@))]
  <2>1. PICK k \in 1..(IF Coalescing THEN Len(toClient[u]) ELSE 1) :
          toClient' = [toClient EXCEPT ![u] = SubSeq(@, k + 1, Len(@))]
    BY DEF Receive
  <2>2. k \in 1..Len(toClient[u])
    BY <1>1, <2>1, Sequences, EmptySeq DEF Receive
  <2> QED
    BY <2>1, <2>2
<1>4. /\ rest \in Seq(R) /\ \E lost \in Seq(R) : way = (Sift(<<p>>, NewsOf) \o lost) \o rest
      /\ \A v \in Users : v # u => OnTheWay(v, NewsOf)' = OnTheWay(v, NewsOf)
  BY <1>1, <1>3, WayLoses
<1>5. PICK lost \in Seq(R) : way = (Sift(<<p>>, NewsOf) \o lost) \o rest
  BY <1>4
<1>6. Present' = Present /\ Seat' = Seat
  BY <1>1, <1>2 DEF Present, Seat
<1>7. Inbox[u] = way /\ Inbox'[u] = rest /\ \A v \in Users : v # u => Inbox'[v] = Inbox[v]
  BY <1>1, <1>2, <1>4 DEF Inbox
<1> DEFINE gone == Sift(<<p>>, NewsOf) \o lost
<1>8. /\ gone \in Seq(R)
      /\ p \in DOMAIN NewsOf => gone # <<>> /\ Head(gone) = NewsOf[p]
  <2>1. CASE p \in DOMAIN NewsOf
    <3> DEFINE e == NewsOf[p]
    <3>1. Sift(<<p>>, NewsOf) = <<e>> /\ e \in R
      BY <2>1, SiftSingle
    <3> HIDE DEF e, R
    <3>2. <<e>> \o lost \in Seq(R) /\ <<e>> \o lost # <<>> /\ Head(<<e>> \o lost) = e
      BY <3>1
    <3> QED
      BY <3>1, <3>2 DEF e
  <2>2. CASE p \notin DOMAIN NewsOf
    <3>1. Sift(<<p>>, NewsOf) = <<>>
      BY <2>2, SiftSingle
    <3> HIDE DEF R
    <3>2. << >> \o lost = lost
      OBVIOUS
    <3> QED
      BY <2>2, <3>1, <3>2
  <2> QED
    BY <2>1, <2>2
<1> HIDE DEF gone, R, way, rest
<1>9. way = gone \o rest /\ rest \in Seq(R)
  BY <1>4, <1>5 DEF gone
<1>10. CASE gone = <<>>
  <2>1. way = rest
    BY <1>9, <1>10
  <2>2. Inbox' = Inbox
    BY <1>7, <2>1 DEF Inbox
  <2> QED
    BY <1>6, <1>8, <1>10, <2>2
<1>11. CASE gone # <<>>
  <2>1. /\ Len(gone) \in 1..Len(way) /\ SubSeq(way, Len(gone) + 1, Len(way)) = rest
        /\ Head(way) = Head(gone)
    BY <1>8, <1>9, <1>11, Missed
  <2>2. Inbox' = [Inbox EXCEPT ![u] = SubSeq(@, Len(gone) + 1, Len(@))]
    BY <1>7, <2>1 DEF Inbox
  <2> QED
    BY <1>6, <1>7, <1>8, <2>1, <2>2
<1> QED
  BY <1>10, <1>11

\* The user looks at the news as the client takes them, or misses what it loses.
LEMMA Looks ==
  ASSUME Inv, Screens, NEW u \in Users, LogicThread(u), ~Miscast(u)
  PROVE  Talk!Look(u) \/ Talk!Glance(u) \/ UNCHANGED Talk!vars
<1> DEFINE p == Received(u)
<1>1. /\ SysTypeOK /\ {"LOBBY", "CHATROOM", clientState[u]} \subseteq ClientStates
      /\ shownUsers \in [Users -> SUBSET Users]
  BY DEF Inv, SysTypeOK, ClientStates
\* News change the screen as After says, and nothing else does.
<1>2. ASSUME NEW s \in {"LOBBY", "CHATROOM", clientState[u]}, Receive(u, s),
             p \in DOMAIN NewsOf =>
               shownUsers' = [shownUsers EXCEPT ![u] = Talk!After(u, @, NewsOf[p])],
             p \notin DOMAIN NewsOf => UNCHANGED shownUsers
      PROVE  Talk!Look(u) \/ Talk!Glance(u) \/ UNCHANGED Talk!vars
  <2>1. CASE ~Coalescing
    <3>1. /\ p \notin DOMAIN NewsOf => UNCHANGED <<Present, Seat, Inbox>>
          /\ p \in DOMAIN NewsOf =>
                /\ UNCHANGED <<Present, Seat>> /\ Inbox[u] # <<>> /\ Head(Inbox[u]) = NewsOf[p]
                /\ Inbox' = [Inbox EXCEPT ![u] = Tail(@)]
      BY <1>1, <1>2, <2>1, Taken
    <3>2. CASE p \in DOMAIN NewsOf
      BY <1>2, <3>1, <3>2 DEF Talk!Look
    <3>3. CASE p \notin DOMAIN NewsOf
      BY <1>2, <3>1, <3>3 DEF Talk!vars
    <3> QED
      BY <3>2, <3>3
  <2>2. CASE Coalescing
    <3>1. /\ UNCHANGED <<Present, Seat>>
          /\ \/ p \notin DOMAIN NewsOf /\ UNCHANGED Inbox
             \/ /\ \E k \in 1..Len(Inbox[u]) : Inbox' = [Inbox EXCEPT ![u] = SubSeq(@, k + 1, Len(@))]
                /\ p \in DOMAIN NewsOf => Head(Inbox[u]) = NewsOf[p]
      BY <1>1, <1>2, Skipped
    <3>2. CASE p \notin DOMAIN NewsOf /\ UNCHANGED Inbox
      BY <1>2, <3>1, <3>2 DEF Talk!vars
    <3>3. CASE /\ \E k \in 1..Len(Inbox[u]) : Inbox' = [Inbox EXCEPT ![u] = SubSeq(@, k + 1, Len(@))]
               /\ p \in DOMAIN NewsOf => Head(Inbox[u]) = NewsOf[p]
      <4>1. \/ shownUsers' = shownUsers
            \/ shownUsers' = [shownUsers EXCEPT ![u] = Talk!After(u, @, Head(Inbox[u]))]
        BY <1>2, <3>3
      <4> QED
        BY <2>2, <3>1, <3>3, <4>1 DEF Talk!Glance
    <3> QED
      BY <3>1, <3>2, <3>3
  <2> QED
    BY <2>1, <2>2
<1>3. ASSUME NEW s \in {"LOBBY", "CHATROOM", clientState[u]}, Receive(u, s) PROVE p \in ServerPackets
  BY <1>1, <1>3, ReceiveFacts
<1>4. CASE F_SERVER_ENTER_OK(u) \/ F_LOBBY_ROOM_INFO(u)
  <2>1. /\ Receive(u, "LOBBY") \/ Receive(u, clientState[u])
        /\ p.type \in {"S_SERVER_ENTER_OK", "S_LOBBY_ROOM_INFO"} /\ UNCHANGED shownUsers
    BY <1>4 DEF F_SERVER_ENTER_OK, F_LOBBY_ROOM_INFO
  <2>2. p \notin DOMAIN NewsOf
    BY <1>3, <2>1, NewsType
  <2> QED
    BY <1>2, <2>1, <2>2
<1>5. CASE F_ROOM_ENTER(u)
  <2>1. /\ Receive(u, "CHATROOM") /\ p.type = "S_ROOM_ENTER"
        /\ shownUsers' = [shownUsers EXCEPT ![u] = (IF clientState[u] = "LOBBY" THEN {} ELSE @) \cup {p.uid}]
    BY <1>5 DEF F_ROOM_ENTER
  <2>2. clientState[u] = "LOBBY" => shownUsers[u] = {}
    BY DEF Screens, Screen
  <2>3. p \in DOMAIN NewsOf /\ NewsOf[p] = [kind |-> "enter", who |-> p.uid]
    BY <1>3, <2>1, NewsType
  <2>4. Talk!After(u, shownUsers[u], NewsOf[p]) = shownUsers[u] \cup {p.uid}
    BY <2>3 DEF Talk!After
  <2>5. shownUsers' = [shownUsers EXCEPT ![u] = Talk!After(u, @, NewsOf[p])]
    BY <1>1, <2>1, <2>2, <2>4
  <2> QED
    BY <1>2, <2>1, <2>3, <2>5
<1>6. CASE F_ROOM_EXIT(u)
  <2>1. /\ Receive(u, "LOBBY") \/ Receive(u, "CHATROOM")
        /\ p.type = "S_ROOM_EXIT"
        /\ shownUsers' = [shownUsers EXCEPT ![u] = IF p.uid = u THEN {} ELSE @ \ {p.uid}]
    BY <1>1, <1>6 DEF F_ROOM_EXIT
  <2>2. p \in DOMAIN NewsOf /\ NewsOf[p] = [kind |-> "exit", who |-> p.uid]
    BY <1>3, <2>1, NewsType
  <2>3. Talk!After(u, shownUsers[u], NewsOf[p]) = IF p.uid = u THEN {} ELSE shownUsers[u] \ {p.uid}
    BY <2>2 DEF Talk!After
  <2>4. shownUsers' = [shownUsers EXCEPT ![u] = Talk!After(u, @, NewsOf[p])]
    BY <1>1, <2>1, <2>3
  <2> QED
    BY <1>2, <2>1, <2>2, <2>4
<1>7. CASE F_ROOM_NAME_or_RECV_CAST(u)
  <2>1. /\ Receive(u, "CHATROOM") /\ UNCHANGED shownUsers
        /\ p.type \in {"S_ROOM_NAME", "S_UNICAST_OK", "S_UNICAST_NO", "S_MULTICAST", "S_BROADCAST"}
    BY <1>7 DEF F_ROOM_NAME_or_RECV_CAST
  <2>2. p \in DOMAIN NewsOf => NewsOf[p] = [kind |-> "say", who |-> 0]
    BY <1>3, <2>1, NewsType
  <2>3. p \in DOMAIN NewsOf => Talk!After(u, shownUsers[u], NewsOf[p]) = shownUsers[u]
    BY <2>2 DEF Talk!After
  <2>4. p \in DOMAIN NewsOf => shownUsers' = [shownUsers EXCEPT ![u] = Talk!After(u, @, NewsOf[p])]
    BY <1>1, <2>1, <2>3
  <2> QED
    BY <1>2, <2>1, <2>4
<1> QED
  BY <1>4, <1>5, <1>6, <1>7 DEF LogicThread

\* What the user asks for is not seen before the server answers.
LEMMA Asking ==
  ASSUME SysTypeOK, NEW u \in Users, SendNickname(u) \/ LobbyPage(u) \/ ChatRoomPage(u)
  PROVE  UNCHANGED Talk!vars
<1>1. /\ UNCHANGED <<vars, toClient, shownUsers>>
      /\ \/ clientState' = clientState
         \/ clientState[u] = "LOGIN" /\ clientState' = [clientState EXCEPT ![u] = "PENDING"]
  BY DEF SendNickname, LobbyPage, ChatRoomPage, Act
<1>2. UNCHANGED <<userList, currRoom, sendQueue>>
  BY <1>1 DEF vars, userVars
<1>3. \A v \in Users : Connected(v)' <=> Connected(v)
  BY <1>1 DEF SysTypeOK, Connected
<1>4. \A v \in Users : OnTheWay(v, NewsOf)' = OnTheWay(v, NewsOf)
  BY <1>1, <1>2 DEF OnTheWay
<1> QED
  BY <1>1, <1>2, <1>3, <1>4, Unseen

\* The send thread passes on what a client has to get, and drops nothing else.
LEMMA Passing ==
  ASSUME Inv, SysSendPackage, NEW v \in Users, Connected(v), NEW f
  PROVE  OnTheWay(v, f)' = OnTheWay(v, f)
<1>1. SysTypeOK /\ sendQueue # <<>>
  BY DEF SysSendPackage, SendPackage, Inv
<1>2. PICK u \in Users, p \in ServerPackets : u = Head(sendQueue).session /\ p = Head(sendQueue).packet
  <2>1. Head(sendQueue) \in Packages
    BY <1>1, Sequences, HeadFirst
  <2> QED
    BY <2>1 DEF Packages
<1>3. CASE u \notin userList
  <2>1. UNCHANGED <<toClient, sendQueue>>
    BY <1>2, <1>3 DEF SysSendPackage, SendPackage, Fault
  <2> QED
    BY <2>1 DEF OnTheWay
<1>4. CASE u \in userList
  <2>1. sendQueue' = Tail(sendQueue)
    BY <1>2, <1>4 DEF SysSendPackage, SendPackage
  <2>2. CASE u \in recvPending \cap userList /\ Connected(u)
    <3>1. toClient' = [toClient EXCEPT ![u] = Append(@, p)]
      BY <1>2, <2>2 DEF SysSendPackage
    <3> QED
      BY <1>1, <1>2, <2>1, <3>1, WaySend
  <2>3. CASE ~(u \in recvPending \cap userList /\ Connected(u))
    <3>1. UNCHANGED toClient
      BY <1>2, <2>3 DEF SysSendPackage
    <3>2. v # u
      <4>1. Connected(u) => u \in recvPending
        BY <1>4, UserFacts DEF UserInv, Page
      <4> QED
        BY <1>4, <2>3, <4>1
    <3> QED
      BY <1>1, <1>2, <2>1, <3>1, <3>2, WayDrop
  <2> QED
    BY <2>2, <2>3
<1> QED
  BY <1>3, <1>4

\* The send thread is not seen.
LEMMA Sending == ASSUME Inv, SysSendPackage PROVE UNCHANGED Talk!vars
<1>1. UNCHANGED <<userList, currRoom, clientState, shownUsers>> /\ SysTypeOK
  BY DEF SysSendPackage, SendPackage, clientVars, userVars, Fault, Inv
<1>2. \A v \in Users : Connected(v) => OnTheWay(v, NewsOf)' = OnTheWay(v, NewsOf)
  BY Passing
<1>3. \A v \in Users : Connected(v)' <=> Connected(v)
  BY <1>1 DEF Connected
<1> QED
  BY <1>1, <1>2, <1>3, Unseen

\* The server lets a user go.
LEMMA Leaves ==
  ASSUME Inv, NEW u \in userList, RemoveUser(u), UNCHANGED <<clientVars, toClient>>
  PROVE  Talk!Leave(u)
<1>1. /\ TypeOK /\ SysTypeOK /\ u \in Users /\ userList' = userList \ {u}
      /\ UNCHANGED <<clientState, shownUsers>> /\ currRoom[u] \in RoomIds \cup {NoRoom}
  BY DEF Inv, SysTypeOK, TypeOK, RemoveUser, clientVars
<1>2. \A v \in Users : v # u => currRoom'[v] = currRoom[v]
  BY <1>1 DEF RemoveUser, ExitRoom, TypeOK
<1>3. Present' = Present
  BY <1>1 DEF Present, Connected
<1>4. /\ Seat[u] = currRoom[u] /\ Seat[u] # Outside
      /\ Seat' = [Seat EXCEPT ![u] = Outside]
  <2>1. Seat[u] = currRoom[u] /\ currRoom[u] # Outside
    BY <1>1, MaxRoomIdAssumption DEF Seat, Outside, RoomIds, NoRoom
  <2>2. \A v \in Users : Seat'[v] = IF v = u THEN Outside ELSE Seat[v]
    BY <1>1, <1>2 DEF Seat
  <2> QED
    BY <2>1, <2>2 DEF Seat
<1>5. CASE IsInLobby(u)
  <2>1. UNCHANGED <<sendQueue, toClient>>
    BY <1>5 DEF RemoveUser
  <2>2. Inbox' = Inbox
    BY <1>1, <2>1 DEF Inbox, Connected, OnTheWay
  <2>3. Talk!Tell({}, "exit", u)
    BY <2>2 DEF Talk!Tell, Inbox
  <2>4. Seat[u] = NoRoom
    BY <1>4, <1>5 DEF IsInLobby
  <2> QED
    BY <1>1, <1>3, <1>4, <2>3, <2>4 DEF Talk!Leave
<1>6. CASE ~IsInLobby(u)
  <2> DEFINE r == currRoom[u]
             S == users[r] \ {u}
             notice == [type |-> "S_ROOM_EXIT", uid |-> u]
  <2>1. /\ r \in RoomIds /\ S \in SUBSET Users /\ notice \in ServerPackets
        /\ Tells(r, S, notice, << >>)
    <3>1. ExitRoom(u, TRUE) /\ TRUE \in BOOLEAN
      BY <1>6 DEF RemoveUser
    <3> QED
      BY <1>1, <1>6, <3>1, ExitTells
  <2>2. notice.type = "S_ROOM_EXIT" /\ notice.uid = u
    OBVIOUS
  <2>3. Talk!Members(r) = users[r]
    BY <2>1, MembersAre
  <2> HIDE DEF r, S, notice
  <2>4. notice \in DOMAIN NewsOf /\ NewsOf[notice] = [kind |-> "exit", who |-> u]
    BY <2>1, <2>2, NewsType
  <2>5. << >> \in Seq(Packages) /\ DOMAIN << >> = {}
    OBVIOUS
  <2>6. Talk!Tell(S, "exit", u)
    BY <1>1, <2>1, <2>4, <2>5, Told
  <2>7. Seat[u] # NoRoom /\ S = Talk!Members(Seat[u]) \ {u}
    BY <1>4, <1>6, <2>3 DEF IsInLobby, r, S
  <2> QED
    BY <1>1, <1>3, <1>4, <2>6, <2>7 DEF Talk!Leave
<1> QED
  BY <1>5, <1>6

\* A user enters a room.
LEMMA Enters ==
  ASSUME Inv, C_ROOM_ENTER, UNCHANGED <<clientVars, toServer, toClient>>
  PROVE  \E u \in Users : \E r \in RoomIds : Talk!Enter(u, r)
<1>1. /\ jobQueue # <<>> /\ jobQueue' = Tail(jobQueue) /\ UNCHANGED userList /\ sender \in userList
      /\ packet.type = "C_ROOM_ENTER" /\ packet.rid \in roomList /\ EnterRoom(sender, packet.rid)
      /\ SysTypeOK /\ TypeOK /\ UNCHANGED <<clientState, shownUsers, toClient, toServer>>
  BY DEF C_ROOM_ENTER, Dispatch, EnterRoom, Inv, SysTypeOK, clientVars
<1>2. PICK u \in Users, r \in RoomIds : u = sender /\ r = packet.rid
  BY <1>1 DEF TypeOK
<1>3. u \in userList /\ IsInLobby(u)
  <2>1. packet \in Going(sender) /\ Requests(sender)
    BY <1>1, SenderFacts
  <2>2. IsInLobby(sender)
    BY <1>1, <2>1 DEF Requests
  <2> QED
    BY <1>1, <1>2, <2>2
<1>4. /\ currRoom' = [currRoom EXCEPT ![u] = r] /\ currRoom \in [Users -> RoomIds \cup {NoRoom}]
  BY <1>1, <1>2 DEF EnterRoom, TypeOK
<1>5. Present' = Present
  BY <1>1 DEF Present, Connected
<1>6. Seat[u] = NoRoom /\ Seat' = [Seat EXCEPT ![u] = r]
  BY <1>1, <1>3, <1>4 DEF Seat, IsInLobby
<1> DEFINE S == users[r] \cup {u}
           enter == [type |-> "S_ROOM_ENTER", uid |-> u, name |-> nickname[u]]
           named == Package(u, [type |-> "S_ROOM_NAME", rid |-> r])
           rest == <<named>>
<1>7. S \in SUBSET Users /\ enter \in ServerPackets /\ named \in Packages /\ Tells(r, S, enter, rest)
  BY <1>1, <1>2, EnterTells
<1>8. enter.type = "S_ROOM_ENTER" /\ enter.uid = u /\ named.packet.type = "S_ROOM_NAME"
  BY DEF Package
<1>9. S = Talk!Members(r) \cup {u}
  BY MembersAre
<1> HIDE DEF S, enter, named
<1>10. rest \in Seq(Packages) /\ \A i \in DOMAIN rest : rest[i].packet.type = "S_ROOM_NAME"
  BY <1>7, <1>8
<1> HIDE DEF rest
<1>11. enter \in DOMAIN NewsOf /\ NewsOf[enter] = [kind |-> "enter", who |-> u]
  BY <1>7, <1>8, NewsType
<1>12. Talk!Tell(S, "enter", u)
  BY <1>1, <1>7, <1>10, <1>11, Told
<1> QED
  BY <1>1, <1>5, <1>6, <1>9, <1>12 DEF Talk!Enter

\* A user goes back to the lobby.
LEMMA Exits ==
  ASSUME Inv, C_ROOM_EXIT, UNCHANGED <<clientVars, toClient>>
  PROVE  \E u \in Users : Talk!Exit(u)
<1>1. /\ UNCHANGED userList /\ jobQueue # <<>> /\ sender \in userList /\ ~IsInLobby(sender) /\ ExitRoom(sender, FALSE)
      /\ SysTypeOK /\ TypeOK /\ UNCHANGED <<clientState, shownUsers, toClient>>
  BY DEF C_ROOM_EXIT, Dispatch, ExitRoom, Inv, SysTypeOK, clientVars
<1>2. PICK u \in Users : u = sender
  BY <1>1 DEF TypeOK
<1> DEFINE r == currRoom[u]
           S == users[r]
           notice == [type |-> "S_ROOM_EXIT", uid |-> u]
<1>3. u \in userList /\ currRoom' = [currRoom EXCEPT ![u] = NoRoom] /\ currRoom \in [Users -> RoomIds \cup {NoRoom}]
  BY <1>1, <1>2 DEF ExitRoom, TypeOK
<1>4. r \in RoomIds /\ S \in SUBSET Users /\ notice \in ServerPackets /\ Tells(r, S, notice, << >>)
  <2>1. FALSE \in BOOLEAN /\ ~IsInLobby(u) /\ ExitRoom(u, FALSE)
    BY <1>1, <1>2
  <2> QED
    BY <1>1, <2>1, ExitTells
<1>5. notice.type = "S_ROOM_EXIT" /\ notice.uid = u
  OBVIOUS
<1>6. Present' = Present
  BY <1>1 DEF Present, Connected
<1>7. Seat[u] = r /\ Seat' = [Seat EXCEPT ![u] = NoRoom]
  BY <1>1, <1>3 DEF Seat
<1>8. S = Talk!Members(r)
  BY <1>4, MembersAre
<1> HIDE DEF r, S, notice
<1>9. notice \in DOMAIN NewsOf /\ NewsOf[notice] = [kind |-> "exit", who |-> u]
  BY <1>4, <1>5, NewsType
<1>10. << >> \in Seq(Packages) /\ DOMAIN << >> = {}
  OBVIOUS
<1>11. Talk!Tell(S, "exit", u)
  BY <1>1, <1>4, <1>9, <1>10, Told
<1> QED
  BY <1>1, <1>4, <1>6, <1>7, <1>8, <1>11 DEF Talk!Exit

\* A user speaks to the room.
LEMMA Says ==
  ASSUME Inv, C_MULTICAST, UNCHANGED <<clientVars, toClient>>
  PROVE  \E u \in Users : Talk!Say(u)
<1>1. /\ UNCHANGED <<userList, currRoom>> /\ jobQueue # <<>> /\ sender \in userList /\ ~IsInLobby(sender)
      /\ CastToRooms({currRoom[sender]}, "S_MULTICAST")
      /\ SysTypeOK /\ TypeOK /\ UNCHANGED <<clientState, shownUsers, toClient>>
  BY DEF C_MULTICAST, Dispatch, CastToRooms, Inv, SysTypeOK, clientVars, userVars
<1>2. PICK u \in Users : u = sender
  BY <1>1 DEF TypeOK
<1> DEFINE r == currRoom[u]
           S == users[r]
           chat == [type |-> "S_MULTICAST", nickname |-> nickname[u]]
<1>3. r \in RoomIds /\ Seat[u] = r
  BY <1>1, <1>2 DEF TypeOK, IsInLobby, Seat
<1>4. S \in SUBSET Users /\ chat \in ServerPackets /\ Tells(r, S, chat, << >>)
  <2>1. CastToRooms({r}, "S_MULTICAST") /\ sender \in Users
    BY <1>1, <1>2
  <2> QED
    BY <1>1, <1>2, <1>3, <2>1, ChatTells
<1>5. chat.type = "S_MULTICAST"
  OBVIOUS
<1>6. Present' = Present
  BY <1>1 DEF Present, Connected
<1>7. Seat' = Seat
  BY <1>1 DEF Seat
<1>8. S = Talk!Members(r)
  BY <1>3, MembersAre
<1> HIDE DEF r, S, chat
<1>9. chat \in DOMAIN NewsOf /\ NewsOf[chat] = [kind |-> "say", who |-> 0]
  BY <1>4, <1>5, NewsType
<1>10. << >> \in Seq(Packages) /\ DOMAIN << >> = {}
  OBVIOUS
<1>11. Talk!Tell(S, "say", Talk!Nobody)
  <2>1. Talk!Tell(S, "say", 0)
    BY <1>1, <1>3, <1>4, <1>9, <1>10, Told
  <2> QED
    BY <2>1 DEF Talk!Nobody
<1> QED
  BY <1>1, <1>3, <1>6, <1>7, <1>8, <1>11 DEF Talk!Say

\* What the logic thread does.
LEMMA Serving == ASSUME Inv, SysLogicStep PROVE Talk!Next \/ UNCHANGED Talk!vars
<1>1. LogicStep /\ SysTypeOK /\ UNCHANGED <<clientVars, toServer, toClient, clientState, shownUsers>>
  BY DEF SysLogicStep, Inv, clientVars
<1>2. CASE C_SERVER_ENTER \/ C_LOBBY_ROOM_INFO \/ C_ROOM_CREATE \/ C_UNICAST \/ C_BROADCAST
  <2>1. UNCHANGED <<userList, currRoom>>
    BY <1>2, QuietPushes
  <2>2. PICK pushed \in Seq(Packages) :
          /\ sendQueue' = sendQueue \o pushed
          /\ \A i \in DOMAIN pushed :
               pushed[i].packet.type \in {"S_SERVER_ENTER_OK", "S_LOBBY_ROOM_INFO",
                                          "S_UNICAST_OK", "S_UNICAST_NO", "S_BROADCAST"}
    BY <1>2, QuietPushes
  <2>3. ASSUME NEW i \in DOMAIN pushed PROVE pushed[i].packet \notin DOMAIN NewsOf
    <3>1. pushed[i] \in Packages
      OBVIOUS
    <3>2. pushed[i].packet \in ServerPackets
      BY <3>1 DEF Packages
    <3> QED
      BY <2>2, <3>2, NewsType
  <2>4. ASSUME NEW v \in Users PROVE OnTheWay(v, NewsOf)' = OnTheWay(v, NewsOf)
    BY <1>1, <2>2, <2>3, WayQuiet
  <2>5. \A v \in Users : Connected(v)' <=> Connected(v)
    BY <1>1 DEF Connected
  <2> QED
    BY <1>1, <2>1, <2>4, <2>5, Unseen
<1>3. CASE C_ROOM_ENTER
  BY <1>1, <1>3, Enters DEF Talk!Next
<1>4. CASE C_ROOM_EXIT
  BY <1>1, <1>4, Exits DEF Talk!Next
<1>5. CASE C_MULTICAST
  BY <1>1, <1>5, Says DEF Talk!Next
<1>6. CASE C_SERVER_EXIT
  <2>1. sender \in userList /\ RemoveUser(sender) /\ userList \in SUBSET Users
    BY <1>1, <1>6 DEF C_SERVER_EXIT, Dispatch, SysTypeOK, TypeOK
  <2>2. PICK u \in userList : u = sender
    BY <2>1
  <2>3. RemoveUser(u)
    BY <2>1, <2>2
  <2>4. Talk!Leave(u)
    BY <1>1, <2>3, Leaves
  <2> QED
    BY <2>1, <2>4 DEF Talk!Next
<1>7. CASE StaleJob \/ NullRoom \/ StaleMember
  <2>1. UNCHANGED <<userList, currRoom, sendQueue>>
    BY <1>7 DEF StaleJob, NullRoom, StaleMember, Fault, userVars
  <2>2. \A v \in Users : Connected(v)' <=> Connected(v)
    BY <1>1 DEF Connected
  <2>3. \A v \in Users : OnTheWay(v, NewsOf)' = OnTheWay(v, NewsOf)
    BY <1>1, <2>1 DEF OnTheWay
  <2> QED
    BY <1>1, <2>1, <2>2, <2>3, Unseen
<1> QED
  BY <1>1, <1>2, <1>3, <1>4, <1>5, <1>6, <1>7 DEF LogicStep

\* Every step.
LEMMA StepOfTalk ==
  ASSUME Inv, Screens, [SysNext]_sysVars
  PROVE  [Talk!Next]_(Talk!vars)
<1>1. SysTypeOK
  BY DEF Inv
<1> SUFFICES Talk!Next \/ UNCHANGED Talk!vars
  OBVIOUS
<1>2. CASE SysCreateUser
  BY <1>2, Comes DEF Talk!Next
<1>3. ASSUME NEW u \in Users, ClientStep(u) PROVE Talk!Next \/ UNCHANGED Talk!vars
  <2>1. CASE SendNickname(u) \/ LobbyPage(u) \/ ChatRoomPage(u)
    BY <1>1, <2>1, Asking
  <2>2. CASE CloseClient(u) \/ Miscast(u)
    BY <2>2, Goes DEF Talk!Next
  <2>3. CASE LogicThread(u) /\ ~Miscast(u)
    BY <2>3, Looks DEF Talk!Next
  <2> QED
    BY <1>3, <2>1, <2>2, <2>3 DEF ClientStep
<1>4. ASSUME NEW u \in Users, SysRecvCompletion(u) \/ SysStaleCompletion(u) \/ SysOverlap(u)
      PROVE  UNCHANGED Talk!vars
  <2>1. UNCHANGED <<userList, currRoom, sendQueue, toClient, clientState, shownUsers>>
    BY <1>4, OverlapStops DEF SysRecvCompletion, SysStaleCompletion, RecvCompletion, StaleCompletion, Fault,
       userVars, clientVars
  <2>2. \A v \in Users : Connected(v)' <=> Connected(v)
    BY <2>1 DEF Connected
  <2>3. \A v \in Users : OnTheWay(v, NewsOf)' = OnTheWay(v, NewsOf)
    BY <2>1 DEF OnTheWay
  <2> QED
    BY <2>1, <2>2, <2>3, Unseen
<1>5. ASSUME NEW u \in Users, SysFailedCompletion(u) PROVE Talk!Next
  <2>1. UNCHANGED <<clientVars, toClient>> /\ u \in userList
    BY <1>5 DEF SysFailedCompletion, FailedCompletion
  <2>2. ~RemovalMeetsDeleted(u)
    <3>1. ~IsInLobby(u) => {currRoom[u]} \in SUBSET RoomIds
      BY <1>1 DEF SysTypeOK, TypeOK, IsInLobby
    <3> QED
      BY <3>1, NobodyDeleted DEF RemovalMeetsDeleted
  <2>3. RemoveUser(u)
    BY <1>5, <2>2 DEF SysFailedCompletion, FailedCompletion
  <2> QED
    BY <2>1, <2>3, Leaves DEF Talk!Next
<1>6. CASE UNCHANGED sysVars
  <2>1. UNCHANGED <<userList, currRoom, sendQueue, toClient, clientState, shownUsers>>
    BY <1>6 DEF sysVars, vars, userVars, clientVars
  <2>2. \A v \in Users : Connected(v)' <=> Connected(v)
    BY <2>1 DEF Connected
  <2>3. \A v \in Users : OnTheWay(v, NewsOf)' = OnTheWay(v, NewsOf)
    BY <2>1 DEF OnTheWay
  <2> QED
    BY <2>1, <2>2, <2>3, Unseen
<1> QED
  BY <1>2, <1>3, <1>4, <1>5, <1>6, Serving, Sending DEF SysNext

\* The beginning.
LEMMA InitOfTalk == ASSUME SysInit PROVE Talk!Init /\ Screens
<1>1. Inv
  BY SysInitInv
<1>2. /\ userList = {} /\ \A u \in Users : clientState[u] = "ABSENT" /\ shownUsers[u] = {}
      /\ shownUsers = [u \in Users |-> {}]
  BY DEF SysInit, Init
<1>3. \A u \in Users : ~Connected(u)
  BY <1>2 DEF Connected
<1> QED
  BY <1>2, <1>3 DEF Talk!Init, Present, Seat, Inbox, Screens, Screen

\* What the screens show is an invariant.
LEMMA ScreensAlways == SysSpec => []Screens
<1>1. SysInit => Screens
  BY InitOfTalk
<1>2. Inv /\ Screens /\ [SysNext]_sysVars => Screens'
  BY ScreensStep
<1> QED
  BY <1>1, <1>2, Invariant, PTL DEF SysSpec

-----------------------------------------------------------------------------
(* The refinement.                                                          *)

\* Until a removal overlaps a handler, and of users that wait for the page they asked
\* for: the server with its queues and threads and the clients with their pages
\* implement RoomTalk.  Every step of theirs is one of RoomTalk's or is not seen, so that members
\* are told of everything that happens in their room (Room::EnterRoom, ExitRoom,
\* RoomCast), in order, and nobody else.  What a receive loses (Client::RecvThread)
\* its own user misses; nothing else is lost, and nothing comes again or too late.
THEOREM TalkImplemented == SysSpec => ImplementsRoomTalk
<1>1. SysInit => Talk!Init
  BY InitOfTalk
<1>2. Inv /\ Screens /\ [SysNext]_sysVars => [Talk!Next]_(Talk!vars)
  BY StepOfTalk
<1> QED
  BY <1>1, <1>2, Invariant, ScreensAlways, PTL DEF SysSpec, ImplementsRoomTalk, Talk!Spec

-----------------------------------------------------------------------------
(* What a screen will show.                                                 *)

\* Nothing in the news after item i takes w off the screen of u.
Stays(u, w, box, i) ==
  \A j \in (i + 1)..Len(box) : ~(box[j].kind = "exit" /\ box[j].who \in {u, w})

\* Item i of the news puts w on a screen.
Shows(w, box, i) == box[i] = [kind |-> "enter", who |-> w]

\* The definition, user by user.
LEMMA SeenIs ==
  ASSUME NEW u \in Users, NEW s \in SUBSET Users, NEW box \in Seq(Talk!News), NEW w \in Users
  PROVE  w \in Talk!Seen(u, s, box) <=>
           \/ w \in s /\ Stays(u, w, box, 0)
           \/ \E i \in 1..Len(box) : Shows(w, box, i) /\ Stays(u, w, box, i)
<1> DEFINE n == Len(box)
<1>1. n \in Nat
  OBVIOUS
<1>2. w \in Talk!Seen(u, s, box) <=>
        \E i \in 0..n : (IF i = 0 THEN w \in s ELSE Shows(w, box, i)) /\ Stays(u, w, box, i)
  BY DEF Talk!Seen, Stays, Shows
<1> HIDE DEF n
<1>3. \A i : i \in 0..n <=> i = 0 \/ i \in 1..n
  BY <1>1
<1>4. \A i \in 1..n : i # 0
  BY <1>1
<1> QED
  BY <1>2, <1>3, <1>4 DEF n

\* A screen lists users.
LEMMA SeenType ==
  ASSUME NEW u, NEW s, NEW box
  PROVE  Talk!Seen(u, s, box) \subseteq Users
BY DEF Talk!Seen

\* No news.
LEMMA SeenNone ==
  ASSUME NEW u \in Users, NEW s \in SUBSET Users
  PROVE  Talk!Seen(u, s, <<>>) = s
<1>1. << >> \in Seq(Talk!News) /\ Len(<< >>) = 0
  OBVIOUS
<1> DEFINE none == << >>
<1> HIDE DEF none
<1>2. none \in Seq(Talk!News) /\ Len(none) = 0
  BY <1>1 DEF none
<1>3. \A w \in Users : Stays(u, w, none, 0)
  BY <1>2 DEF Stays
<1>4. ASSUME NEW w \in Users PROVE w \in Talk!Seen(u, s, none) <=> w \in s
  <2>1. 1..Len(none) = {}
    BY <1>2
  <2> QED
    BY <1>2, <1>3, <2>1, SeenIs
<1>5. Talk!Seen(u, s, none) \subseteq Users
  BY SeenType
<1> QED
  BY <1>4, <1>5 DEF none

\* The kinds of news.
LEMMA NewsKinds ==
  ASSUME NEW e \in Talk!News
  PROVE  \/ e.kind = "enter" /\ e.who \in Users /\ e = [kind |-> "enter", who |-> e.who]
         \/ e.kind = "exit" /\ e.who \in Users
         \/ e.kind = "say"
BY DEF Talk!News

\* One more item of news, at the end.
LEMMA SeenLast ==
  ASSUME NEW u \in Users, NEW s \in SUBSET Users, NEW box \in Seq(Talk!News), NEW e \in Talk!News
  PROVE  Talk!Seen(u, s, Append(box, e)) = Talk!After(u, Talk!Seen(u, s, box), e)
<1> DEFINE b == Append(box, e)
           n == Len(box)
           before == Talk!Seen(u, s, box)
<1>1. /\ n \in Nat /\ b \in Seq(Talk!News) /\ Len(b) = n + 1 /\ b[n + 1] = e /\ \A i \in 1..n : b[i] = box[i]
  OBVIOUS
<1> HIDE DEF b
<1>2. ASSUME NEW w \in Users, NEW i \in 0..n
      PROVE  Stays(u, w, b, i) <=> Stays(u, w, box, i) /\ ~(e.kind = "exit" /\ e.who \in {u, w})
  <2>1. \A j : j \in (i + 1)..(n + 1) <=> j \in (i + 1)..n \/ j = n + 1
    BY <1>1
  <2>2. \A j \in (i + 1)..n : b[j] = box[j]
    BY <1>1
  <2> QED
    BY <1>1, <2>1, <2>2 DEF Stays
<1>3. \A w \in Users : Stays(u, w, b, n + 1)
  <2>1. (n + 1) + 1 > n + 1
    BY <1>1
  <2>2. \A j : j \notin ((n + 1) + 1)..(n + 1)
    BY <1>1
  <2> QED
    BY <1>1, <2>2 DEF Stays
<1>4. ASSUME NEW w \in Users
      PROVE  w \in Talk!Seen(u, s, b) <=>
               \/ w \in before /\ ~(e.kind = "exit" /\ e.who \in {u, w})
               \/ e = [kind |-> "enter", who |-> w]
  <2> DEFINE out == e.kind = "exit" /\ e.who \in {u, w}
  <2>1. w \in Talk!Seen(u, s, b) <=>
          \/ w \in s /\ Stays(u, w, b, 0)
          \/ \E i \in 1..(n + 1) : Shows(w, b, i) /\ Stays(u, w, b, i)
    BY <1>1, SeenIs
  <2>2. w \in before <=>
          \/ w \in s /\ Stays(u, w, box, 0)
          \/ \E i \in 1..n : Shows(w, box, i) /\ Stays(u, w, box, i)
    BY SeenIs
  <2>3. Stays(u, w, b, 0) <=> Stays(u, w, box, 0) /\ ~out
    BY <1>1, <1>2
  <2>4. \A i \in 1..n : Stays(u, w, b, i) <=> Stays(u, w, box, i) /\ ~out
    BY <1>1, <1>2
  <2>5. \A i \in 1..n : Shows(w, b, i) <=> Shows(w, box, i)
    BY <1>1 DEF Shows
  <2>6. Shows(w, b, n + 1) <=> e = [kind |-> "enter", who |-> w]
    BY <1>1 DEF Shows
  <2>7. \A i : i \in 1..(n + 1) <=> i \in 1..n \/ i = n + 1
    BY <1>1
  <2>8. (\E i \in 1..(n + 1) : Shows(w, b, i) /\ Stays(u, w, b, i)) <=>
          \/ \E i \in 1..n : Shows(w, b, i) /\ Stays(u, w, b, i)
          \/ Shows(w, b, n + 1)
    BY <1>3, <2>7
  <2> HIDE DEF out, before
  <2>9. (\E i \in 1..n : Shows(w, b, i) /\ Stays(u, w, b, i)) <=>
          ~out /\ \E i \in 1..n : Shows(w, box, i) /\ Stays(u, w, box, i)
    BY <2>4, <2>5
  <2> QED
    BY <2>1, <2>2, <2>3, <2>6, <2>8, <2>9 DEF out
<1>5. before \subseteq Users /\ Talk!Seen(u, s, b) \subseteq Users
  BY SeenType
<1> HIDE DEF before
<1>6. CASE e.kind = "enter" /\ e.who \in Users /\ e = [kind |-> "enter", who |-> e.who]
  <2>1. ASSUME NEW w \in Users PROVE e = [kind |-> "enter", who |-> w] <=> w = e.who
    BY <1>6
  <2>2. ASSUME NEW w \in Users PROVE w \in Talk!Seen(u, s, b) <=> w \in before \/ w = e.who
    BY <1>4, <1>6, <2>1
  <2>3. Talk!After(u, before, e) = before \cup {e.who}
    BY <1>6 DEF Talk!After
  <2> QED
    BY <1>5, <1>6, <2>2, <2>3 DEF b, before
<1>7. CASE e.kind # "enter"
  <2>1. ASSUME NEW w \in Users PROVE e # [kind |-> "enter", who |-> w]
    BY <1>7
  <2>2. ASSUME NEW w \in Users
        PROVE  w \in Talk!Seen(u, s, b) <=> w \in before /\ ~(e.kind = "exit" /\ e.who \in {u, w})
    BY <1>4, <2>1
  <2>3. CASE e.kind = "say"
    BY <1>5, <2>2, <2>3 DEF Talk!After, b, before
  <2>4. CASE e.kind = "exit"
    BY <1>5, <2>2, <2>4 DEF Talk!After, b, before
  <2> QED
    BY <1>7, <2>3, <2>4, NewsKinds
<1> QED
  BY <1>6, <1>7, NewsKinds

\* Also after an item of news.
LEMMA AfterType ==
  ASSUME NEW u \in Users, NEW s \in SUBSET Users, NEW e \in Talk!News
  PROVE  Talk!After(u, s, e) \in SUBSET Users
BY NewsKinds DEF Talk!After

\* One item of news less, at the front.
LEMMA SeenFirst ==
  ASSUME NEW u \in Users, NEW s \in SUBSET Users, NEW box \in Seq(Talk!News), box # <<>>
  PROVE  Talk!Seen(u, Talk!After(u, s, Head(box)), Tail(box)) = Talk!Seen(u, s, box)
<1> DEFINE e == Head(box)
           b == Tail(box)
           n == Len(b)
           t == Talk!After(u, s, e)
<1>1. /\ n \in Nat /\ b \in Seq(Talk!News) /\ Len(box) = n + 1 /\ e \in Talk!News /\ box[1] = e
      /\ \A i \in 1..n : b[i] = box[i + 1]
  OBVIOUS
<1>2. t \in SUBSET Users
  BY <1>1, AfterType
<1>3. \A w \in Users : w \in t <=>
        (w \in s /\ ~(e.kind = "exit" /\ e.who \in {u, w})) \/ e = [kind |-> "enter", who |-> w]
  <2>1. CASE e.kind = "enter" /\ e.who \in Users /\ e = [kind |-> "enter", who |-> e.who]
    <3>1. \A w \in Users : e = [kind |-> "enter", who |-> w] <=> w = e.who
      BY <2>1
    <3>2. t = s \cup {e.who}
      BY <2>1 DEF Talk!After
    <3> QED
      BY <2>1, <3>1, <3>2
  <2>2. CASE e.kind \in {"say", "exit"}
    <3>1. \A w \in Users : e # [kind |-> "enter", who |-> w]
      BY <2>2
    <3>2. CASE e.kind = "say"
      <4>1. t = s
        BY <3>2 DEF Talk!After
      <4> HIDE DEF t
      <4> QED
        BY <3>1, <3>2, <4>1
    <3>3. CASE e.kind = "exit"
      <4>1. t = IF e.who = u THEN {} ELSE s \ {e.who}
        BY <3>3 DEF Talk!After
      <4> HIDE DEF t
      <4> QED
        BY <3>1, <3>3, <4>1
    <3> QED
      BY <2>2, <3>2, <3>3
  <2> QED
    BY <1>1, <2>1, <2>2, NewsKinds
<1> HIDE DEF b, e, t
<1>4. ASSUME NEW w \in Users, NEW i \in 0..n
      PROVE  Stays(u, w, box, i + 1) <=> Stays(u, w, b, i)
  <2>1. ASSUME NEW j \in (i + 1)..n PROVE j + 1 \in ((i + 1) + 1)..(n + 1) /\ box[j + 1] = b[j]
    BY <1>1, <2>1
  <2>2. ASSUME NEW j \in ((i + 1) + 1)..(n + 1) PROVE j - 1 \in (i + 1)..n /\ box[j] = b[j - 1]
    <3>1. j - 1 \in (i + 1)..n /\ j - 1 \in 1..n /\ (j - 1) + 1 = j
      BY <1>1, <2>2
    <3> QED
      BY <1>1, <3>1
  <2> QED
    BY <1>1, <2>1, <2>2 DEF Stays
<1>5. ASSUME NEW w \in Users
      PROVE  Stays(u, w, box, 0) <=> Stays(u, w, box, 1) /\ ~(e.kind = "exit" /\ e.who \in {u, w})
  <2>1. \A j : j \in (0 + 1)..(n + 1) <=> j = 1 \/ j \in (1 + 1)..(n + 1)
    BY <1>1
  <2> QED
    BY <1>1, <2>1 DEF Stays
<1>6. ASSUME NEW w \in Users
      PROVE  w \in Talk!Seen(u, t, b) <=> w \in Talk!Seen(u, s, box)
  <2> DEFINE out == e.kind = "exit" /\ e.who \in {u, w}
  <2>1. w \in Talk!Seen(u, t, b) <=>
          \/ w \in t /\ Stays(u, w, b, 0)
          \/ \E i \in 1..n : Shows(w, b, i) /\ Stays(u, w, b, i)
    BY <1>1, <1>2, SeenIs
  <2>2. w \in Talk!Seen(u, s, box) <=>
          \/ w \in s /\ Stays(u, w, box, 0)
          \/ \E i \in 1..(n + 1) : Shows(w, box, i) /\ Stays(u, w, box, i)
    BY <1>1, SeenIs
  <2>3. Stays(u, w, box, 1) <=> Stays(u, w, b, 0)
    <3>1. 0 \in 0..n /\ 0 + 1 = 1
      BY <1>1
    <3> QED
      BY <1>4, <3>1
  <2>4. Shows(w, box, 1) <=> e = [kind |-> "enter", who |-> w]
    BY <1>1 DEF Shows
  <2>5. (\E i \in 1..(n + 1) : Shows(w, box, i) /\ Stays(u, w, box, i)) <=>
          \/ Shows(w, box, 1) /\ Stays(u, w, box, 1)
          \/ \E i \in 1..n : Shows(w, b, i) /\ Stays(u, w, b, i)
    <3>1. ASSUME NEW i \in 1..n
          PROVE  /\ i + 1 \in 1..(n + 1) /\ (Shows(w, box, i + 1) <=> Shows(w, b, i))
                 /\ Stays(u, w, box, i + 1) <=> Stays(u, w, b, i)
      <4>1. i \in 0..n /\ i + 1 \in 1..(n + 1) /\ b[i] = box[i + 1]
        BY <1>1
      <4> QED
        BY <1>4, <4>1 DEF Shows
    <3>2. ASSUME NEW i \in 1..(n + 1), i # 1
          PROVE  i - 1 \in 1..n /\ (i - 1) + 1 = i
      BY <1>1, <3>2
    <3>3. 1 \in 1..(n + 1)
      BY <1>1
    <3> QED
      BY <3>1, <3>2, <3>3
  <2> HIDE DEF out
  <2>6. w \in t <=> (w \in s /\ ~out) \/ e = [kind |-> "enter", who |-> w]
    BY <1>3 DEF out
  <2>7. Stays(u, w, box, 0) <=> Stays(u, w, box, 1) /\ ~out
    BY <1>5 DEF out
  <2> QED
    BY <2>1, <2>2, <2>3, <2>4, <2>5, <2>6, <2>7
<1>7. Talk!Seen(u, t, b) \subseteq Users /\ Talk!Seen(u, s, box) \subseteq Users
  BY SeenType
<1> QED
  BY <1>6, <1>7 DEF b, e, t

\* What ViewsAgree says of who is present, in the terms of RoomTalk.
Agrees(u) ==
  Seat[u] # Outside =>
    /\ Talk!View(u) \subseteq Talk!Members(Seat[u])
    /\ IF Seat[u] = NoRoom THEN Talk!View(u) = {} ELSE u \in Talk!View(u)
    /\ \A v \in Present :
         Seat[u] # NoRoom /\ Seat[v] = Seat[u] => u \in Talk!View(v) \/ v \in Talk!View(u)

\* The invariant of RoomTalk: who comes has an empty screen.
TalkInv ==
  /\ Talk!TypeOK
  /\ \A u \in Users \ Present : Inbox[u] = <<>> /\ shownUsers[u] = {}
  /\ \A u \in Present : Agrees(u)

\* Rooms are neither the lobby nor outside.
LEMMA Places == NoRoom \notin RoomIds /\ Outside \notin RoomIds /\ Outside # NoRoom
BY MaxRoomIdAssumption DEF RoomIds, NoRoom, Outside

\* Who is told something sees it last, and nobody else sees anything new.
LEMMA TellViews ==
  ASSUME Talk!TypeOK, NEW S \in SUBSET Users, NEW kind, NEW who, [kind |-> kind, who |-> who] \in Talk!News,
         Talk!Tell(S, kind, who), UNCHANGED <<Present, shownUsers>>
  PROVE  /\ Inbox' \in [Users -> Seq(Talk!News)]
         /\ \A v \in Users : v \notin S \cap Present => Inbox'[v] = Inbox[v]
         /\ \A v \in Users :
              Talk!View(v)' = IF v \in S \cap Present
                              THEN Talk!After(v, Talk!View(v), [kind |-> kind, who |-> who])
                              ELSE Talk!View(v)
<1> DEFINE e == [kind |-> kind, who |-> who]
<1>1. /\ Inbox \in [Users -> Seq(Talk!News)] /\ shownUsers \in [Users -> SUBSET Users]
      /\ shownUsers' = shownUsers /\ e \in Talk!News
      /\ Inbox' = [v \in Users |-> IF v \in S \cap Present THEN Append(Inbox[v], e) ELSE Inbox[v]]
  BY DEF Talk!TypeOK, Talk!Tell
<1> HIDE DEF e
<1>2. Inbox' \in [Users -> Seq(Talk!News)]
  BY <1>1
<1>3. ASSUME NEW v \in Users, v \in S \cap Present PROVE Talk!View(v)' = Talk!After(v, Talk!View(v), e)
  <2>1. Inbox'[v] = Append(Inbox[v], e) /\ shownUsers'[v] = shownUsers[v]
    BY <1>1, <1>3
  <2>2. Talk!Seen(v, shownUsers[v], Append(Inbox[v], e)) = Talk!After(v, Talk!Seen(v, shownUsers[v], Inbox[v]), e)
    BY <1>1, SeenLast
  <2> QED
    BY <2>1, <2>2 DEF Talk!View
<1>4. ASSUME NEW v \in Users, v \notin S \cap Present PROVE Inbox'[v] = Inbox[v] /\ Talk!View(v)' = Talk!View(v)
  <2>1. Inbox'[v] = Inbox[v] /\ shownUsers'[v] = shownUsers[v]
    BY <1>1, <1>4
  <2> QED
    BY <2>1 DEF Talk!View
<1> QED
  BY <1>2, <1>3, <1>4 DEF e

\* A step that tells a room keeps the types.
LEMMA TellTypes ==
  ASSUME TalkInv, NEW S \in SUBSET Users, NEW kind, NEW who, [kind |-> kind, who |-> who] \in Talk!News,
         Talk!Tell(S, kind, who), UNCHANGED <<Present, shownUsers>>,
         Seat' \in [Users -> RoomIds \cup {NoRoom, Outside}],
         \A u \in Present : Agrees(u)'
  PROVE  TalkInv'
<1>1. Talk!TypeOK
  BY DEF TalkInv
<1>2. Inbox' \in [Users -> Seq(Talk!News)] /\ \A v \in Users : v \notin Present => Inbox'[v] = Inbox[v]
  BY <1>1, TellViews
<1>3. Talk!TypeOK'
  BY <1>1, <1>2 DEF Talk!TypeOK
<1>4. \A u \in Users \ Present' : Inbox'[u] = <<>> /\ shownUsers'[u] = {}
  BY <1>2 DEF TalkInv
<1> QED
  BY <1>3, <1>4 DEF TalkInv

\* Entering, of user u the room r.
LEMMA EnterAgrees == ASSUME TalkInv, NEW u \in Users, NEW r \in RoomIds, Talk!Enter(u, r) PROVE TalkInv'
<1> DEFINE e == [kind |-> "enter", who |-> u]
           S == Talk!Members(r) \cup {u}
<1>1. /\ Talk!TypeOK /\ Seat[u] = NoRoom /\ Seat' = [Seat EXCEPT ![u] = r] /\ Talk!Tell(S, "enter", u)
      /\ UNCHANGED <<Present, shownUsers>> /\ Present \subseteq Users
      /\ Seat \in [Users -> RoomIds \cup {NoRoom, Outside}]
      /\ S \in SUBSET Users /\ e \in Talk!News
  BY DEF TalkInv, Talk!TypeOK, Talk!Enter, Talk!Members, Talk!News
<1>2. ASSUME NEW v \in Users
      PROVE  Talk!View(v)' = IF v \in S \cap Present THEN Talk!View(v) \cup {u} ELSE Talk!View(v)
  <2>1. Talk!View(v)' = IF v \in S \cap Present THEN Talk!After(v, Talk!View(v), e) ELSE Talk!View(v)
    BY <1>1, TellViews
  <2>2. Talk!After(v, Talk!View(v), e) = Talk!View(v) \cup {u}
    BY DEF Talk!After
  <2> QED
    BY <2>1, <2>2
<1>3. /\ Seat'[u] = r /\ \A v \in Users : v # u => Seat'[v] = Seat[v]
      /\ \A v \in Users : v \in S <=> Seat'[v] = r
  BY <1>1, Places DEF Talk!Members
<1>4. Talk!Members(r)' = Talk!Members(r) \cup {u} /\ \A q : q \notin {r, NoRoom} => Talk!Members(q)' = Talk!Members(q)
  BY <1>1, <1>3, Places DEF Talk!Members
<1> HIDE DEF S
<1>5. ASSUME NEW v \in Present PROVE Agrees(v)'
  <2>1. v \in Users /\ Agrees(v)
    BY <1>1 DEF TalkInv
  <2>2. CASE v = u
    <3>1. Talk!View(v)' = {u}
      BY <1>1, <1>2, <1>3, <2>1, <2>2, Places DEF Agrees
    <3>2. \A w \in Present : Seat'[w] = r => u \in Talk!View(w)'
      BY <1>1, <1>2, <1>3
    <3> QED
      BY <1>1, <1>3, <1>4, <2>2, <3>1, <3>2, Places DEF Agrees
  <2>3. CASE v # u /\ Seat[v] = r
    <3>1. Talk!View(v)' = Talk!View(v) \cup {u} /\ Talk!View(v) \subseteq Talk!Members(r) /\ v \in Talk!View(v)
      BY <1>1, <1>2, <1>3, <2>1, <2>3, Places DEF Agrees
    <3>2. \A w \in Present : Seat'[w] = r => v \in Talk!View(w)' \/ w \in Talk!View(v)'
      BY <1>1, <1>2, <1>3, <2>1, <2>3, <3>1, Places DEF Agrees
    <3> QED
      BY <1>1, <1>3, <1>4, <2>1, <2>3, <3>1, <3>2, Places DEF Agrees
  <2>4. CASE v # u /\ Seat[v] # r
    <3>1. Talk!View(v)' = Talk!View(v) /\ Seat'[v] = Seat[v]
      BY <1>2, <1>3, <2>1, <2>4
    <3>2. \A w \in Present : Seat'[w] = Seat[v] => w # u /\ Seat[w] = Seat[v] /\ Talk!View(w)' = Talk!View(w)
      BY <1>1, <1>2, <1>3, <2>4
    <3>3. PICK q : q = Seat[v]
      OBVIOUS
    <3>4. q # NoRoom => Talk!Members(q)' = Talk!Members(q)
      BY <1>4, <2>4, <3>3
    <3> QED
      BY <1>1, <2>1, <3>1, <3>2, <3>3, <3>4 DEF Agrees
  <2> QED
    BY <2>2, <2>3, <2>4
<1>6. Seat' \in [Users -> RoomIds \cup {NoRoom, Outside}]
  BY <1>1
<1> QED
  BY <1>1, <1>5, <1>6, TellTypes

\* User u goes: those of the room it leaves, u but for its own view, see u go.
\* seat is where u goes, S who is told.
LEMMA GoneAgrees ==
  ASSUME TalkInv, NEW u \in Users, NEW place \in {NoRoom, Outside}, Seat[u] # Outside,
         Seat' = [Seat EXCEPT ![u] = place], NEW S \in SUBSET Users, Talk!Tell(S, "exit", u),
         UNCHANGED <<Present, shownUsers>>,
         \A v \in Users : v # u => (v \in S <=> Seat[u] # NoRoom /\ Seat[v] = Seat[u]),
         place = NoRoom => u \in S
  PROVE  TalkInv'
<1> DEFINE e == [kind |-> "exit", who |-> u]
<1>1. /\ Talk!TypeOK /\ Present \subseteq Users /\ e \in Talk!News
      /\ Seat \in [Users -> RoomIds \cup {NoRoom, Outside}]
      /\ Seat' \in [Users -> RoomIds \cup {NoRoom, Outside}]
  BY DEF TalkInv, Talk!TypeOK, Talk!News
<1>2. ASSUME NEW v \in Users
      PROVE  Talk!View(v)' = IF v \in S \cap Present THEN IF v = u THEN {} ELSE Talk!View(v) \ {u}
                                                     ELSE Talk!View(v)
  <2>1. Talk!View(v)' = IF v \in S \cap Present THEN Talk!After(v, Talk!View(v), e) ELSE Talk!View(v)
    BY <1>1, TellViews
  <2>2. Talk!After(v, Talk!View(v), e) = IF u = v THEN {} ELSE Talk!View(v) \ {u}
    BY DEF Talk!After
  <2> QED
    BY <2>1, <2>2
<1>3. /\ Seat'[u] = place /\ \A v \in Users : v # u => Seat'[v] = Seat[v]
  BY <1>1
<1>4. ASSUME NEW q \in RoomIds PROVE Talk!Members(q)' = Talk!Members(q) \ {u}
  <2>1. \A v \in Users : Seat'[v] = q <=> Seat[v] = q /\ v # u
    BY <1>3, Places
  <2> QED
    BY <2>1 DEF Talk!Members
<1>5. ASSUME NEW v \in Present PROVE Agrees(v)'
  <2>1. v \in Users /\ Agrees(v) /\ Seat[v] \in RoomIds \cup {NoRoom, Outside}
    BY <1>1 DEF TalkInv
  <2>2. CASE v = u
    <3>1. place = NoRoom => Talk!View(v)' = {}
      BY <1>2, <2>1, <2>2
    <3> QED
      BY <1>3, <2>1, <2>2, <3>1, Places DEF Agrees
  <2>3. CASE v # u /\ Seat[v] \in {NoRoom, Outside}
    <3>1. v \notin S /\ Seat'[v] = Seat[v]
      BY <1>3, <2>1, <2>3
    <3>2. Talk!View(v)' = Talk!View(v)
      BY <1>2, <2>1, <3>1
    <3> QED
      BY <2>1, <2>3, <3>1, <3>2, Places DEF Agrees
  <2>4. CASE v # u /\ Seat[v] \in RoomIds
    <3>1. PICK q \in RoomIds : q = Seat[v] /\ q = Seat'[v]
      BY <1>3, <2>1, <2>4
    <3>2. Talk!View(v) \subseteq Talk!Members(q) /\ v \in Talk!View(v)
      BY <2>1, <3>1, Places DEF Agrees
    <3>3. /\ Talk!View(v)' = Talk!View(v) \ {u}
      <4>1. CASE v \in S
        BY <1>2, <2>1, <2>4, <4>1
      <4>2. CASE v \notin S
        <5>1. Seat[u] # q
          BY <2>1, <2>4, <3>1, <4>2, Places
        <5>2. u \notin Talk!Members(q)
          BY <5>1 DEF Talk!Members
        <5> QED
          BY <1>2, <2>1, <3>2, <4>2, <5>2
      <4> QED
        BY <4>1, <4>2
    <3>4. ASSUME NEW w \in Present, Seat'[w] = q PROVE v \in Talk!View(w)' \/ w \in Talk!View(v)'
      <4>1. w \in Users /\ w # u /\ Seat[w] = q
        BY <1>1, <1>3, <3>1, <3>4, Places
      <4>2. v \in Talk!View(w) \/ w \in Talk!View(v)
        BY <2>1, <3>1, <3>4, <4>1, Places DEF Agrees
      <4>3. v \in Talk!View(w) => v \in Talk!View(w)'
        BY <1>2, <2>4, <4>1
      <4> QED
        BY <3>3, <4>1, <4>2, <4>3
    <3>5. Talk!Members(q)' = Talk!Members(q) \ {u}
      BY <1>4
    <3> QED
      BY <2>4, <3>1, <3>2, <3>3, <3>4, <3>5, Places DEF Agrees
  <2> QED
    BY <2>1, <2>2, <2>3, <2>4
<1> QED
  BY <1>1, <1>5, TellTypes

\* A step in which nobody is told or moves, nor sees anything new.
LEMMA SameViews ==
  ASSUME TalkInv, Talk!TypeOK', NEW P, P = Present', P \subseteq Present, UNCHANGED Seat,
         \A v \in Users \ P : Inbox'[v] = <<>> /\ shownUsers'[v] = {},
         \A v \in P : Talk!View(v)' = Talk!View(v)
  PROVE  TalkInv'
<1>1. \A q : Talk!Members(q)' = Talk!Members(q)
  BY DEF Talk!Members
<1>2. ASSUME NEW v \in P PROVE Agrees(v)'
  <2>1. Agrees(v) /\ Seat'[v] = Seat[v]
    BY DEF TalkInv
  <2>2. PICK q : q = Seat[v]
    OBVIOUS
  <2>3. Talk!Members(q)' = Talk!Members(q)
    BY <1>1
  <2> QED
    BY <2>1, <2>2, <2>3 DEF Agrees
<1> QED
  BY <1>2 DEF TalkInv

\* A newcomer sits in the lobby and sees nobody.
LEMMA ArriveAgrees == ASSUME TalkInv, NEW u \in Users, Talk!Arrive(u) PROVE TalkInv'
<1>1. /\ Seat[u] = Outside /\ u \notin Present /\ Seat' = [Seat EXCEPT ![u] = NoRoom]
      /\ Present' = Present \cup {u} /\ UNCHANGED <<Inbox, shownUsers>> /\ Talk!TypeOK
      /\ Seat \in [Users -> RoomIds \cup {NoRoom, Outside}]
      /\ Present \subseteq Users
  BY DEF TalkInv, Talk!TypeOK, Talk!Arrive
<1>2. Talk!TypeOK'
  BY <1>1 DEF Talk!TypeOK
<1>3. \A v \in Users : Talk!View(v)' = Talk!View(v)
  BY <1>1 DEF Talk!View
<1>4. Talk!View(u) = {}
  <2>1. Inbox[u] = <<>> /\ shownUsers[u] = {}
    BY <1>1 DEF TalkInv
  <2>2. {} \in SUBSET Users
    OBVIOUS
  <2> QED
    BY <2>1, <2>2, SeenNone DEF Talk!View
<1>5. ASSUME NEW q \in RoomIds PROVE Talk!Members(q)' = Talk!Members(q)
  <2>1. \A v \in Users : Seat'[v] = q <=> Seat[v] = q
    BY <1>1, Places
  <2> QED
    BY <2>1 DEF Talk!Members
<1>6. Seat'[u] = NoRoom /\ \A v \in Users : v # u => Seat'[v] = Seat[v]
  BY <1>1
<1>7. Agrees(u)'
  BY <1>3, <1>4, <1>6 DEF Agrees
<1>8. ASSUME NEW v \in Present PROVE Agrees(v)'
  <2>1. Agrees(v) /\ v \in Users /\ v # u /\ Seat[v] \in RoomIds \cup {NoRoom, Outside}
    BY <1>1 DEF TalkInv
  <2>2. CASE Seat[v] \in {NoRoom, Outside}
    BY <1>3, <1>6, <2>1, <2>2, Places DEF Agrees
  <2>3. CASE Seat[v] \in RoomIds
    <3>1. PICK q \in RoomIds : q = Seat[v] /\ q = Seat'[v]
      BY <1>6, <2>1, <2>3
    <3>2. Talk!Members(q)' = Talk!Members(q)
      BY <1>5
    <3>3. \A w \in Present' : Seat'[w] = q => w \in Present /\ w \in Users /\ Seat[w] = q
      BY <1>1, <1>6, Places
    <3> QED
      BY <1>3, <2>1, <3>1, <3>2, <3>3, Places DEF Agrees
  <2> QED
    BY <2>1, <2>2, <2>3
<1>9. \A v \in Users \ Present' : Inbox'[v] = <<>> /\ shownUsers'[v] = {}
  BY <1>1 DEF TalkInv
<1> QED
  BY <1>1, <1>2, <1>7, <1>8, <1>9 DEF TalkInv

\* Who closes the screen is no longer there to see.
LEMMA CloseAgrees == ASSUME TalkInv, NEW u \in Users, Talk!Close(u) PROVE TalkInv'
<1>1. /\ Present' = Present \ {u} /\ UNCHANGED Seat /\ Talk!TypeOK
      /\ Inbox' = [Inbox EXCEPT ![u] = <<>>] /\ shownUsers' = [shownUsers EXCEPT ![u] = {}]
      /\ Inbox \in [Users -> Seq(Talk!News)] /\ shownUsers \in [Users -> SUBSET Users] /\ Present \subseteq Users
  BY DEF TalkInv, Talk!TypeOK, Talk!Close
<1>2. << >> \in Seq(Talk!News)
  OBVIOUS
<1>3. Talk!TypeOK'
  BY <1>1, <1>2 DEF Talk!TypeOK
<1>4. PICK P : P = Present' /\ P \subseteq Present /\ u \notin P
  <2>1. Present' \subseteq Present /\ u \notin Present'
    BY <1>1
  <2> QED
    BY <2>1
<1>5. \A v \in Users : v # u => Inbox'[v] = Inbox[v] /\ shownUsers'[v] = shownUsers[v]
  BY <1>1
<1>6. \A v \in P : Talk!View(v)' = Talk!View(v)
  BY <1>1, <1>4, <1>5 DEF Talk!View
<1>7. \A v \in Users \ P : Inbox'[v] = <<>> /\ shownUsers'[v] = {}
  BY <1>1, <1>4, <1>5 DEF TalkInv
<1> QED
  BY <1>1, <1>3, <1>4, <1>6, <1>7, SameViews

\* Looking at the news changes nothing of what the screen will show in the end.
LEMMA LookAgrees == ASSUME TalkInv, NEW u \in Users, Talk!Look(u) PROVE TalkInv'
<1> DEFINE box == Inbox[u]
           s == shownUsers[u]
           t == Talk!After(u, s, Head(box))
<1>1. /\ UNCHANGED <<Present, Seat>> /\ Talk!TypeOK /\ box # <<>>
      /\ Inbox' = [Inbox EXCEPT ![u] = Tail(box)] /\ shownUsers' = [shownUsers EXCEPT ![u] = t]
      /\ Inbox \in [Users -> Seq(Talk!News)] /\ shownUsers \in [Users -> SUBSET Users]
      /\ box \in Seq(Talk!News) /\ s \in SUBSET Users
  BY DEF TalkInv, Talk!TypeOK, Talk!Look
<1>2. Tail(box) \in Seq(Talk!News) /\ Head(box) \in Talk!News
  BY <1>1
<1>3. t \in SUBSET Users
  BY <1>1, <1>2, AfterType
<1>4. Talk!Seen(u, t, Tail(box)) = Talk!Seen(u, s, box)
  BY <1>1, SeenFirst
<1> HIDE DEF t
<1>5. /\ Inbox'[u] = Tail(box) /\ shownUsers'[u] = t
      /\ \A v \in Users : v # u => Inbox'[v] = Inbox[v] /\ shownUsers'[v] = shownUsers[v]
      /\ Inbox' \in [Users -> Seq(Talk!News)] /\ shownUsers' \in [Users -> SUBSET Users]
  BY <1>1, <1>2, <1>3
<1>6. Talk!TypeOK'
  BY <1>1, <1>5 DEF Talk!TypeOK
<1>7. \A v \in Users : Talk!View(v)' = Talk!View(v)
  BY <1>4, <1>5 DEF Talk!View
<1>8. PICK P : P = Present' /\ P = Present /\ P \subseteq Users
  BY <1>1 DEF Talk!TypeOK
<1>9. u \in Present
  BY <1>1 DEF TalkInv
<1>10. \A v \in Users \ P : Inbox'[v] = <<>> /\ shownUsers'[v] = {}
  BY <1>5, <1>8, <1>9 DEF TalkInv
<1> QED
  BY <1>1, <1>6, <1>7, <1>8, <1>10, SameViews

\* Talk is no news of who is there.
LEMMA SayAgrees == ASSUME TalkInv, NEW u \in Users, Talk!Say(u) PROVE TalkInv'
<1> DEFINE S == Talk!Members(Seat[u])
           e == [kind |-> "say", who |-> Talk!Nobody]
<1>1. /\ Talk!TypeOK /\ UNCHANGED <<Present, Seat, shownUsers>> /\ Talk!Tell(S, "say", Talk!Nobody)
      /\ S \in SUBSET Users /\ e \in Talk!News
  BY DEF TalkInv, Talk!Say, Talk!Members, Talk!News
<1>2. /\ Inbox' \in [Users -> Seq(Talk!News)]
      /\ \A v \in Users : v \notin S \cap Present => Inbox'[v] = Inbox[v]
      /\ \A v \in Users : Talk!View(v)' = IF v \in S \cap Present THEN Talk!After(v, Talk!View(v), e) ELSE Talk!View(v)
  BY <1>1, TellViews
<1>3. \A v \in Users : Talk!View(v)' = Talk!View(v)
  BY <1>2 DEF Talk!After
<1>4. Talk!TypeOK'
  BY <1>1, <1>2 DEF Talk!TypeOK
<1>5. PICK P : P = Present' /\ P = Present /\ P \subseteq Users
  BY <1>1 DEF Talk!TypeOK
<1>6. \A v \in Users \ P : Inbox'[v] = <<>> /\ shownUsers'[v] = {}
  BY <1>1, <1>2, <1>5 DEF TalkInv
<1> QED
  BY <1>1, <1>3, <1>4, <1>5, <1>6, SameViews

\* Exit and Leave.
LEMMA ExitAgrees == ASSUME TalkInv, NEW u \in Users, Talk!Exit(u) PROVE TalkInv'
<1> DEFINE S == Talk!Members(Seat[u])
<1>1. /\ Seat[u] \in RoomIds /\ Seat' = [Seat EXCEPT ![u] = NoRoom] /\ Talk!Tell(S, "exit", u)
      /\ UNCHANGED <<Present, shownUsers>>
      /\ S \in SUBSET Users /\ \A v \in Users : v \in S <=> Seat[v] = Seat[u]
  BY DEF Talk!Exit, Talk!Members
<1> HIDE DEF S
<1>2. Seat[u] # NoRoom /\ Seat[u] # Outside /\ NoRoom \in {NoRoom, Outside} /\ u \in S
      /\ \A v \in Users : v # u => (v \in S <=> Seat[u] # NoRoom /\ Seat[v] = Seat[u])
  BY <1>1, Places
<1>3. PICK place \in {NoRoom, Outside} : place = NoRoom
  OBVIOUS
<1>4. Seat' = [Seat EXCEPT ![u] = place] /\ (place = NoRoom => u \in S)
  BY <1>1, <1>2, <1>3
<1> QED
  BY <1>1, <1>2, <1>4, GoneAgrees

\* A user leaves the chat: it was in the lobby, or its room is told.
LEMMA LeaveAgrees == ASSUME TalkInv, NEW u \in Users, Talk!Leave(u) PROVE TalkInv'
<1> DEFINE S == IF Seat[u] = NoRoom THEN {} ELSE Talk!Members(Seat[u]) \ {u}
<1>1. /\ Seat[u] # Outside /\ Seat' = [Seat EXCEPT ![u] = Outside] /\ Talk!Tell(S, "exit", u)
      /\ UNCHANGED <<Present, shownUsers>>
      /\ S \in SUBSET Users /\ \A v \in Users : v # u => (v \in S <=> Seat[u] # NoRoom /\ Seat[v] = Seat[u])
  BY DEF Talk!Leave, Talk!Members
<1> HIDE DEF S
<1>2. Outside # NoRoom /\ Outside \in {NoRoom, Outside}
  BY Places
<1> QED
  BY <1>1, <1>2, GoneAgrees

\* The invariant holds at the beginning.
LEMMA TalkInit == ASSUME SysInit PROVE TalkInv
<1>1. Talk!Init
  BY InitOfTalk
<1>2. << >> \in Seq(Talk!News)
  OBVIOUS
<1>3. Talk!TypeOK
  BY <1>1, <1>2 DEF Talk!Init, Talk!TypeOK
<1> QED
  BY <1>1, <1>3 DEF TalkInv, Talk!Init

\* And every step keeps it, if nothing is missed.
LEMMA TalkStep == ASSUME ~Coalescing, TalkInv, [Talk!Next]_(Talk!vars) PROVE TalkInv'
<1>1. CASE UNCHANGED Talk!vars
  <2>1. UNCHANGED <<Present, Seat, Inbox, shownUsers>> /\ Talk!TypeOK
    BY <1>1 DEF Talk!vars, TalkInv
  <2>2. Talk!TypeOK'
    BY <2>1 DEF Talk!TypeOK
  <2>3. PICK P : P = Present' /\ P = Present
    BY <2>1
  <2>4. \A v \in Users : Talk!View(v)' = Talk!View(v)
    BY <2>1 DEF Talk!View
  <2>5. P \subseteq Users /\ \A v \in Users \ P : Inbox'[v] = <<>> /\ shownUsers'[v] = {}
    BY <2>1, <2>3 DEF TalkInv, Talk!TypeOK
  <2> QED
    BY <2>1, <2>2, <2>3, <2>4, <2>5, SameViews
<1>2. \A u \in Users : ~Talk!Glance(u)
  BY DEF Talk!Glance
<1> QED
  BY <1>1, <1>2, ArriveAgrees, CloseAgrees, EnterAgrees, ExitAgrees, LeaveAgrees, SayAgrees, LookAgrees DEF Talk!Next

\* So the system keeps it too, for its steps are RoomTalk's.
LEMMA TalkAlways == ASSUME ~Coalescing PROVE SysSpec => []TalkInv
<1>1. SysInit => TalkInv
  BY TalkInit
<1>2. Inv /\ Screens /\ TalkInv /\ [SysNext]_sysVars => TalkInv'
  BY StepOfTalk, TalkStep
<1> QED
  BY <1>1, <1>2, Invariant, ScreensAlways, PTL DEF SysSpec

\* If every receive returns one packet, until a removal overlaps a handler, and of
\* users that wait for the page they asked for: what a connected member of a room
\* is going to see in its RoomDisplay is members of that room, itself included, who
\* is in the lobby is going to see nobody, and of two members one is going to see
\* the other, whatever is still under way in the queues and the streams.
THEOREM ViewsAlwaysAgree == ASSUME ~Coalescing PROVE SysSpec => []ViewsAgree
<1>1. ASSUME Inv, TalkInv PROVE ViewsAgree
  <2>1. SysTypeOK /\ userList \in SUBSET Users /\ currRoom \in [Users -> RoomIds \cup {NoRoom}]
    BY <1>1 DEF Inv, SysTypeOK, TypeOK
  <2>2. \A u \in userList : Seat[u] = currRoom[u] /\ Seat[u] # Outside /\ (Connected(u) => u \in Present)
    BY <2>1, Places DEF Seat, Present
  <2>3. ASSUME NEW u \in userList, Connected(u)
        PROVE  /\ Talk!View(u) \subseteq Talk!Members(currRoom[u])
               /\ IF IsInLobby(u) THEN Talk!View(u) = {} ELSE u \in Talk!View(u)
               /\ \A v \in userList :
                    ~IsInLobby(u) /\ Connected(v) /\ currRoom[v] = currRoom[u] =>
                      u \in Talk!View(v) \/ v \in Talk!View(u)
    <3>1. Agrees(u)
      BY <1>1, <2>2, <2>3 DEF TalkInv
    <3> QED
      BY <2>2, <2>3, <3>1 DEF Agrees, IsInLobby
  <2> QED
    BY <2>3 DEF ViewsAgree
<1>2. Inv /\ TalkInv => ViewsAgree
  BY <1>1
<1> QED
  BY <1>2, Invariant, TalkAlways, PTL

-----------------------------------------------------------------------------
(* The packets on the way to a client fit the pages they will find.         *)

\* The packets themselves.
Packet == [p \in ServerPackets |-> p]
Items(s) == {s[i] : i \in DOMAIN s}

\* Packets that only the room's page understands.
InRoom(u, p) ==
  \/ p.type \in {"S_ROOM_NAME", "S_UNICAST_OK", "S_UNICAST_NO", "S_MULTICAST", "S_BROADCAST"}
  \/ p.type = "S_ROOM_EXIT" /\ p.uid # u

\* Packet p fits the page u will be on, which is on page s now, after the packets before.
Suits(u, s, before, p) ==
  /\ p.type = "S_LOBBY_ROOM_INFO" =>
       IF s = "LOBBY" THEN \A q \in before : ~Opening(q) ELSE \E q \in before : Closing(u, q)
  /\ InRoom(u, p) =>
       IF s = "LOBBY" THEN \E q \in before : Opening(q)
       ELSE s = "CHATROOM" /\ \A q \in before : ~Closing(u, q)

Before(way, j) == {way[i] : i \in 1..(j - 1)}
Ordered(u, s, way) == \A j \in DOMAIN way : Suits(u, s, Before(way, j), way[j])

\* The items of a sequence that is put together.
LEMMA ItemsOf ==
  ASSUME NEW S, NEW w \in Seq(S)
  PROVE  /\ Items(<<>>) = {} /\ \A x \in S : Items(Append(w, x)) = Items(w) \cup {x}
         /\ \A v \in Seq(S) : Items(w \o v) = Items(w) \cup Items(v)
         /\ \A x \in S : Items(<<x>>) = {x}
<1>1. Items(<<>>) = {}
  BY DEF Items
<1>2. ASSUME NEW v \in Seq(S) PROVE Items(w \o v) = Items(w) \cup Items(v)
  <2> DEFINE b == w \o v
  <2>1. /\ b \in Seq(S) /\ Len(w) \in Nat /\ Len(v) \in Nat /\ Len(b) = Len(w) + Len(v)
        /\ DOMAIN b = 1..Len(b) /\ DOMAIN w = 1..Len(w) /\ DOMAIN v = 1..Len(v)
        /\ \A i \in 1..Len(w) : b[i] = w[i]
        /\ \A i \in 1..Len(v) : b[Len(w) + i] = v[i]
    OBVIOUS
  <2> HIDE DEF b
  <2>2. ASSUME NEW i \in DOMAIN b PROVE b[i] \in Items(w) \cup Items(v)
    <3>1. CASE i <= Len(w)
      BY <2>1, <2>2, <3>1 DEF Items
    <3>2. CASE i > Len(w)
      <4>1. i - Len(w) \in 1..Len(v) /\ i = Len(w) + (i - Len(w))
        BY <2>1, <2>2, <3>2
      <4>2. b[i] = v[i - Len(w)]
        BY <2>1, <4>1
      <4> QED
        BY <2>1, <4>1, <4>2 DEF Items
    <3> QED
      BY <2>1, <2>2, <3>1, <3>2
  <2>3. \A i \in DOMAIN w : i \in DOMAIN b /\ b[i] = w[i]
    BY <2>1
  <2>4. \A i \in DOMAIN v : Len(w) + i \in DOMAIN b /\ b[Len(w) + i] = v[i]
    BY <2>1
  <2>5. Items(b) \subseteq Items(w) \cup Items(v)
    BY <2>2 DEF Items
  <2>6. Items(w) \subseteq Items(b)
    BY <2>3 DEF Items
  <2>7. Items(v) \subseteq Items(b)
    <3>1. ASSUME NEW x \in Items(v) PROVE x \in Items(b)
      <4>1. PICK i \in DOMAIN v : x = v[i]
        BY <3>1 DEF Items
      <4>2. Len(w) + i \in DOMAIN b /\ b[Len(w) + i] = x
        BY <2>4, <4>1
      <4> QED
        BY <4>2 DEF Items
    <3> QED
      BY <3>1
  <2> QED
    BY <2>5, <2>6, <2>7 DEF b
<1>3. ASSUME NEW x \in S PROVE Items(<<x>>) = {x}
  <2> DEFINE v == <<x>>
  <2>1. DOMAIN v = {1} /\ v[1] = x
    OBVIOUS
  <2> HIDE DEF v
  <2> QED
    BY <2>1 DEF Items, v
<1>4. ASSUME NEW x \in S PROVE Items(Append(w, x)) = Items(w) \cup {x}
  <2> DEFINE v == <<x>>
  <2>1. v \in Seq(S) /\ Append(w, x) = w \o v
    OBVIOUS
  <2>2. Items(v) = {x}
    BY <1>3
  <2> HIDE DEF v
  <2> QED
    BY <1>2, <2>1, <2>2
<1> QED
  BY <1>1, <1>2, <1>3, <1>4

\* What is sifted out is what was found.
LEMMA SiftItems ==
  ASSUME NEW S, NEW s \in Seq(S), NEW f
  PROVE  Items(Sift(s, f)) = {f[s[i]] : i \in Found(s, f)}
<1> DEFINE I == Found(s, f)
           n == Cardinality(I)
           t == Sift(s, f)
<1>1. /\ n \in Nat /\ DOMAIN t = 1..n
      /\ \A i \in I : Rank(I, i) \in 1..n /\ t[Rank(I, i)] = f[s[i]]
      /\ \A k \in 1..n : \E i \in I : Rank(I, i) = k
  BY SiftRank
<1> HIDE DEF I, n, t
<1>2. \A k \in 1..n : \E i \in I : t[k] = f[s[i]]
  BY <1>1
<1>3. \A i \in I : \E k \in 1..n : t[k] = f[s[i]]
  BY <1>1
<1>4. Items(t) = {t[k] : k \in 1..n}
  BY <1>1 DEF Items
<1>5. {t[k] : k \in 1..n} = {f[s[i]] : i \in I}
  BY <1>2, <1>3
<1> QED
  BY <1>4, <1>5 DEF I, t

\* What is on the way is what is coming.
LEMMA WayItems ==
  ASSUME SysTypeOK, NEW u \in Users
  PROVE  /\ OnTheWay(u, Packet) \in Seq(ServerPackets)
         /\ Items(OnTheWay(u, Packet)) = Coming(u)
<1> DEFINE g == Addressed(u, Packet)
           a == Sift(toClient[u], Packet)
           b == Sift(sendQueue, g)
<1>1. \A p \in DOMAIN Packet : Packet[p] \in ServerPackets
  BY DEF Packet
<1>2. /\ OnTheWay(u, Packet) = a \o b /\ a \in Seq(ServerPackets) /\ b \in Seq(ServerPackets)
      /\ OnTheWay(u, Packet) \in Seq(ServerPackets)
  BY <1>1, WayType
<1>3. toClient[u] \in Seq(ServerPackets) /\ sendQueue \in Seq(Packages)
  BY Sequences
<1>4. Items(a) = Arrived(u)
  <2>1. \A i \in DOMAIN toClient[u] : toClient[u][i] \in ServerPackets
    BY <1>3
  <2>2. Found(toClient[u], Packet) = DOMAIN toClient[u]
        /\ \A i \in DOMAIN toClient[u] : Packet[toClient[u][i]] = toClient[u][i]
    BY <2>1 DEF Found, Packet
  <2>3. Items(a) = {Packet[toClient[u][i]] : i \in Found(toClient[u], Packet)}
    BY <1>3, SiftItems
  <2> QED
    BY <2>2, <2>3 DEF Arrived
<1>5. Items(b) = Pushed(u)
  <2>1. \A i \in DOMAIN sendQueue : sendQueue[i] \in [session : Users, packet : ServerPackets]
    <3>1. \A i \in DOMAIN sendQueue : sendQueue[i] \in Packages
      BY <1>3
    <3> QED
      BY <3>1 DEF Packages
  <2>2. \A i \in DOMAIN sendQueue :
          /\ sendQueue[i] \in DOMAIN g <=> sendQueue[i].session = u
          /\ sendQueue[i].session = u => g[sendQueue[i]] = sendQueue[i].packet
    <3>1. ASSUME NEW q \in [session : Users, packet : ServerPackets]
          PROVE  /\ q \in DOMAIN g <=> q.session = u
                 /\ q.session = u => g[q] = q.packet
      BY DEF Addressed, Packet
    <3> QED
      BY <2>1, <3>1
  <2> HIDE DEF g
  <2>3. Items(b) = {g[sendQueue[i]] : i \in Found(sendQueue, g)}
    BY <1>3, SiftItems
  <2>4. Found(sendQueue, g) = {k \in DOMAIN sendQueue : sendQueue[k].session = u}
    BY <2>2 DEF Found
  <2> QED
    BY <2>2, <2>3, <2>4 DEF Pushed
<1> HIDE DEF a, b
<1>6. Items(a \o b) = Items(a) \cup Items(b)
  BY <1>2, ItemsOf
<1> QED
  BY <1>2, <1>4, <1>5, <1>6 DEF Coming

\* Packets that are added at the end, none after one that turns the page.
LEMMA OrderedPush ==
  ASSUME NEW S, NEW way \in Seq(S), NEW more \in Seq(S), NEW u, NEW s, Ordered(u, s, way),
         \A j \in DOMAIN more : Suits(u, s, Items(way), more[j]),
         \A i, j \in DOMAIN more : i < j => ~Turning(u, more[i])
  PROVE  Ordered(u, s, way \o more)
<1> DEFINE b == way \o more
           n == Len(way)
<1>1. /\ n \in Nat /\ Len(more) \in Nat /\ DOMAIN b = 1..(n + Len(more))
      /\ DOMAIN way = 1..n /\ DOMAIN more = 1..Len(more)
      /\ \A i \in 1..n : b[i] = way[i]
      /\ \A i \in 1..Len(more) : b[n + i] = more[i]
  OBVIOUS
<1> HIDE DEF b, n
<1>2. ASSUME NEW j \in DOMAIN b, j <= n PROVE Suits(u, s, Before(b, j), b[j])
  <2>1. j \in DOMAIN way /\ b[j] = way[j] /\ \A i \in 1..(j - 1) : b[i] = way[i]
    BY <1>1, <1>2
  <2>2. Before(b, j) = Before(way, j)
    BY <2>1 DEF Before
  <2> QED
    BY <2>1, <2>2 DEF Ordered
<1>3. ASSUME NEW j \in DOMAIN b, j > n PROVE Suits(u, s, Before(b, j), b[j])
  <2>1. PICK k \in DOMAIN more : j = n + k
    <3>1. j - n \in 1..Len(more) /\ j = n + (j - n)
      BY <1>1, <1>3
    <3> QED
      BY <1>1, <3>1
  <2>2. b[j] = more[k] /\ Suits(u, s, Items(way), more[k])
    BY <1>1, <2>1
  <2>3. \A q \in Items(way) : q \in Before(b, j)
    <3>1. \A i \in DOMAIN way : i \in 1..(j - 1) /\ b[i] = way[i]
      BY <1>1, <1>3
    <3> QED
      BY <3>1 DEF Items, Before
  <2>4. ASSUME NEW q \in Before(b, j) PROVE q \in Items(way) \/ ~Turning(u, q)
    <3>1. PICK i \in 1..(j - 1) : q = b[i]
      BY <2>4 DEF Before
    <3>2. CASE i <= n
      BY <1>1, <3>1, <3>2 DEF Items
    <3>3. CASE i > n
      <4>1. i - n \in 1..Len(more) /\ i = n + (i - n) /\ i - n < k
        BY <1>1, <2>1, <3>1, <3>3
      <4>2. q = more[i - n] /\ ~Turning(u, more[i - n])
        BY <1>1, <3>1, <4>1
      <4> QED
        BY <4>2
    <3> QED
      BY <1>1, <3>1, <3>2, <3>3
  <2>5. \A q \in Before(b, j) : Opening(q) \/ Closing(u, q) => q \in Items(way)
    BY <2>4 DEF Turning
  <2> QED
    BY <2>2, <2>3, <2>5 DEF Suits
<1>4. \A j \in DOMAIN b : j <= n \/ j > n
  BY <1>1
<1> QED
  BY <1>2, <1>3, <1>4 DEF Ordered, b

\* The page changes as the first packet on the way is taken.
LEMMA OrderedTake ==
  ASSUME NEW S, NEW p \in S, NEW w \in Seq(S), NEW u, NEW s, NEW t,
         Ordered(u, s, <<p>> \o w),
         \/ t = s /\ ~Closing(u, p) /\ ~(s = "LOBBY" /\ Opening(p))
         \/ s # "LOBBY" /\ t = "LOBBY" /\ Closing(u, p) /\ \A q \in Items(w) : ~Turning(u, q)
         \/ s = "LOBBY" /\ t = "CHATROOM" /\ Opening(p) /\ \A q \in Items(w) : ~Closing(u, q)
  PROVE  Ordered(u, t, w) /\ Suits(u, s, {}, p)
<1> DEFINE b == <<p>> \o w
<1>1. /\ Len(w) \in Nat /\ DOMAIN w = 1..Len(w) /\ DOMAIN b = 1..(Len(w) + 1)
      /\ b[1] = p /\ \A i \in DOMAIN w : b[i + 1] = w[i]
  OBVIOUS
<1> HIDE DEF b
<1>2. Suits(u, s, {}, p)
  <2>1. Before(b, 1) = {} /\ 1 \in DOMAIN b
    BY <1>1 DEF Before
  <2> QED
    BY <1>1, <2>1 DEF Ordered, b
<1>3. ASSUME NEW j \in DOMAIN w PROVE Suits(u, t, Before(w, j), w[j])
  <2>1. j + 1 \in DOMAIN b /\ b[j + 1] = w[j]
    BY <1>1
  <2>2. Suits(u, s, Before(b, j + 1), w[j])
    BY <2>1 DEF Ordered, b
  <2>3. Before(b, j + 1) = {p} \cup Before(w, j)
    <3>1. \A i \in 1..(j - 1) : i + 1 \in 1..((j + 1) - 1) /\ b[i + 1] = w[i]
      BY <1>1
    <3>2. \A i \in 1..((j + 1) - 1) : i = 1 \/ (i - 1 \in 1..(j - 1) /\ b[i] = w[i - 1])
      <4>1. \A i \in 1..((j + 1) - 1) : i # 1 => i - 1 \in 1..(j - 1) /\ i - 1 \in DOMAIN w /\ i = (i - 1) + 1
        BY <1>1
      <4> QED
        BY <1>1, <4>1
    <3>3. 1 \in 1..((j + 1) - 1)
      BY <1>1
    <3> DEFINE B == Before(b, j + 1)
               C == Before(w, j)
    <3>4. C \subseteq B
      BY <3>1 DEF Before
    <3>5. p \in B
      BY <1>1, <3>3 DEF Before
    <3>6. B \subseteq {p} \cup C
      BY <1>1, <3>2 DEF Before
    <3> QED
      BY <3>4, <3>5, <3>6
  <2>4. Before(w, j) \subseteq Items(w)
    <3>1. \A i \in 1..(j - 1) : i \in DOMAIN w
      BY <1>1
    <3> QED
      BY <3>1 DEF Before, Items
  <2>5. Closing(u, p) => ~Opening(p)
    BY DEF Closing, Opening
  <2> QED
    BY <2>2, <2>3, <2>4, <2>5 DEF Suits, Turning
<1> QED
  BY <1>2, <1>3 DEF Ordered

\* The packets of u will find the pages they are for.
Fitted(u) == Connected(u) => Ordered(u, clientState[u], OnTheWay(u, Packet))

\* Concatenation is associative.
LEMMA Regrouped == \A R : \A x, y, z \in Seq(R) : x \o (y \o z) = (x \o y) \o z
BY ConcatAssociative

\* Packages of which each user has at most one packet, then packages that turn no page.
LEMMA OrderedPushes ==
  ASSUME SysTypeOK, NEW a \in Seq(Packages), NEW b \in Seq(Packages), sendQueue' = sendQueue \o (a \o b),
         UNCHANGED <<toClient, clientState>>, NEW u \in Users, Fitted(u), NEW T, NEW p \in ServerPackets,
         Sift(a, Addressed(u, Packet)) = Share(T, p, u, Packet),
         Connected(u) /\ u \in T => Suits(u, clientState[u], Coming(u), p),
         \A i \in DOMAIN b : Connected(u) /\ b[i].session = u =>
           /\ ~Turning(u, b[i].packet)
           /\ Suits(u, clientState[u], Coming(u) \cup {q \in {p} : u \in T}, b[i].packet)
  PROVE  Fitted(u)'
<1> DEFINE g == Addressed(u, Packet)
           s == clientState[u]
           way == OnTheWay(u, Packet)
           one == Share(T, p, u, Packet)
           more == Sift(b, g)
           both == a \o b
<1>1. Connected(u)' <=> Connected(u)
  BY DEF Connected
<1>2. way \in Seq(ServerPackets) /\ Items(way) = Coming(u)
  BY WayItems
<1>3. \A x \in DOMAIN g : g[x] \in ServerPackets
  BY DEF Addressed, Packet
<1>4. one \in Seq(ServerPackets) /\ Items(one) = {q \in {p} : u \in T}
      /\ \A j \in DOMAIN one : one[j] = p /\ u \in T /\ j = 1
  <2>1. p \in DOMAIN Packet /\ Packet[p] = p
    BY DEF Packet
  <2>2. CASE u \in T
    <3> DEFINE t == <<p>>
    <3>1. one = t
      BY <2>1, <2>2 DEF Share
    <3>2. t \in Seq(ServerPackets) /\ DOMAIN t = {1} /\ t[1] = p
      OBVIOUS
    <3> HIDE DEF t, one
    <3> QED
      BY <2>2, <3>1, <3>2 DEF Items
  <2>3. CASE u \notin T
    <3> DEFINE t == << >>
    <3>1. one = t
      BY <2>3 DEF Share
    <3>2. t \in Seq(ServerPackets) /\ DOMAIN t = {}
      OBVIOUS
    <3> HIDE DEF t, one
    <3> QED
      BY <2>3, <3>1, <3>2 DEF Items
  <2> QED
    BY <2>2, <2>3
<1>5. more \in Seq(ServerPackets)
  <2> HIDE DEF g
  <2> QED
    BY <1>3, SiftType
<1>6. \A j \in DOMAIN more : \E i \in DOMAIN b : b[i].session = u /\ b[i].packet = more[j]
  <2>1. ASSUME NEW i \in Found(b, g) PROVE i \in DOMAIN b /\ b[i].session = u /\ b[i].packet = g[b[i]]
    <3>1. i \in DOMAIN b /\ b[i] \in [session : {u}, packet : DOMAIN Packet]
      BY DEF Found, Addressed
    <3>2. b[i].session = u /\ b[i].packet \in ServerPackets
      BY <3>1 DEF Packet
    <3>3. g[b[i]] = b[i].packet
      BY <3>1, <3>2 DEF Addressed, Packet
    <3> QED
      BY <3>1, <3>2, <3>3
  <2> HIDE DEF g
  <2>2. Items(more) = {g[b[i]] : i \in Found(b, g)}
    BY SiftItems
  <2>3. \A j \in DOMAIN more : more[j] \in Items(more)
    BY DEF Items
  <2> HIDE DEF more
  <2> QED
    BY <2>1, <2>2, <2>3
<1>7. both \in Seq(Packages) /\ sendQueue' = sendQueue \o both
  BY ConcatProperties
<1>8. Sift(both, g) = one \o more
  <2> HIDE DEF g, one
  <2>1. Sift(a, g) = one
    BY DEF g, one
  <2>2. Sift(a \o b, g) = Sift(a, g) \o Sift(b, g)
    BY SiftConcat
  <2> QED
    BY <2>1, <2>2 DEF both, more
<1> HIDE DEF both, one, more, g, way, s
<1>9. OnTheWay(u, Packet)' = way \o (one \o more)
  <2>1. UNCHANGED toClient
    OBVIOUS
  <2>2. OnTheWay(u, Packet)' = OnTheWay(u, Packet) \o Sift(both, Addressed(u, Packet))
    BY <1>7, <2>1, WayPush
  <2> QED
    BY <1>8, <2>2 DEF g, way
<1>10. way \o (one \o more) = (way \o one) \o more
  <2>1. \A x, y, z \in Seq(ServerPackets) : x \o (y \o z) = (x \o y) \o z
    BY Regrouped
  <2> QED
    BY <1>2, <1>4, <1>5, <2>1
<1>11. ASSUME Connected(u) PROVE Ordered(u, s, (way \o one) \o more)
  <2>1. Ordered(u, s, way)
    BY <1>11 DEF Fitted, s, way
  <2> DEFINE first == way \o one
  <2>2. \A j \in DOMAIN one : Suits(u, s, Items(way), one[j])
    BY <1>2, <1>4, <1>11 DEF s
  <2>3. \A i, j \in DOMAIN one : ~(i < j)
    BY <1>4
  <2>4. Ordered(u, s, first)
    BY <1>2, <1>4, <2>1, <2>2, <2>3, OrderedPush
  <2>5. first \in Seq(ServerPackets) /\ Items(first) = Coming(u) \cup {q \in {p} : u \in T}
    BY <1>2, <1>4, ItemsOf, ConcatProperties
  <2> HIDE DEF first
  <2>6. \A j \in DOMAIN more : ~Turning(u, more[j]) /\ Suits(u, s, Items(first), more[j])
    BY <1>6, <1>11, <2>5 DEF s
  <2>7. Ordered(u, s, first \o more)
    BY <1>5, <2>4, <2>5, <2>6, OrderedPush
  <2> QED
    BY <2>7 DEF first
<1> QED
  BY <1>1, <1>9, <1>10, <1>11 DEF Fitted, s

\* A room is told.
LEMMA OrderedTold ==
  ASSUME SysTypeOK, NEW r \in RoomIds, NEW S \in SUBSET Users, NEW p \in ServerPackets,
         NEW rest \in Seq(Packages), Tells(r, S, p, rest),
         UNCHANGED <<toClient, clientState>>, NEW u \in Users, Fitted(u),
         Connected(u) /\ u \in S => Suits(u, clientState[u], Coming(u), p),
         \A i \in DOMAIN rest : Connected(u) /\ rest[i].session = u =>
           /\ ~Turning(u, rest[i].packet)
           /\ Suits(u, clientState[u], Coming(u) \cup {q \in {p} : u \in S}, rest[i].packet)
  PROVE  Fitted(u)'
<1> DEFINE seats == {r} \X S
<1>1. PICK o \in Orders(seats) : sendQueue' = sendQueue \o (Cast(o, p) \o rest)
  BY DEF Tells
<1>2. seats \in SUBSET ({r} \X Users) /\ seats \in SUBSET (RoomIds \X Users) /\ (<<r, u>> \in seats <=> u \in S)
  OBVIOUS
<1> HIDE DEF seats
<1>3. Cast(o, p) \in Seq(Packages)
  BY <1>2, CastFacts
<1>4. Sift(Cast(o, p), Addressed(u, Packet)) = Share(S, p, u, Packet)
  BY <1>2, WayCast DEF Share
<1> DEFINE a == Cast(o, p)
<1>5. a \in Seq(Packages) /\ sendQueue' = sendQueue \o (a \o rest)
      /\ Sift(a, Addressed(u, Packet)) = Share(S, p, u, Packet)
  BY <1>1, <1>3, <1>4
<1> HIDE DEF a
<1> QED
  BY <1>5, OrderedPushes

\* Packages that turn no page.
LEMMA OrderedQuiet ==
  ASSUME SysTypeOK, NEW b \in Seq(Packages), sendQueue' = sendQueue \o b,
         UNCHANGED <<toClient, clientState>>, NEW u \in Users, Fitted(u),
         \A i \in DOMAIN b : Connected(u) /\ b[i].session = u =>
           ~Turning(u, b[i].packet) /\ Suits(u, clientState[u], Coming(u), b[i].packet)
  PROVE  Fitted(u)'
<1> DEFINE p == [type |-> "S_UNICAST_NO"]
           a == << >>
<1>1. p \in ServerPackets
  BY DEF ServerPackets
<1>2. a \in Seq(Packages) /\ a \o b = b /\ DOMAIN a = {}
  BY ConcatEmptySeq
<1> HIDE DEF a, p
<1>3. Sift(a, Addressed(u, Packet)) = << >>
  <2>1. Found(a, Addressed(u, Packet)) = {}
    BY <1>2 DEF Found
  <2> QED
    BY <1>2, <2>1, SiftNone
<1>4. Sift(a, Addressed(u, Packet)) = Share({}, p, u, Packet)
  BY <1>3 DEF Share
<1>5. sendQueue' = sendQueue \o (a \o b)
  BY <1>2
<1> DEFINE S == {}
<1>6. Coming(u) \cup {q \in {p} : u \in S} = Coming(u) /\ u \notin S
  OBVIOUS
<1>7. Sift(a, Addressed(u, Packet)) = Share(S, p, u, Packet)
  BY <1>4
<1> HIDE DEF S
<1>8. \A i \in DOMAIN b : Connected(u) /\ b[i].session = u =>
        ~Turning(u, b[i].packet) /\ Suits(u, clientState[u], Coming(u) \cup {q \in {p} : u \in S}, b[i].packet)
  BY <1>6
<1> QED
  BY <1>1, <1>2, <1>5, <1>6, <1>7, <1>8, OrderedPushes

\* Nobody whispers, and the packets on the way find the pages they are for.
NoWhispers == \A u \in Users : \A p \in Going(u) : p.type # "C_UNICAST"
Orderly == NoWhispers /\ \A u \in Users : Fitted(u)

\* A user in a room is on the room's page once it has seen what is coming.
LEMMA RoomSuits ==
  ASSUME ~Coalescing, Inv, NEW u \in userList, ~IsInLobby(u), Connected(u), NEW p, p.type # "S_LOBBY_ROOM_INFO"
  PROVE  Suits(u, clientState[u], Coming(u), p)
<1>1. u \in Users /\ UserInv(u)
  BY UserFacts DEF Inv, SysTypeOK, TypeOK
<1>2. CASE Fits(u)
  <2>1. clientState[u] = "CHATROOM" /\ \A q \in Coming(u) : ~Closing(u, q)
    BY <1>1, <1>2 DEF UserInv, Page, Fits
  <2> QED
    BY <2>1 DEF Suits
<1>3. CASE ~Fits(u)
  <2>1. clientState[u] = "LOBBY" /\ \E q \in Coming(u) : Opening(q)
    BY <1>1, <1>3 DEF UserInv, Page, Answered, Fits
  <2> QED
    BY <2>1 DEF Suits
<1> QED
  BY <1>2, <1>3

\* Members are users of the list that sit in the room.
LEMMA MemberSuits ==
  ASSUME ~Coalescing, Inv, NEW r \in RoomIds, NEW u \in users[r], Connected(u), NEW p, p.type # "S_LOBBY_ROOM_INFO"
  PROVE  Suits(u, clientState[u], Coming(u), p)
<1>1. u \in userList /\ currRoom[u] = r
  BY DEF Inv, Rest, MembershipExact
<1>2. ~IsInLobby(u)
  BY <1>1, MaxRoomIdAssumption DEF IsInLobby, RoomIds, NoRoom
<1> QED
  BY <1>1, <1>2, RoomSuits

\* A list goes to a client on the lobby's page that will stay there.
LEMMA ListFits ==
  ASSUME Inv, Screens, Orderly, UNCHANGED <<clientVars, toClient>>,
         jobQueue # <<>>, jobQueue' = Tail(jobQueue), UNCHANGED toServer,
         packet.type \in {"C_LOBBY_ROOM_INFO", "C_ROOM_CREATE"},
         NEW rooms \in SUBSET RoomIds, sendQueue' = Append(sendQueue, RoomListPackage(sender, rooms)),
         NEW u \in Users
  PROVE  Fitted(u)'
<1>1. TypeOK /\ SysTypeOK /\ sender \in Users /\ packet \in Going(sender)
  BY SenderFacts DEF Inv, SysTypeOK
<1> DEFINE list == RoomListPackage(sender, rooms)
           b == <<list>>
<1>2. list \in Packages /\ list.session = sender /\ list.packet.type = "S_LOBBY_ROOM_INFO"
  BY <1>1 DEF RoomListPackage, Package, Packages, ServerPackets
<1>3. sendQueue' = Append(sendQueue, list)
  OBVIOUS
<1> HIDE DEF list
<1>4. b \in Seq(Packages) /\ (\A i \in DOMAIN b : b[i] = list) /\ sendQueue' = sendQueue \o b
  BY <1>1, <1>2, <1>3, AppendIsConcat DEF TypeOK
<1> HIDE DEF b
<1>5. ASSUME Connected(u), u = sender PROVE clientState[u] = "LOBBY" /\ \A q \in Coming(u) : ~Opening(q)
  <2>1. Screen(u) /\ Going(u) # {}
    BY <1>1, <1>5 DEF Screens
  <2>2. u \in userList
    BY <1>5, <2>1 DEF Screen, Departed
  <2>3. Page(u) /\ packet.type \in Kinds[clientState[u]]
    BY <1>1, <1>5, <2>2, SenderFacts DEF Page
  <2>4. clientState[u] = "LOBBY"
    <3>1. clientState[u] \in {"LOGIN", "PENDING", "LOBBY", "CHATROOM"}
      BY <1>1, <1>5 DEF SysTypeOK, ClientStates, Connected
    <3>2. packet.type = "C_LOBBY_ROOM_INFO" \/ packet.type = "C_ROOM_CREATE"
      OBVIOUS
    <3> QED
      BY <2>3, <3>1, <3>2 DEF Kinds
  <2>5. Fits(u)
    BY <1>5, <2>1, <2>3 DEF Page
  <2>6. IsInLobby(u)
    BY <2>4, <2>5 DEF Fits
  <2> QED
    BY <1>5, <2>3, <2>4, <2>6 DEF Page
<1>6. \A i \in DOMAIN b : Connected(u) /\ b[i].session = u =>
        ~Turning(u, b[i].packet) /\ Suits(u, clientState[u], Coming(u), b[i].packet)
  BY <1>2, <1>4, <1>5 DEF Turning, Opening, Closing, Suits, InRoom
<1>7. UNCHANGED <<toClient, clientState>> /\ Fitted(u)
  BY DEF clientVars, Orderly
<1> QED
  BY <1>1, <1>4, <1>6, <1>7, OrderedQuiet

\* Who enters the server waits for the lobby's page, and the list comes after it.
LEMMA EnterServerFits ==
  ASSUME Inv, Orderly, UNCHANGED <<clientVars, toClient, toServer>>, C_SERVER_ENTER, NEW u \in Users
  PROVE  Fitted(u)'
<1>1. jobQueue # <<>> /\ jobQueue' = Tail(jobQueue) /\ packet.type = "C_SERVER_ENTER" /\ sender \in userList
  BY DEF C_SERVER_ENTER, Dispatch
<1>2. TypeOK /\ SysTypeOK /\ sender \in Users /\ packet \in Going(sender) /\ Page(sender)
  BY <1>1, SenderFacts DEF Inv, SysTypeOK
<1> DEFINE welcome == [type |-> "S_SERVER_ENTER_OK", pid |-> sender]
           ok == Package(sender, welcome)
           list == RoomListPackage(sender, roomList)
           a == <<ok>>
           b == <<list>>
<1>3. /\ welcome \in ServerPackets /\ welcome.type = "S_SERVER_ENTER_OK"
      /\ ok \in Packages /\ ok.session = sender /\ ok.packet = welcome
      /\ list \in Packages /\ list.session = sender /\ list.packet.type = "S_LOBBY_ROOM_INFO"
  BY <1>2 DEF RoomListPackage, Package, Packages, ServerPackets, TypeOK
<1>4. sendQueue' = sendQueue \o <<ok, list>>
  BY DEF C_SERVER_ENTER
<1> HIDE DEF welcome, ok, list
<1>5. /\ a \in Seq(Packages) /\ b \in Seq(Packages) /\ a \o b = <<ok, list>>
      /\ \A i \in DOMAIN b : b[i] = list
  <2>1. a \in Seq(Packages) /\ b \in Seq(Packages)
    BY <1>3
  <2>2. a \o b = <<ok, list>>
    <3> DEFINE both == <<ok, list>>
               ab == a \o b
    <3>1. both \in Seq(Packages) /\ Len(both) = 2 /\ both[1] = ok /\ both[2] = list
      BY <1>3
    <3>2. ab \in Seq(Packages) /\ Len(ab) = 2 /\ ab[1] = ok /\ ab[2] = list
      <4>1. Len(a) = 1 /\ Len(b) = 1 /\ a[1] = ok /\ b[1] = list
        OBVIOUS
      <4> HIDE DEF a, b
      <4> QED
        BY <2>1, <4>1, ConcatProperties
    <3> HIDE DEF both, ab
    <3>3. \A i \in 1..Len(ab) : ab[i] = both[i]
      BY <3>1, <3>2
    <3>4. ab = both
      BY <3>1, <3>2, <3>3, SeqEqual
    <3> QED
      BY <3>4 DEF both, ab
  <2>3. \A i \in DOMAIN b : b[i] = list
    OBVIOUS
  <2> QED
    BY <2>1, <2>2, <2>3
<1>6. Sift(a, Addressed(u, Packet)) = Share({sender}, welcome, u, Packet)
  <2>1. ok \in DOMAIN Addressed(u, Packet) <=> u = sender
    <3>1. ok = [session |-> sender, packet |-> welcome]
      BY DEF ok, Package
    <3> QED
      BY <1>3, <3>1 DEF Addressed, Packet
  <2>2. u = sender => Addressed(u, Packet)[ok] = welcome
    BY <1>3, <2>1 DEF Addressed, Packet
  <2>3. welcome \in DOMAIN Packet /\ Packet[welcome] = welcome
    BY <1>3 DEF Packet
  <2> DEFINE g == Addressed(u, Packet)
  <2>4. (ok \in DOMAIN g <=> u = sender) /\ (u = sender => g[ok] = welcome)
    BY <2>1, <2>2
  <2> HIDE DEF g
  <2>5. /\ ok \in DOMAIN g => Sift(a, g) = <<g[ok]>>
        /\ ok \notin DOMAIN g => Sift(a, g) = <<>>
    BY SiftSingle
  <2> QED
    BY <2>3, <2>4, <2>5 DEF Share, g
<1> HIDE DEF a, b
<1>7. sendQueue' = sendQueue \o (a \o b)
  BY <1>4, <1>5
<1>8. u \in {sender} => Suits(u, clientState[u], Coming(u), welcome)
  BY <1>3 DEF Suits, InRoom
<1>9. Connected(u) /\ u = sender => clientState[u] = "PENDING"
  <2>1. Connected(sender) => "C_SERVER_ENTER" \in Kinds[clientState[sender]]
    BY <1>1, <1>2 DEF Page
  <2> QED
    BY <1>2, <2>1, PageOf
<1>10. ASSUME NEW i \in DOMAIN b, Connected(u), b[i].session = u
       PROVE  /\ ~Turning(u, b[i].packet)
              /\ Suits(u, clientState[u], Coming(u) \cup {q \in {welcome} : u \in {sender}}, b[i].packet)
  <2>1. u = sender /\ b[i].packet.type = "S_LOBBY_ROOM_INFO"
    BY <1>3, <1>5, <1>10
  <2>2. Closing(u, welcome) /\ welcome \in Coming(u) \cup {q \in {welcome} : u \in {sender}}
    BY <1>3, <2>1 DEF Closing
  <2>3. clientState[u] # "LOBBY"
    BY <1>9, <1>10, <2>1
  <2> QED
    BY <2>1, <2>2, <2>3 DEF Suits, InRoom, Turning, Opening, Closing
<1>11. UNCHANGED <<toClient, clientState>> /\ Fitted(u)
  BY DEF clientVars, Orderly
<1> DEFINE S == {sender}
<1>12. /\ Sift(a, Addressed(u, Packet)) = Share(S, welcome, u, Packet)
       /\ Connected(u) /\ u \in S => Suits(u, clientState[u], Coming(u), welcome)
       /\ \A i \in DOMAIN b : Connected(u) /\ b[i].session = u =>
            /\ ~Turning(u, b[i].packet)
            /\ Suits(u, clientState[u], Coming(u) \cup {q \in {welcome} : u \in S}, b[i].packet)
  BY <1>6, <1>8, <1>10
<1> HIDE DEF S
<1> QED
  BY <1>2, <1>3, <1>5, <1>7, <1>11, <1>12, OrderedPushes

\* A member that leaves a room tells the others, and what they get is for the room's page.
LEMMA NoticeFits ==
  ASSUME ~Coalescing, Inv, Orderly, UNCHANGED <<clientVars, toClient>>, NEW u \in Users, ~IsInLobby(u),
         NEW exclusive \in BOOLEAN, ExitRoom(u, exclusive), NEW v \in Users
  PROVE  Fitted(v)'
<1> DEFINE r == currRoom[u]
           S == IF exclusive THEN users[r] \ {u} ELSE users[r]
           notice == [type |-> "S_ROOM_EXIT", uid |-> u]
           none == << >>
<1>1. TypeOK /\ SysTypeOK /\ UNCHANGED <<toClient, clientState>> /\ Fitted(v)
  BY DEF Inv, SysTypeOK, clientVars, Orderly
<1>2. /\ r \in RoomIds /\ users[r] \in SUBSET Users /\ notice \in ServerPackets
      /\ Tells(r, S, notice, none)
  BY <1>1, ExitTells
<1>3. S \subseteq users[r] /\ notice.type = "S_ROOM_EXIT" /\ none \in Seq(Packages) /\ DOMAIN none = {}
  OBVIOUS
<1> HIDE DEF S, notice, none
<1>4. Connected(v) /\ v \in S => Suits(v, clientState[v], Coming(v), notice)
  <2>1. notice.type # "S_LOBBY_ROOM_INFO"
    BY <1>3
  <2> QED
    BY <1>2, <1>3, <2>1, MemberSuits
<1>5. S \in SUBSET Users
  BY <1>2, <1>3
<1> HIDE DEF r
<1> QED
  BY <1>1, <1>2, <1>3, <1>4, <1>5, OrderedTold

\* The server lets a user go.
LEMMA RemovalFits ==
  ASSUME ~Coalescing, Inv, Orderly, UNCHANGED <<clientVars, toClient>>, NEW u \in Users, RemoveUser(u),
         NEW v \in Users
  PROVE  Fitted(v)'
<1>1. CASE IsInLobby(u)
  <2>1. UNCHANGED <<sendQueue, toClient, clientState>>
    BY <1>1 DEF RemoveUser, clientVars
  <2>2. OnTheWay(v, Packet)' = OnTheWay(v, Packet) /\ (Connected(v)' <=> Connected(v))
    BY <2>1 DEF OnTheWay, Connected
  <2> QED
    BY <2>1, <2>2 DEF Orderly, Fitted
<1>2. CASE ~IsInLobby(u)
  <2>1. ExitRoom(u, TRUE) /\ TRUE \in BOOLEAN
    BY <1>2 DEF RemoveUser
  <2> QED
    BY <1>2, <2>1, NoticeFits
<1> QED
  BY <1>1, <1>2

\* Who enters a room gets the room's page, then the room's name.
LEMMA EnterRoomFits ==
  ASSUME ~Coalescing, Inv, Orderly, UNCHANGED <<clientVars, toClient, toServer>>, C_ROOM_ENTER, NEW v \in Users
  PROVE  Fitted(v)'
<1>1. /\ jobQueue # <<>> /\ jobQueue' = Tail(jobQueue) /\ packet.type = "C_ROOM_ENTER" /\ sender \in userList
      /\ packet.rid \in roomList /\ EnterRoom(sender, packet.rid)
  BY DEF C_ROOM_ENTER, Dispatch
<1>2. TypeOK /\ SysTypeOK /\ sender \in Users /\ packet \in Going(sender) /\ Page(sender)
  BY <1>1, SenderFacts DEF Inv, SysTypeOK
<1>3. PICK u \in Users, r \in RoomIds : u = sender /\ r = packet.rid
  BY <1>1, <1>2 DEF TypeOK
<1> DEFINE S == users[r] \cup {u}
           enter == [type |-> "S_ROOM_ENTER", uid |-> u, name |-> nickname[u]]
           title == [type |-> "S_ROOM_NAME", rid |-> r]
           named == Package(u, title)
           rest == <<named>>
<1>4. S \in SUBSET Users /\ enter \in ServerPackets /\ named \in Packages /\ Tells(r, S, enter, rest)
  BY <1>1, <1>2, <1>3, EnterTells
<1>5. /\ enter.type = "S_ROOM_ENTER" /\ title.type = "S_ROOM_NAME"
      /\ named.session = u /\ named.packet = title /\ u \in S
  BY DEF Package
<1> HIDE DEF S, enter, title, named
<1>6. rest \in Seq(Packages) /\ \A i \in DOMAIN rest : rest[i] = named
  BY <1>4
<1> HIDE DEF rest
<1>7. Suits(v, clientState[v], Coming(v), enter)
  BY <1>5 DEF Suits, InRoom
<1>8. Connected(u) => clientState[u] = "LOBBY"
  <2>1. Connected(u) => "C_ROOM_ENTER" \in Kinds[clientState[u]]
    BY <1>1, <1>2, <1>3 DEF Page
  <2> QED
    BY <1>2, <2>1, PageOf
<1>9. ASSUME NEW i \in DOMAIN rest, Connected(v), rest[i].session = v
      PROVE  /\ ~Turning(v, rest[i].packet)
             /\ Suits(v, clientState[v], Coming(v) \cup {q \in {enter} : v \in S}, rest[i].packet)
  <2>1. v = u /\ rest[i].packet = title
    BY <1>5, <1>6, <1>9
  <2>2. Opening(enter) /\ enter \in Coming(v) \cup {q \in {enter} : v \in S}
    BY <1>5, <2>1 DEF Opening
  <2>3. clientState[v] = "LOBBY"
    BY <1>8, <1>9, <2>1
  <2> QED
    BY <1>5, <2>1, <2>2, <2>3 DEF Suits, Turning, Opening, Closing
<1>10. UNCHANGED <<toClient, clientState>> /\ Fitted(v)
  BY DEF clientVars, Orderly
<1> QED
  BY <1>2, <1>4, <1>6, <1>7, <1>9, <1>10, OrderedTold

\* A line of chat for one room.
LEMMA MulticastFits ==
  ASSUME ~Coalescing, Inv, Orderly, UNCHANGED <<clientVars, toClient, toServer>>, C_MULTICAST, NEW v \in Users
  PROVE  Fitted(v)'
<1>1. /\ jobQueue # <<>> /\ jobQueue' = Tail(jobQueue)
      /\ ~IsInLobby(sender) /\ CastToRooms({currRoom[sender]}, "S_MULTICAST")
  BY DEF C_MULTICAST, Dispatch
<1>2. TypeOK /\ SysTypeOK /\ sender \in Users
  BY <1>1, SenderFacts DEF Inv, SysTypeOK
<1> DEFINE r == currRoom[sender]
           S == users[r]
           chat == [type |-> "S_MULTICAST", nickname |-> nickname[sender]]
           none == << >>
<1>3. r \in RoomIds
  BY <1>1, <1>2 DEF TypeOK, IsInLobby
<1>4. S \in SUBSET Users /\ chat \in ServerPackets /\ Tells(r, S, chat, none)
  BY <1>1, <1>2, <1>3, ChatTells
<1>5. chat.type # "S_LOBBY_ROOM_INFO" /\ none \in Seq(Packages) /\ DOMAIN none = {}
  OBVIOUS
<1> HIDE DEF chat, none
<1>6. Connected(v) /\ v \in S => Suits(v, clientState[v], Coming(v), chat)
  BY <1>3, <1>5, MemberSuits
<1>7. UNCHANGED <<toClient, clientState>> /\ Fitted(v)
  BY DEF clientVars, Orderly
<1> HIDE DEF S, r
<1> QED
  BY <1>2, <1>3, <1>4, <1>5, <1>6, <1>7, OrderedTold

\* A line of chat for all rooms.
LEMMA BroadcastFits ==
  ASSUME ~Coalescing, Inv, Orderly, UNCHANGED <<clientVars, toClient, toServer>>, C_BROADCAST, NEW v \in Users
  PROVE  Fitted(v)'
<1>1. jobQueue # <<>> /\ jobQueue' = Tail(jobQueue) /\ CastToRooms(roomList, "S_BROADCAST")
  BY DEF C_BROADCAST, Dispatch
<1>2. TypeOK /\ SysTypeOK /\ sender \in Users /\ roomList \in SUBSET RoomIds
  BY <1>1, SenderFacts DEF Inv, SysTypeOK, TypeOK
<1> DEFINE chat == [type |-> "S_BROADCAST", nickname |-> nickname[sender]]
           seats == Seats(roomList)
<1>3. PICK o \in Orders(seats) : sendQueue' = sendQueue \o Cast(o, chat)
  BY <1>1 DEF CastToRooms
<1>4. chat \in ServerPackets /\ chat.type = "S_BROADCAST" /\ seats \in SUBSET (RoomIds \X Users)
  BY <1>2 DEF ServerPackets, TypeOK, Seats
<1>5. \A s \in seats : s[1] \in RoomIds /\ s[2] \in users[s[1]]
  BY <1>2 DEF Seats
<1> DEFINE pushed == Cast(o, chat)
<1> HIDE DEF chat, seats
<1>6. pushed \in Seq(Packages) /\ \A i \in DOMAIN pushed : pushed[i].packet = chat /\ \E s \in seats : pushed[i].session = s[2]
  BY <1>4, CastFacts
<1>7. sendQueue' = sendQueue \o pushed
  BY <1>3
<1> HIDE DEF pushed
<1>8. ASSUME NEW i \in DOMAIN pushed, Connected(v), pushed[i].session = v
      PROVE  ~Turning(v, pushed[i].packet) /\ Suits(v, clientState[v], Coming(v), pushed[i].packet)
  <2>1. pushed[i].packet = chat
    BY <1>6
  <2>2. PICK r \in RoomIds : v \in users[r]
    BY <1>5, <1>6, <1>8
  <2>3. Suits(v, clientState[v], Coming(v), chat)
    BY <1>4, <1>8, <2>2, MemberSuits
  <2> QED
    BY <1>4, <2>1, <2>3 DEF Turning, Opening, Closing
<1>9. UNCHANGED <<toClient, clientState>> /\ Fitted(v)
  BY DEF clientVars, Orderly
<1> QED
  BY <1>2, <1>6, <1>7, <1>8, <1>9, OrderedQuiet

\* Each handler.
LEMMA LogicFits ==
  ASSUME ~Coalescing, Inv, Screens, Orderly, SysLogicStep, NEW v \in Users
  PROVE  Fitted(v)'
<1>1. LogicStep /\ UNCHANGED <<clientVars, toServer, toClient>> /\ TypeOK /\ SysTypeOK
  BY DEF SysLogicStep, Inv, SysTypeOK
<1>2. CASE C_LOBBY_ROOM_INFO
  <2>1. /\ jobQueue # <<>> /\ jobQueue' = Tail(jobQueue) /\ packet.type = "C_LOBBY_ROOM_INFO"
        /\ sendQueue' = Append(sendQueue, RoomListPackage(sender, roomList)) /\ roomList \in SUBSET RoomIds
    BY <1>1, <1>2 DEF C_LOBBY_ROOM_INFO, TypeOK
  <2> QED
    BY <1>1, <2>1, ListFits
<1>3. CASE C_ROOM_CREATE
  <2>1. /\ jobQueue # <<>> /\ jobQueue' = Tail(jobQueue) /\ packet.type = "C_ROOM_CREATE"
        /\ sendQueue' = Append(sendQueue, RoomListPackage(sender, roomList')) /\ roomList' \in SUBSET RoomIds
    BY <1>1, <1>3 DEF C_ROOM_CREATE, Dispatch, TypeOK
  <2>2. PICK rooms \in SUBSET RoomIds : rooms = roomList'
    BY <2>1
  <2>3. sendQueue' = Append(sendQueue, RoomListPackage(sender, rooms))
    BY <2>1, <2>2
  <2>4. packet.type \in {"C_LOBBY_ROOM_INFO", "C_ROOM_CREATE"} /\ UNCHANGED <<clientVars, toClient>> /\ UNCHANGED toServer
    BY <1>1, <2>1
  <2> QED
    BY <2>1, <2>3, <2>4, ListFits
<1>4. CASE C_ROOM_EXIT
  <2>1. /\ jobQueue # <<>> /\ jobQueue' = Tail(jobQueue)
        /\ ~IsInLobby(sender) /\ ExitRoom(sender, FALSE)
    BY <1>4 DEF C_ROOM_EXIT, Dispatch
  <2>2. PICK u \in Users : u = sender
    BY <1>1, <2>1, SenderFacts
  <2>3. FALSE \in BOOLEAN /\ ~IsInLobby(u) /\ ExitRoom(u, FALSE)
    BY <2>1, <2>2
  <2> QED
    BY <1>1, <2>3, NoticeFits
<1>5. CASE C_SERVER_EXIT
  <2>1. jobQueue # <<>> /\ jobQueue' = Tail(jobQueue) /\ RemoveUser(sender)
    BY <1>5 DEF C_SERVER_EXIT, Dispatch
  <2>2. PICK u \in Users : u = sender
    BY <1>1, <2>1, SenderFacts
  <2>3. RemoveUser(u)
    BY <2>1, <2>2
  <2> QED
    BY <1>1, <2>3, RemovalFits
<1>6. CASE C_UNICAST
  <2>1. jobQueue # <<>> /\ jobQueue' = Tail(jobQueue) /\ packet.type = "C_UNICAST"
    BY <1>6 DEF C_UNICAST, Dispatch
  <2>2. sender \in Users /\ packet \in Going(sender)
    BY <1>1, <2>1, SenderFacts
  <2> QED
    BY <2>1, <2>2 DEF Orderly, NoWhispers
<1>7. CASE StaleJob \/ NullRoom \/ StaleMember
  <2>1. UNCHANGED <<sendQueue, toClient, clientState>>
    BY <1>1, <1>7 DEF StaleJob, NullRoom, StaleMember, Fault, clientVars
  <2>2. OnTheWay(v, Packet)' = OnTheWay(v, Packet) /\ (Connected(v)' <=> Connected(v))
    BY <2>1 DEF OnTheWay, Connected
  <2> QED
    BY <2>1, <2>2 DEF Orderly, Fitted
<1> QED
  BY <1>1, <1>2, <1>3, <1>4, <1>5, <1>6, <1>7, EnterServerFits, EnterRoomFits, MulticastFits, BroadcastFits DEF LogicStep

\* The same after a step.
LEMMA WayItemsThen == (SysTypeOK => \A u \in Users : Items(OnTheWay(u, Packet)) = Coming(u))'
<1>1. SysTypeOK => \A u \in Users : Items(OnTheWay(u, Packet)) = Coming(u)
  BY WayItems
<1> QED
  BY <1>1, PTL

\* The client takes the first packet on the way: it suits the page it finds.
LEMMA TakeFits ==
  ASSUME ~Coalescing, Inv, SysTypeOK', Orderly, NEW u \in Users, NEW t \in ClientStates, Receive(u, t),
         \/ t = clientState[u] /\ ~Closing(u, Received(u)) /\ ~(t = "LOBBY" /\ Opening(Received(u)))
         \/ clientState[u] # "LOBBY" /\ t = "LOBBY" /\ Closing(u, Received(u)) /\ ClosingLast(u)
         \/ clientState[u] = "LOBBY" /\ t = "CHATROOM" /\ Opening(Received(u)) /\ \A q \in Coming(u) : ~Closing(u, q)
  PROVE  \A v \in Users : Fitted(v)'
<1> DEFINE p == Received(u)
           s == clientState[u]
           way == OnTheWay(u, Packet)
           rest == OnTheWay(u, Packet)'
<1>1. /\ SysTypeOK /\ Connected(u) /\ clientState'[u] = t /\ p \in ServerPackets /\ UNCHANGED sendQueue
      /\ \A v \in Users : v # u => clientState'[v] = clientState[v] /\ toClient'[v] = toClient[v]
      /\ Coming(u)' \subseteq Coming(u)
      /\ ClosingLast(u) /\ Closing(u, p) => \A q \in Coming(u)' : ~Turning(u, q)
  BY ReceiveFacts DEF Inv, vars
<1>2. toClient[u] # <<>> /\ toClient' = [toClient EXCEPT ![u] = SubSeq(@, 2, Len(@))]
  <2>1. PICK k \in 1..1 : toClient' = [toClient EXCEPT ![u] = SubSeq(@, k + 1, Len(@))]
    BY DEF Receive
  <2>2. k + 1 = 2
    OBVIOUS
  <2> QED
    BY <2>1, <2>2 DEF Receive
<1>3. ASSUME NEW v \in Users, v # u PROVE Fitted(v)'
  <2>1. OnTheWay(v, Packet)' = OnTheWay(v, Packet) /\ (Connected(v)' <=> Connected(v))
    BY <1>1, <1>3 DEF OnTheWay, Connected
  <2> QED
    BY <1>1, <1>3, <2>1 DEF Orderly, Fitted
<1>4. way = Sift(<<p>>, Packet) \o rest
  BY <1>1, <1>2, WayReceive
<1>5. Sift(<<p>>, Packet) = <<p>>
  <2>1. p \in DOMAIN Packet /\ Packet[p] = p
    BY <1>1 DEF Packet
  <2> QED
    BY <2>1, SiftSingle
<1>6. rest \in Seq(ServerPackets)
  <2>1. {Packet[x] : x \in DOMAIN Packet} = ServerPackets
    BY DEF Packet
  <2>2. rest \in Seq({Packet[x] : x \in DOMAIN Packet})
    BY <1>1, <1>2, WayReceive
  <2> QED
    BY <2>1, <2>2
<1>7. Items(rest) = Coming(u)'
  BY WayItemsThen
<1>8. Ordered(u, s, way)
  BY <1>1 DEF Orderly, Fitted
<1>9. Ordered(u, s, <<p>> \o rest)
  BY <1>4, <1>5, <1>8
<1>10. \/ t = s /\ ~Closing(u, p) /\ ~(s = "LOBBY" /\ Opening(p))
       \/ s # "LOBBY" /\ t = "LOBBY" /\ Closing(u, p) /\ \A q \in Items(rest) : ~Turning(u, q)
       \/ s = "LOBBY" /\ t = "CHATROOM" /\ Opening(p) /\ \A q \in Items(rest) : ~Closing(u, q)
  BY <1>1, <1>7
<1> HIDE DEF p, s, way, rest
<1>11. Ordered(u, t, rest)
  BY <1>1, <1>6, <1>9, <1>10, OrderedTake
<1>12. Fitted(u)'
  BY <1>1, <1>11 DEF Fitted, rest
<1> QED
  BY <1>3, <1>12

\* The first packet on the way suits the page: no display is handed another's.
LEMMA NoMiscast == ASSUME Inv, Screens, Orderly, NEW u \in Users PROVE ~Miscast(u)
<1> SUFFICES ASSUME Miscast(u) PROVE FALSE
  OBVIOUS
<1> DEFINE p == Received(u)
           s == clientState[u]
           way == OnTheWay(u, Packet)
<1>1. SysTypeOK /\ Connected(u) /\ toClient[u] # <<>> /\ Screen(u)
  BY DEF Inv, Miscast, Screens
<1>2. p \in ServerPackets /\ p \in Coming(u) /\ toClient[u] \in Seq(ServerPackets) /\ p = toClient[u][1]
  <2>1. toClient[u] \in Seq(ServerPackets)
    BY <1>1, Sequences
  <2>2. p = toClient[u][1] /\ 1 \in DOMAIN toClient[u] /\ p \in ServerPackets
    BY <1>1, <2>1, HeadTailProperties, LenProperties DEF Received
  <2> QED
    BY <2>1, <2>2 DEF Coming, Arrived
<1>3. Suits(u, s, {}, p)
  <2> DEFINE q == Tail(toClient[u])
             ps == <<p>>
             one == Sift(ps, Packet)
             tail == Sift(q, Packet)
             pushed == Sift(sendQueue, Addressed(u, Packet))
             rest == tail \o pushed
  <2>1. toClient[u] = ps \o q /\ q \in Seq(ServerPackets) /\ ps \in Seq(ServerPackets)
    BY <1>1, <1>2, HeadFirst DEF Received
  <2>2. one = ps
    <3>1. p \in DOMAIN Packet /\ Packet[p] = p
      BY <1>2 DEF Packet
    <3> QED
      BY <3>1, SiftSingle
  <2>3. \A x \in DOMAIN Packet : Packet[x] \in ServerPackets
    BY DEF Packet
  <2>4. /\ way = Sift(toClient[u], Packet) \o pushed
        /\ Sift(toClient[u], Packet) \in Seq(ServerPackets) /\ pushed \in Seq(ServerPackets)
    BY <1>1, <2>3, WayType
  <2>5. tail \in Seq(ServerPackets)
    <3> HIDE DEF q
    <3> QED
      BY <2>1, <2>3, SiftType
  <2>6. Sift(toClient[u], Packet) = one \o tail
    <3> HIDE DEF q, ps
    <3>1. Sift(ps \o q, Packet) = Sift(ps, Packet) \o Sift(q, Packet)
      BY <2>1, SiftConcat
    <3> QED
      BY <2>1, <3>1
  <2> HIDE DEF q, one, tail, pushed, way, ps
  <2>7. rest \in Seq(ServerPackets) /\ way = ps \o rest
    <3>1. rest \in Seq(ServerPackets)
      BY <2>4, <2>5, ConcatProperties
    <3>2. (ps \o tail) \o pushed = ps \o (tail \o pushed)
      <4>1. \A x, y, z \in Seq(ServerPackets) : x \o (y \o z) = (x \o y) \o z
        BY Regrouped
      <4>2. ps \in Seq(ServerPackets) /\ pushed \in Seq(ServerPackets)
        BY <2>1, <2>4
      <4> QED
        BY <2>5, <4>1, <4>2
    <3> QED
      BY <2>2, <2>4, <2>6, <3>1, <3>2
  <2>8. Ordered(u, s, way)
    BY <1>1 DEF Orderly, Fitted, way
  <2>9. DOMAIN way = 1..Len(way) /\ Len(way) \in Nat \ {0} /\ way[1] = p
    <3>1. Len(ps) = 1 /\ ps[1] = p
      BY DEF ps
    <3> HIDE DEF rest
    <3>2. way \in Seq(ServerPackets) /\ Len(way) = 1 + Len(rest) /\ way[1] = p /\ Len(rest) \in Nat
      BY <2>1, <2>7, <3>1, ConcatProperties, LenProperties
    <3> QED
      BY <3>2, LenProperties
  <2>10. Before(way, 1) = {}
    BY DEF Before
  <2>11. 1 \in DOMAIN way
    BY <2>9
  <2>12. Suits(u, s, Before(way, 1), way[1])
    BY <2>8, <2>11 DEF Ordered
  <2> QED
    BY <2>9, <2>10, <2>12
<1>4. p.type = "S_ROOM_ENTER" => s \in {"LOBBY", "CHATROOM"}
  <2>1. ASSUME p.type = "S_ROOM_ENTER", s \notin {"LOBBY", "CHATROOM"} PROVE FALSE
    <3>1. u \in userList
      BY <1>1, <2>1 DEF Screen, Departed
    <3>2. Page(u) /\ Opening(p)
      BY <2>1, <3>1, UserFacts DEF UserInv, Opening
    <3> QED
      BY <1>1, <1>2, <2>1, <3>2 DEF Page, Fits
  <2> QED
    BY <2>1
<1> QED
  BY <1>3, <1>4 DEF Miscast, Suits, InRoom

\* The client's own steps.
LEMMA ClientFits ==
  ASSUME ~Coalescing, Inv, SysTypeOK', Screens, Orderly, NEW u \in Users, ClientStep(u)
  PROVE  \A v \in Users : Fitted(v)'
<1>1. /\ SysTypeOK /\ UNCHANGED sendQueue /\ Connected(u) /\ Screen(u) /\ ~Miscast(u)
      /\ \A v \in Users : v # u => UNCHANGED <<clientState[v], toClient[v]>>
      /\ clientState[u] \in ClientStates /\ {"LOBBY", "CHATROOM"} \subseteq ClientStates
  <2>1. SysTypeOK
    BY DEF Inv
  <2>2. UNCHANGED vars /\ Connected(u) /\ \A v \in Users : v # u => UNCHANGED <<clientState[v], toClient[v]>>
    BY <2>1, Solitary
  <2>3. ~Miscast(u)
    BY NoMiscast
  <2> QED
    BY <2>1, <2>2, <2>3 DEF vars, Screens, SysTypeOK, ClientStates
<1>2. ASSUME NEW v \in Users, v # u PROVE Fitted(v)'
  <2>1. OnTheWay(v, Packet)' = OnTheWay(v, Packet) /\ (Connected(v)' <=> Connected(v))
    BY <1>1, <1>2 DEF OnTheWay, Connected
  <2> QED
    BY <1>1, <1>2, <2>1 DEF Orderly, Fitted
\* The user acts.
<1>3. CASE SendNickname(u) \/ LobbyPage(u) \/ ChatRoomPage(u)
  <2>1. /\ UNCHANGED toClient
        /\ \/ clientState' = clientState
           \/ clientState[u] = "LOGIN" /\ clientState' = [clientState EXCEPT ![u] = "PENDING"]
    BY <1>3 DEF SendNickname, LobbyPage, ChatRoomPage, Act
  <2>2. OnTheWay(u, Packet)' = OnTheWay(u, Packet)
    BY <1>1, <2>1 DEF OnTheWay
  <2>3. clientState'[u] = clientState[u] \/ (clientState[u] = "LOGIN" /\ clientState'[u] = "PENDING")
    BY <1>1, <2>1 DEF SysTypeOK
  <2>4. Ordered(u, clientState[u], OnTheWay(u, Packet))
    BY <1>1 DEF Orderly, Fitted
  <2>5. Ordered(u, clientState'[u], OnTheWay(u, Packet))
    <3>1. CASE clientState'[u] = clientState[u]
      BY <2>4, <3>1
    <3>2. CASE clientState[u] = "LOGIN" /\ clientState'[u] = "PENDING"
      BY <2>4, <3>2 DEF Ordered, Suits
    <3> QED
      BY <2>3, <3>1, <3>2
  <2>6. Fitted(u)'
    BY <2>2, <2>5 DEF Fitted
  <2> QED
    BY <1>2, <2>6
\* The client goes.
<1>4. CASE CloseClient(u)
  <2>1. clientState'[u] = "GONE"
    BY <1>1, <1>4 DEF CloseClient, SysTypeOK
  <2>2. Fitted(u)'
    BY <2>1 DEF Fitted, Connected
  <2> QED
    BY <1>2, <2>2
\* A packet that closes the page comes to a user of the list.
<1>5. ASSUME Receive(u, "LOBBY"), Closing(u, Received(u)) PROVE \A v \in Users : Fitted(v)'
  <2>1. Received(u) \in Coming(u)
    BY <1>1, <1>5, ReceiveFacts
  <2>2. u \in userList
    BY <1>1, <1>5, <2>1 DEF Screen, Departed
  <2>3. ClosingLast(u) /\ clientState[u] # "LOBBY"
    BY <1>1, <1>5, <2>1, <2>2, UserFacts DEF UserInv, Page
  <2> QED
    BY <1>1, <1>5, <2>3, TakeFits
<1>6. CASE F_SERVER_ENTER_OK(u)
  BY <1>5, <1>6 DEF F_SERVER_ENTER_OK, Closing
<1>7. CASE F_LOBBY_ROOM_INFO(u)
  <2>1. /\ Receive(u, clientState[u]) /\ Received(u).type = "S_LOBBY_ROOM_INFO"
    BY <1>7 DEF F_LOBBY_ROOM_INFO
  <2>2. ~Closing(u, Received(u)) /\ ~Opening(Received(u))
    BY <2>1 DEF Closing, Opening
  <2> QED
    BY <1>1, <2>1, <2>2, TakeFits
<1>8. CASE F_ROOM_ENTER(u)
  <2>1. Receive(u, "CHATROOM") /\ Received(u).type = "S_ROOM_ENTER" /\ clientState[u] \in {"LOBBY", "CHATROOM"}
    BY <1>8 DEF F_ROOM_ENTER
  <2>2. ~Closing(u, Received(u)) /\ Opening(Received(u))
    BY <2>1 DEF Closing, Opening
  <2>3. CASE clientState[u] = "CHATROOM"
    BY <1>1, <2>1, <2>2, <2>3, TakeFits
  <2>4. CASE clientState[u] = "LOBBY"
    <3>1. u \in userList
      BY <1>1, <2>4 DEF Screen, Departed
    <3>2. \A q \in Coming(u) : ~Closing(u, q)
      BY <1>1, <2>4, <3>1, UserFacts DEF UserInv, Page
    <3> QED
      BY <1>1, <2>1, <2>2, <2>4, <3>2, TakeFits
  <2> QED
    BY <2>1, <2>3, <2>4
<1>9. CASE F_ROOM_EXIT(u)
  <2>1. CASE Received(u).uid = u /\ Receive(u, "LOBBY")
    BY <1>5, <1>9, <2>1 DEF F_ROOM_EXIT, Closing
  <2>2. CASE Received(u).uid # u /\ clientState[u] = "CHATROOM" /\ Receive(u, "CHATROOM")
    <3>1. ~Closing(u, Received(u))
      BY <1>9, <2>2 DEF F_ROOM_EXIT, Closing
    <3> QED
      BY <1>1, <2>2, <3>1, TakeFits
  <2> QED
    BY <1>9, <2>1, <2>2 DEF F_ROOM_EXIT
<1>10. CASE F_ROOM_NAME_or_RECV_CAST(u)
  <2>1. /\ clientState[u] = "CHATROOM" /\ Receive(u, "CHATROOM")
        /\ Received(u).type \in {"S_ROOM_NAME", "S_UNICAST_OK", "S_UNICAST_NO", "S_MULTICAST", "S_BROADCAST"}
    BY <1>10 DEF F_ROOM_NAME_or_RECV_CAST
  <2>2. ~Closing(u, Received(u))
    BY <2>1 DEF Closing
  <2> QED
    BY <1>1, <2>1, <2>2, TakeFits
<1> QED
  BY <1>1, <1>3, <1>4, <1>6, <1>7, <1>8, <1>9, <1>10 DEF ClientStep, LogicThread

\* Nobody begins to whisper.
LEMMA WhispersStep ==
  ASSUME "C_UNICAST" \notin Speech, Inv, NoWhispers, [SysNext]_sysVars
  PROVE  NoWhispers'
<1>1. SysTypeOK
  BY DEF Inv
<1>2. ASSUME \A v \in Users : Going(v)' \subseteq Going(v) PROVE NoWhispers'
  BY <1>2 DEF NoWhispers
<1>3. ASSUME UNCHANGED <<toServer, jobQueue>> PROVE NoWhispers'
  <2>1. \A v \in Users : Going(v)' = Going(v)
    BY <1>3 DEF Going, Stream, Queued
  <2> QED
    BY <1>2, <2>1
<1>4. ASSUME NEW u \in Users, NEW p \in ClientPackets, p.type # "C_UNICAST", UNCHANGED jobQueue,
             toServer' = [toServer EXCEPT ![u] = Append(@, p)]
      PROVE  NoWhispers'
  <2>1. \A v \in Users : Going(v)' \subseteq Going(v) \cup {p}
    <3>1. \A v \in Users : v # u => Going(v)' = Going(v)
      BY <1>1, <1>4, ClientSends
    <3>2. Going(u)' = Going(u) \cup {p}
      BY <1>1, <1>4, ClientSends
    <3> QED
      BY <3>1, <3>2
  <2> QED
    BY <1>4, <2>1 DEF NoWhispers
<1>5. ASSUME NEW u \in Users, ClientStep(u) PROVE NoWhispers'
  <2>0. UNCHANGED jobQueue
    BY <1>1, <1>5, Solitary DEF vars
  <2>1. ASSUME NEW s, NEW p \in ClientPackets, p.type # "C_UNICAST", Act(u, s, p) PROVE NoWhispers'
    BY <1>4, <2>0, <2>1 DEF Act
  <2>2. CASE SendNickname(u)
    <3>1. PICK n \in Nicknames : Act(u, "LOGIN", [type |-> "C_SERVER_ENTER", nickname |-> n])
      BY <2>2 DEF SendNickname
    <3>2. [type |-> "C_SERVER_ENTER", nickname |-> n] \in ClientPackets
      BY DEF ClientPackets
    <3> QED
      BY <2>1, <3>1, <3>2
  <2>3. CASE LobbyPage(u)
    <3>1. PICK selected \in Selections(u) :
            \/ Act(u, "LOBBY", [type |-> "C_ROOM_CREATE"])
            \/ Act(u, "LOBBY", [type |-> "C_ROOM_ENTER", rid |-> selected])
      BY <2>3 DEF LobbyPage
    <3>2. selected \in RoomIds
      BY <1>1, MaxRoomIdAssumption DEF Selections, SysTypeOK, RoomIds
    <3>3. [type |-> "C_ROOM_CREATE"] \in ClientPackets
      BY DEF ClientPackets
    <3>4. [type |-> "C_ROOM_ENTER", rid |-> selected] \in ClientPackets
      BY <3>2 DEF ClientPackets
    <3> QED
      BY <2>1, <3>1, <3>3, <3>4
  <2>4. CASE ChatRoomPage(u)
    <3>1. CASE \E p \in ClientPackets : p.type \in Speech /\ Act(u, "CHATROOM", p)
      BY <2>1, <3>1
    <3>2. ASSUME NEW t \in {"C_ROOM_EXIT", "C_SERVER_EXIT"}, Act(u, "CHATROOM", [type |-> t]) PROVE NoWhispers'
      <4>1. [type |-> t] \in ClientPackets
        BY DEF ClientPackets
      <4> QED
        BY <2>1, <3>2, <4>1
    <3> QED
      BY <2>4, <3>1, <3>2 DEF ChatRoomPage
  <2>5. CASE F_SERVER_ENTER_OK(u)
    <3>1. toServer' = [toServer EXCEPT ![u] = Append(@, [type |-> "C_LOBBY_ROOM_INFO"])]
      BY <2>5 DEF F_SERVER_ENTER_OK
    <3>2. [type |-> "C_LOBBY_ROOM_INFO"] \in ClientPackets
      BY DEF ClientPackets
    <3> QED
      BY <1>4, <2>0, <3>1, <3>2
  <2>6. CASE \/ CloseClient(u) \/ F_LOBBY_ROOM_INFO(u) \/ F_ROOM_ENTER(u) \/ F_ROOM_EXIT(u)
             \/ F_ROOM_NAME_or_RECV_CAST(u) \/ Miscast(u)
    <3>1. UNCHANGED toServer
      BY <2>6 DEF CloseClient, F_LOBBY_ROOM_INFO, F_ROOM_ENTER, F_ROOM_EXIT, F_ROOM_NAME_or_RECV_CAST, Miscast
    <3> QED
      BY <1>3, <2>0, <3>1
  <2> QED
    BY <1>5, <2>2, <2>3, <2>4, <2>5, <2>6 DEF ClientStep, LogicThread
<1>6. ASSUME NEW u \in Users, SysRecvCompletion(u) PROVE NoWhispers'
  <2>1. /\ UNCHANGED sendQueue /\ toServer[u] # <<>>
        /\ jobQueue' = Append(jobQueue, [session |-> u, packet |-> Head(toServer[u])])
    BY <1>6 DEF SysRecvCompletion, RecvCompletion
  <2>2. PICK k \in 1..(IF Coalescing THEN Len(toServer[u]) ELSE 1) :
          toServer' = [toServer EXCEPT ![u] = SubSeq(@, k + 1, Len(@))]
    BY <1>6 DEF SysRecvCompletion
  <2>3. k \in 1..Len(toServer[u])
    BY <1>1, <2>1, <2>2, Sequences, EmptySeq
  <2>4. \A v \in Users : Going(v)' \subseteq Going(v)
    BY <1>1, <2>1, <2>2, <2>3, PassJob
  <2> QED
    BY <1>2, <2>4
<1>7. ASSUME NEW u \in Users, SysFailedCompletion(u) PROVE NoWhispers'
  <2>1. toServer' = [toServer EXCEPT ![u] = <<>>] /\ UNCHANGED jobQueue
    BY <1>7 DEF SysFailedCompletion, FailedCompletion, Fault
  <2>2. toServer'[u] = <<>> /\ \A v \in Users : v # u => toServer'[v] = toServer[v]
    BY <1>1, <2>1 DEF SysTypeOK
  <2>3. /\ \A v \in Users : Queued(v)' = Queued(v) /\ (v # u => Stream(v)' = Stream(v))
        /\ Stream(u)' = {}
    BY <2>1, <2>2 DEF Queued, Stream
  <2>4. \A v \in Users : Going(v)' \subseteq Going(v)
    BY <2>3 DEF Going
  <2> QED
    BY <1>2, <2>4
<1>8. CASE SysLogicStep
  <2>1. UNCHANGED toServer /\ jobQueue # <<>> /\ (jobQueue' = Tail(jobQueue) \/ UNCHANGED jobQueue)
    BY <1>8 DEF SysLogicStep, LogicStep, C_SERVER_ENTER, C_SERVER_EXIT, C_LOBBY_ROOM_INFO, C_ROOM_CREATE,
       C_ROOM_ENTER, C_ROOM_EXIT, C_UNICAST, C_MULTICAST, C_BROADCAST, StaleJob, NullRoom, StaleMember,
       Dispatch, Fault
  <2>2. CASE jobQueue' = Tail(jobQueue)
    <3>1. \A v \in Users : Going(v)' \subseteq Going(v)
      BY <2>1, <2>2, SenderFacts
    <3> QED
      BY <1>2, <3>1
  <2> QED
    BY <1>3, <2>1, <2>2
<1>9. CASE \/ SysCreateUser \/ SysSendPackage \/ UNCHANGED sysVars
           \/ \E u \in Users : SysStaleCompletion(u) \/ SysOverlap(u)
  <2>1. UNCHANGED <<toServer, jobQueue>>
    BY <1>9, OverlapStops DEF SysCreateUser, CreateUser, SysSendPackage, SendPackage, SysStaleCompletion,
       StaleCompletion, Fault, sysVars, vars
  <2> QED
    BY <1>3, <2>1
<1> QED
  BY <1>5, <1>6, <1>7, <1>8, <1>9 DEF SysNext

\* Every step keeps the packets in order.
LEMMA OrderlyStep ==
  ASSUME ~Coalescing, "C_UNICAST" \notin Speech, Inv, SysTypeOK', Screens, Orderly, [SysNext]_sysVars
  PROVE  Orderly'
<1>1. SysTypeOK /\ NoWhispers'
  BY WhispersStep DEF Inv, Orderly
<1>2. ASSUME UNCHANGED <<toClient, sendQueue>>, NEW v \in Users, UNCHANGED clientState[v] PROVE Fitted(v)'
  <2>1. OnTheWay(v, Packet)' = OnTheWay(v, Packet) /\ (Connected(v)' <=> Connected(v))
    BY <1>2 DEF OnTheWay, Connected
  <2> QED
    BY <1>2, <2>1 DEF Orderly, Fitted
<1>3. CASE SysCreateUser
  <2>1. PICK u \in Users : u = userId
    BY <1>3 DEF SysCreateUser, CreateUser
  <2>2. /\ UNCHANGED <<toClient, sendQueue>> /\ clientState' = [clientState EXCEPT ![u] = "LOGIN"]
        /\ Coming(u) = {}
    <3>1. Unborn /\ u >= userId
      BY <2>1 DEF Inv, Rest, Users
    <3>2. Coming(u) = {}
      BY <3>1 DEF Unborn
    <3> QED
      BY <1>3, <2>1, <3>2 DEF SysCreateUser, CreateUser
  <2>3. \A v \in Users : v # u => UNCHANGED clientState[v]
    BY <1>1, <2>2 DEF SysTypeOK
  <2>4. OnTheWay(u, Packet)' = OnTheWay(u, Packet) /\ Items(OnTheWay(u, Packet)) = {}
    BY <1>1, <2>2, WayItems DEF OnTheWay
  <2>5. DOMAIN OnTheWay(u, Packet)' = {}
    BY <2>4 DEF Items
  <2>6. Fitted(u)'
    BY <2>5 DEF Fitted, Ordered
  <2> QED
    BY <1>1, <1>2, <2>2, <2>3, <2>6 DEF Orderly
<1>4. ASSUME NEW u \in Users, ClientStep(u) PROVE Orderly'
  BY <1>1, <1>4, ClientFits DEF Orderly
<1>5. ASSUME NEW u \in Users, SysRecvCompletion(u) \/ SysStaleCompletion(u) \/ SysOverlap(u) PROVE Orderly'
  <2>1. UNCHANGED <<toClient, sendQueue, clientState>>
    BY <1>5, OverlapStops DEF SysRecvCompletion, SysStaleCompletion, RecvCompletion, StaleCompletion, Fault, clientVars
  <2> QED
    BY <1>1, <1>2, <2>1 DEF Orderly
<1>6. ASSUME NEW u \in Users, SysFailedCompletion(u) PROVE Orderly'
  <2>1. UNCHANGED <<clientVars, toClient>>
    BY <1>6 DEF SysFailedCompletion
  <2>2. ~RemovalMeetsDeleted(u)
    <3>1. ~IsInLobby(u) => {currRoom[u]} \in SUBSET RoomIds
      BY <1>1 DEF SysTypeOK, TypeOK, IsInLobby
    <3> QED
      BY <3>1, NobodyDeleted DEF RemovalMeetsDeleted
  <2>3. RemoveUser(u)
    BY <1>6, <2>2 DEF SysFailedCompletion, FailedCompletion
  <2> QED
    BY <1>1, <2>1, <2>3, RemovalFits DEF Orderly
<1>7. CASE SysLogicStep
  BY <1>1, <1>7, LogicFits DEF Orderly
<1>8. CASE SysSendPackage
  <2>1. UNCHANGED clientState
    BY <1>8 DEF SysSendPackage, clientVars
  <2>2. \A v \in Users : Connected(v) => OnTheWay(v, Packet)' = OnTheWay(v, Packet)
    BY <1>8, Passing
  <2>3. \A v \in Users : Connected(v)' <=> Connected(v)
    BY <2>1 DEF Connected
  <2> QED
    BY <1>1, <2>1, <2>2, <2>3 DEF Orderly, Fitted
<1>9. CASE UNCHANGED sysVars
  <2>1. UNCHANGED <<toClient, sendQueue, clientState>>
    BY <1>9 DEF sysVars, vars, clientVars
  <2> QED
    BY <1>1, <1>2, <2>1 DEF Orderly
<1> QED
  BY <1>3, <1>4, <1>5, <1>6, <1>7, <1>8, <1>9 DEF SysNext

\* Nothing is on the way at the beginning, and nobody is connected.
LEMMA OrderlyInit == SysInit => Orderly
<1> SUFFICES ASSUME SysInit PROVE Orderly
  OBVIOUS
<1>1. \A u \in Users : ~Connected(u) /\ Going(u) = {}
  BY DEF SysInit, Init, Connected, Going, Stream, Queued
<1> QED
  BY <1>1 DEF Orderly, NoWhispers, Fitted

\* As long as nobody whispers, every receive returns one packet and no removal
\* overlaps a handler, and of users that wait for the page they asked for: no display
\* is handed a packet that only a display of another class understands: the
\* handlers of LogicProcessFunc.cpp cast display_ without looking, and what
\* keeps them right is the order of what is on the way.
THEOREM DisplaysAlwaysFit ==
  ASSUME ~Coalescing, "C_UNICAST" \notin Speech
  PROVE  SysSpec => []DisplaysFit
<1>1. SysInit => Orderly /\ DisplaysFit
  BY OrderlyInit DEF SysInit, DisplaysFit
<1>2. Inv /\ SysTypeOK' /\ Screens /\ Orderly /\ [SysNext]_sysVars => Orderly'
  BY OrderlyStep
<1>3. Inv /\ Screens /\ Orderly /\ DisplaysFit /\ [SysNext]_sysVars => DisplaysFit'
  <2> SUFFICES ASSUME Inv, Screens, Orderly, DisplaysFit, [SysNext]_sysVars PROVE UNCHANGED miscast
    BY DEF DisplaysFit
  <2>1. \A u \in Users : ~Miscast(u)
    BY NoMiscast
  <2>2. ASSUME NEW u \in Users, ClientStep(u) PROVE UNCHANGED miscast
    BY <2>1, <2>2 DEF ClientStep, SendNickname, LobbyPage, ChatRoomPage, Act, CloseClient, LogicThread,
       F_SERVER_ENTER_OK, F_LOBBY_ROOM_INFO, F_ROOM_ENTER, F_ROOM_EXIT, F_ROOM_NAME_or_RECV_CAST
  <2>3. ASSUME NEW u \in Users,
               SysRecvCompletion(u) \/ SysFailedCompletion(u) \/ SysStaleCompletion(u) \/ SysOverlap(u)
        PROVE  UNCHANGED miscast
    BY <2>3 DEF SysRecvCompletion, SysFailedCompletion, SysStaleCompletion, SysOverlap, clientVars
  <2>4. CASE SysCreateUser \/ SysLogicStep \/ SysSendPackage \/ UNCHANGED sysVars
    BY <2>4 DEF SysCreateUser, SysLogicStep, SysSendPackage, clientVars, sysVars
  <2> QED
    BY <2>2, <2>3, <2>4 DEF SysNext
<1> QED
  BY <1>1, <1>2, <1>3, SysTypeCorrect, Invariant, ScreensAlways, PTL DEF SysSpec
=============================================================================

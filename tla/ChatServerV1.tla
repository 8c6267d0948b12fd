---------------------------- MODULE ChatServerV1 ----------------------------
(***************************************************************************)
(* The v1.0 chat: ChatClientV1's clients, workers that handle one packet   *)
(* of a client at a time and queue what is to be sent, and the packet      *)
(* thread that sends it, to whoever is in the sender's room when it comes  *)
(* to it.  Clients are named by their slots; ClientPool is about how slots *)
(* are taken and returned.                                                 *)
(*                                                                         *)
(* What a user does next comes after the server has read what was sent     *)
(* before, but it does not wait for the packet thread, which may still     *)
(* have all of it before it; and connections break only between reads.     *)
(* The client enforces neither: several packets in one receive, and users  *)
(* that act before their login is read, are left out.                      *)
(***************************************************************************)
EXTENDS ChatClientV1

CONSTANT
  MaxPackets    \* bound on the packet queue

VARIABLES
  user,          \* stUserInfo of a slot, which outlives its client
  mPacketQueue,
  casting        \* the packet being cast, its room, and the next slot, 0 if none

serverVars == <<user, mPacketQueue, casting>>
vars == <<clientVars, serverVars>>

EveryRoom == -1   \* the room of a broadcast

\* where is the room a packet is from; the code has no such field.
Packet(type, c, sendType, isClose, where) ==
  [type |-> type, ClientIndex |-> c, SendType |-> sendType, isClose |-> isClose, where |-> where]

UserInfo == [room : Rooms \cup {LOBBY}, prev : Rooms \cup {LOBBY}]

Packets ==
  [type : Types \cup {"NICKNAME_CREATED", "NICKNAME_NOT_FOUND"}, ClientIndex : Clients,
   SendType : {"UNI", "MULTI", "BROAD"}, isClose : BOOLEAN,
   where : Rooms \cup {LOBBY, EveryRoom}]

Nothing == [packet |-> Packet("none", 0, "UNI", FALSE, LOBBY), room |-> LOBBY, next |-> 0]
IsCasting == casting.next # 0

Init ==
  /\ ClientInit
  /\ user = [c \in Clients |-> [room |-> LOBBY, prev |-> LOBBY]]
  /\ mPacketQueue = <<>> /\ casting = Nothing

IsConnected(c) == link[c] \in {"open", "closing"}

-----------------------------------------------------------------------------
(* The clients and their connections.                                       *)

\* What a client sent has been read, if not yet cast.
Settled(c) == toServer[c] = <<>>

\* A client cannot know that the server is about to close.
User(c) ==
  /\ \/ IsConnected(c) /\ Settled(c) /\ ~client[c].quit
     \/ IsDown(c)
  /\ UserActs(c)
  /\ UNCHANGED serverVars

Threads(c) ==
  (Start(c) \/ MainThread(c) \/ SendThread(c) \/ RecvThread(c)) /\ UNCHANGED serverVars

\* The window is closed, or the connection breaks; in either case a worker is
\* told.  The slot's user stays as it was.
Vanish(c) ==
  /\ c \in Leavers
  /\ \/ link[c] = "open" /\ Settled(c) /\ (Ends(c) \/ Disconnect(c))
     \/ link[c] \in {"closing", "closed", "reset"} /\ Ends(c)
  /\ UNCHANGED serverVars

\* CloseClient, once the close sent to the client has completed.
CloseClient(c) == link[c] = "closing" /\ Disconnect(c) /\ UNCHANGED serverVars

-----------------------------------------------------------------------------
(* The workers: a PROCESS function changes the user and queues a packet.     *)

Enqueue(p) == Len(mPacketQueue) < MaxPackets /\ mPacketQueue' = Append(mPacketQueue, p)

\* A worker has received the client's next packet; the one before is handled.
Received(c, type) ==
  /\ toServer[c] # <<>> /\ Head(toServer[c]).type = type
  /\ toServer' = [toServer EXCEPT ![c] = Tail(@)]

Arg(c) == Head(toServer[c]).arg

\* Mutation: the new user is where the slot's last one was.
SERVER_ENTER_KeepsRoom(c) ==
  /\ Received(c, "SERVER_ENTER")
  /\ Enqueue(Packet("NICKNAME_CREATED", c, "UNI", FALSE, LOBBY))
  /\ UNCHANGED <<link, user, client, unread, casting>>

\* FindNickname returns -1, nobody, before it looks: every nickname is new.
SERVER_ENTER(c) ==
  /\ Received(c, "SERVER_ENTER")
  /\ user' = [user EXCEPT ![c].room = LOBBY]
  /\ Enqueue(Packet("NICKNAME_CREATED", c, "UNI", FALSE, LOBBY))
  /\ UNCHANGED <<link, client, unread, casting>>

\* For the same reason no whisper finds its receiver.
CHAT_UNICAST(c) ==
  /\ Received(c, "CHAT_UNICAST")
  /\ Enqueue(Packet("NICKNAME_NOT_FOUND", c, "UNI", FALSE, LOBBY))
  /\ UNCHANGED <<link, user, client, unread, casting>>

\* Mutation: the packet does not say that it closes.
SERVER_EXIT_Stays(c) ==
  /\ Received(c, "SERVER_EXIT")
  /\ Enqueue(Packet("SERVER_EXIT", c, "MULTI", FALSE, user[c].room))
  /\ UNCHANGED <<link, user, client, unread, casting>>

SERVER_EXIT(c) ==
  /\ Received(c, "SERVER_EXIT")
  /\ Enqueue(Packet("SERVER_EXIT", c, "MULTI", TRUE, user[c].room))
  /\ UNCHANGED <<link, user, client, unread, casting>>

\* stUserInfo::EnterRoom does nothing when the user is in a room.
ROOM_ENTER(c) ==
  /\ Received(c, "ROOM_ENTER")
  /\ user' = IF user[c].room = LOBBY THEN [user EXCEPT ![c].room = Arg(c)] ELSE user
  /\ Enqueue(Packet("ROOM_ENTER", c, "MULTI", FALSE, Arg(c)))
  /\ UNCHANGED <<link, client, unread, casting>>

\* Mutation: who leaves a room is in none, not in the lobby.
ROOM_EXIT_Nowhere(c) ==
  /\ Received(c, "ROOM_EXIT")
  /\ user' = [user EXCEPT ![c] = [room |-> EveryRoom, prev |-> @.room]]
  /\ Enqueue(Packet("ROOM_EXIT", c, "MULTI", FALSE, user[c].room))
  /\ UNCHANGED <<link, client, unread, casting>>

ROOM_EXIT(c) ==
  /\ Received(c, "ROOM_EXIT")
  /\ user' = IF user[c].room = LOBBY THEN user
             ELSE [user EXCEPT ![c] = [room |-> LOBBY, prev |-> @.room]]
  /\ Enqueue(Packet("ROOM_EXIT", c, "MULTI", FALSE, user[c].room))
  /\ UNCHANGED <<link, client, unread, casting>>

CHAT_CAST(c) ==
  /\ \/ /\ Received(c, "CHAT_BROADCAST")
        /\ Enqueue(Packet("CHAT_BROADCAST", c, "BROAD", FALSE, EveryRoom))
     \/ /\ Received(c, "CHAT_MULTICAST")
        /\ Enqueue(Packet("CHAT_MULTICAST", c, "MULTI", FALSE, user[c].room))
  /\ UNCHANGED <<link, user, client, unread, casting>>

Worker(c) ==
  \/ SERVER_ENTER(c) \/ SERVER_EXIT(c)
  \/ ROOM_ENTER(c) \/ ROOM_EXIT(c)
  \/ CHAT_UNICAST(c) \/ CHAT_CAST(c)

-----------------------------------------------------------------------------
(* The packet thread.                                                       *)

\* SendMsg to a slot.
SendMsg(c) == unread' = [unread EXCEPT ![c] = TRUE]

UniCast ==
  /\ ~IsCasting /\ mPacketQueue # <<>> /\ Head(mPacketQueue).SendType = "UNI"
  /\ LET p == Head(mPacketQueue)
     IN  IF IsConnected(p.ClientIndex) THEN SendMsg(p.ClientIndex) ELSE UNCHANGED unread
  /\ mPacketQueue' = Tail(mPacketQueue)
  /\ UNCHANGED <<link, user, client, toServer, casting>>

\* Mutation: the last room counts before the present one.
RoomOf_PrevFirst(p) ==
  IF p.SendType = "BROAD" THEN EveryRoom
  ELSE IF user[p.ClientIndex].prev # LOBBY THEN user[p.ClientIndex].prev
  ELSE user[p.ClientIndex].room

\* The room of a cast is the sender's now; if that is the lobby, the room the
\* slot's users were in before it, if any.
RoomOf(p) ==
  IF p.SendType = "BROAD" THEN EveryRoom
  ELSE IF user[p.ClientIndex].room # LOBBY THEN user[p.ClientIndex].room
  ELSE user[p.ClientIndex].prev

StartCast ==
  /\ ~IsCasting /\ mPacketQueue # <<>> /\ Head(mPacketQueue).SendType # "UNI"
  /\ casting' = IF RoomOf(Head(mPacketQueue)) = LOBBY THEN Nothing
                ELSE [packet |-> Head(mPacketQueue), room |-> RoomOf(Head(mPacketQueue)), next |-> 1]
  /\ mPacketQueue' = Tail(mPacketQueue)
  /\ UNCHANGED <<clientVars, user>>

CastToNext ==
  /\ IsCasting
  /\ LET c == casting.next
     IN  /\ IF IsConnected(c) /\ casting.room \in {EveryRoom, user[c].room}
            THEN /\ SendMsg(c)
                 /\ link' = IF casting.packet.isClose /\ c = casting.packet.ClientIndex
                            THEN [link EXCEPT ![c] = "closing"] ELSE link
            ELSE UNCHANGED <<unread, link>>
         /\ casting' = IF c = Slots THEN Nothing ELSE [casting EXCEPT !.next = c + 1]
  /\ UNCHANGED <<user, client, toServer, mPacketQueue>>

PacketThread == UniCast \/ StartCast \/ CastToNext

-----------------------------------------------------------------------------
Next ==
  \/ \E c \in Clients : User(c) \/ Threads(c) \/ Vanish(c) \/ CloseClient(c) \/ Worker(c)
  \/ PacketThread

\* The workers, the packet thread and the clients' threads run, and what is sent
\* arrives; users do as they please.  A worker waits for room in the queue only
\* because of MaxPackets, and others may not take it for ever: SF.
Fairness ==
  /\ WF_vars(PacketThread)
  /\ \A c \in Clients :
       /\ SF_vars(Worker(c)) /\ WF_vars(CloseClient(c))
       /\ WF_vars(MainThread(c) /\ UNCHANGED serverVars)
       /\ WF_vars(SendThread(c) /\ UNCHANGED serverVars)
       /\ WF_vars(RecvThread(c) /\ UNCHANGED serverVars)

Spec == Init /\ [][Next]_vars
FairSpec == Spec /\ Fairness

-----------------------------------------------------------------------------
(* Properties.                                                              *)

\* Types of every variable.
TypeOK ==
  /\ link \in [Clients -> LinkStates]
  /\ client \in [Clients -> Programs]
  /\ unread \in [Clients -> BOOLEAN]
  /\ toServer \in [Clients -> Seq(Messages)]
  /\ user \in [Clients -> UserInfo]
  /\ mPacketQueue \in Seq(Packets)
  /\ casting \in {Nothing} \cup [packet : Packets, room : Rooms \cup {EveryRoom}, next : Clients]

\* The client program is in a room or in the lobby, not on its way between them.
IsSomewhere(c) ==
  /\ client[c].main \in {"lobby", "joining"}
  /\ client[c].sender \notin {"leaving", "entering"}

\* Once the server has read what a client sent, it takes the client to be in
\* the room the client believes it is in, whoever used the slot before.
RoomAgreement ==
  \A c \in Clients :
    link[c] = "open" /\ toServer[c] = <<>> /\ IsSomewhere(c) => user[c].room = client[c].mRoom

\* Packet p, at i in the queue, waits although its sender has entered another
\* room or the slot has a new user: what that queued is behind it.
Overtaken(p, i) ==
  \E j \in DOMAIN mPacketQueue :
    /\ j > i /\ mPacketQueue[j].ClientIndex = p.ClientIndex
    /\ mPacketQueue[j].type \in {"ROOM_ENTER", "NICKNAME_CREATED"}

\* The packet at i is still found to be from where it was sent.
IsFound(i) ==
  LET p == mPacketQueue[i]
  IN  p.SendType # "UNI" => RoomOf(p) = p.where \/ Overtaken(p, i)

\* What is said in a room, and the news of who comes and goes, is cast in the
\* room it is about, also of a sender who has left it, unless the packet thread
\* is so late that the sender has entered a room since, or is another.
CastWhereSent ==
  /\ \A i \in DOMAIN mPacketQueue : IsFound(i)
  /\ IsCasting => casting.room = casting.packet.where \/ Overtaken(casting.packet, 0)

\* A user who says "/quit", and nothing after it, is disconnected.
QuitCloses == \A c \in Leavers : client[c].quit ~> ~IsConnected(c)
=============================================================================

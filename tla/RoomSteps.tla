------------------------------ MODULE RoomSteps ------------------------------
(***************************************************************************)
(* The rooms of the v1.1 server, step by step: the logic thread goes       *)
(* through Room::EnterRoom, ExitRoom and RoomCast while workers go through *)
(* UserManager::RemoveUser, which no lock keeps out of the same room or    *)
(* away from the same user.  ChatServer takes each of them as one step and *)
(* stops where two of them meet; this module shows that they are as good   *)
(* as one step until then, and what can go wrong from there on.            *)
(*                                                                         *)
(* Pushing a package and reading it are one step here: a push is a step of *)
(* its own, and the one queue keeps the order of the pushes (ChatSystem).  *)
(* S_ROOM_NAME, which EnterRoom pushes last, is of no interest to others.  *)
(* Two accesses to one container at once, or a use of a deleted object,    *)
(* are faults, where the model stops; and it stops once two threads have   *)
(* met both ways, for nothing is claimed of what follows.                  *)
(***************************************************************************)
EXTENDS Naturals

CONSTANTS
  Users, Rooms, Workers,
  Lobby,    \* currRoom_ == nullptr
  Outside   \* where users are before they come and after they leave

Logic == "logic"
Threads == Workers \cup {Logic}

ASSUME RoomStepsAssumption ==
  /\ Logic \notin Workers
  /\ Lobby \notin Rooms /\ Outside \notin Rooms /\ Lobby # Outside

VARIABLES
  present,   \* users whose client is connected
  created,   \* users that were allocated
  userList,  \* UserManager::userList_
  deleted,   \* users that were deleted
  currRoom,  \* User::currRoom_
  users,     \* Room::users_
  shown,     \* the users a client lists, once it has read what was pushed
  thread,    \* what each thread is doing: with which user, in which room, at
             \* which line, and which members its loop has not come to
  met,       \* whether two threads were with one user, or in one room, at once
  fault      \* the undefined behaviour the process ran into, or "none"

vars == <<present, created, userList, deleted, currRoom, users, shown, thread, met, fault>>

Idle == [pc |-> "idle"]

Init ==
  /\ present = {} /\ created = {} /\ userList = {} /\ deleted = {}
  /\ currRoom = [u \in Users |-> Lobby]
  /\ users = [r \in Rooms |-> {}]
  /\ shown = [u \in Users |-> {}]
  /\ thread = [t \in Threads |-> Idle]
  /\ met = {}
  /\ fault = "none"

\* The process is in a state something is claimed of.
Runs == fault = "none" /\ met # {"user", "room"}

Fault(kind) ==
  /\ fault' = kind
  /\ UNCHANGED <<present, created, userList, deleted, currRoom, users, shown, thread, met>>

-----------------------------------------------------------------------------
(* The clients.                                                             *)

\* What ChatServer calls CreateUser (in steps: UserLifetime).
CreateUser(u) ==
  /\ Runs
  /\ u \notin created
  /\ created' = created \cup {u}
  /\ userList' = userList \cup {u}
  /\ present' = present \cup {u}
  /\ UNCHANGED <<deleted, currRoom, users, shown, thread, met, fault>>

CloseClient(u) ==
  /\ Runs
  /\ u \in present
  /\ present' = present \ {u}
  /\ shown' = [shown EXCEPT ![u] = {}]
  /\ UNCHANGED <<created, userList, deleted, currRoom, users, thread, met, fault>>

-----------------------------------------------------------------------------
(* Where the threads are.                                                   *)

At(t, pc) == Runs /\ thread[t].pc = pc

With(u) == {t \in Threads : thread[t] # Idle /\ thread[t].user = u}
InRoom(r) == {t \in Threads : /\ thread[t].pc \in {"insert", "tell", "unseat", "erase"}
                              /\ thread[t].room = r}

\* Another thread is in a loop over the members of t's room.
Looping(t) == \E s \in InRoom(thread[t].room) \ {t} : thread[s].pc = "tell"

\* Thread t takes up op with user u in room r; whom it meets there is recorded.
Begin(t, op, u, r, pc, left) ==
  /\ thread' = [thread EXCEPT ![t] =
                  [pc |-> pc, op |-> op, user |-> u, room |-> r, left |-> left]]
  /\ met' = met \cup {m \in {"user", "room"} : IF m = "user" THEN With(u) # {} ELSE InRoom(r) # {}}

\* Thread t goes on at pc.
Goto(t, pc) ==
  thread' = [thread EXCEPT ![t] =
               IF pc = "idle" THEN Idle ELSE [thread[t] EXCEPT !.pc = pc, !.left = {}]]

\* The loop of t over the members in S, or what is behind it when there are none.
Loop(t, S) ==
  IF S # {} THEN thread' = [thread EXCEPT ![t].pc = "tell", ![t].left = S]
  ELSE Goto(t, IF thread[t].op \in {"enter", "say"} THEN "idle" ELSE "unseat")

-----------------------------------------------------------------------------
(* The handlers' and RemoveUser's first steps.                              *)

\* The logic thread finds the user of the job in the list.
Handles(u) == At(Logic, "idle") /\ u \in userList

\* user->EnterRoom(this).  A user that waits for its answers asks for a room
\* in the lobby only.
C_ROOM_ENTER(u, r) ==
  /\ Handles(u)
  /\ currRoom[u] = Lobby
  /\ currRoom' = [currRoom EXCEPT ![u] = r]
  /\ Begin(Logic, "enter", u, r, "insert", {})
  /\ UNCHANGED <<present, created, userList, deleted, users, shown, fault>>

\* user->GetRoom() is there, and its ExitRoom casts to all its members;
C_ROOM_EXIT(u) ==
  /\ Handles(u)
  /\ currRoom[u] # Lobby
  /\ LET S == users[currRoom[u]]
     IN  Begin(Logic, "exit", u, currRoom[u], IF S = {} THEN "unseat" ELSE "tell", S)
  /\ UNCHANGED <<present, created, userList, deleted, currRoom, users, shown, fault>>

\* or it is not, for a worker has taken the user out of the room it asked from.
NullRoom(u) ==
  /\ Handles(u)
  /\ currRoom[u] = Lobby
  /\ \E t \in With(u) : thread[t].op = "remove" /\ thread[t].room # Lobby
  /\ met' = met \cup {"user"}
  /\ fault' = "nullRoom"
  /\ UNCHANGED <<present, created, userList, deleted, currRoom, users, shown, thread>>

C_MULTICAST(u) ==
  /\ Handles(u)
  /\ currRoom[u] # Lobby
  /\ users[currRoom[u]] # {}
  /\ Begin(Logic, "say", u, currRoom[u], "tell", users[currRoom[u]])
  /\ UNCHANGED <<present, created, userList, deleted, currRoom, users, shown, fault>>

\* Mutation: a user in a room does not leave the room.
RemoveUser_LobbyOnly(t, u) ==
  /\ Begin(t, "remove", u, Lobby, "unlist", {})
  /\ UNCHANGED <<present, created, userList, deleted, currRoom, users, shown, fault>>

\* RemoveUser(User*) looks at IsInLobby(): there is nobody to tell, or ExitRoom
\* tells all members but the user.
RemoveUser(t, u) ==
  /\ IF currRoom[u] = Lobby
     THEN Begin(t, "remove", u, Lobby, "unlist", {})
     ELSE LET S == users[currRoom[u]] \ {u}
          IN  Begin(t, "remove", u, currRoom[u], IF S = {} THEN "unseat" ELSE "tell", S)
  /\ UNCHANGED <<present, created, userList, deleted, currRoom, users, shown, fault>>

C_SERVER_EXIT(u) == Handles(u) /\ RemoveUser(Logic, u)

\* A worker takes a failed completion: the client is gone, or another thread has
\* closed the socket, which RemoveUser does between leaving and the list.
FailedCompletion(w, u) ==
  /\ At(w, "idle")
  /\ u \in userList
  /\ u \in present => \E t \in With(u) : thread[t].op = "remove" /\ thread[t].pc = "unlist"
  /\ RemoveUser(w, u)

-----------------------------------------------------------------------------
(* Their other steps.                                                       *)

\* Mutation: the room is told before the user is a member.
Insert_TellsFirst(t) ==
  /\ At(t, "insert")
  /\ LET u == thread[t].user
         r == thread[t].room
     IN  \/ /\ u \in deleted
            /\ Fault("staleUser")
         \/ /\ u \notin deleted /\ Looping(t)
            /\ Fault("race")
         \/ /\ u \notin deleted /\ ~Looping(t)
            /\ users' = [users EXCEPT ![r] = @ \cup {u}]
            /\ Loop(t, users[r])
            /\ UNCHANGED <<present, created, userList, deleted, currRoom, shown, met, fault>>

\* users_.insert(user), and the loop of RoomCast starts.
Insert(t) ==
  /\ At(t, "insert")
  /\ LET u == thread[t].user
         r == thread[t].room
     IN  \/ /\ u \in deleted
            /\ Fault("staleUser")
         \/ /\ u \notin deleted /\ Looping(t)
            /\ Fault("race")
         \/ /\ u \notin deleted /\ ~Looping(t)
            /\ users' = [users EXCEPT ![r] = @ \cup {u}]
            /\ Loop(t, users'[r])
            /\ UNCHANGED <<present, created, userList, deleted, currRoom, shown, met, fault>>

\* What v's client lists after it is told of t's operation.
After(v, t) ==
  LET u == thread[t].user
  IN  CASE thread[t].op = "enter" -> shown[v] \cup {u}
        [] thread[t].op = "say" -> shown[v]
        [] OTHER -> IF u = v THEN {} ELSE shown[v] \ {u}

\* One round of the loop: a package for one more member.
Tell(t) ==
  /\ At(t, "tell")
  /\ \E v \in thread[t].left :
       \/ /\ v \in deleted
          /\ Fault("staleMember")
       \/ /\ v \notin deleted
          /\ Loop(t, thread[t].left \ {v})
          /\ shown' = IF v \in present THEN [shown EXCEPT ![v] = After(v, t)] ELSE shown
          /\ UNCHANGED <<present, created, userList, deleted, currRoom, users, met, fault>>

\* Mutation: a user that is removed stays a member.
Unseat_KeepsMember(t) ==
  /\ At(t, "unseat")
  /\ thread[t].user \notin deleted
  /\ currRoom' = [currRoom EXCEPT ![thread[t].user] = Lobby]
  /\ Goto(t, IF thread[t].op = "remove" THEN "unlist" ELSE "erase")
  /\ UNCHANGED <<present, created, userList, deleted, users, shown, met, fault>>

\* user->ExitRoom().
Unseat(t) ==
  /\ At(t, "unseat")
  /\ LET u == thread[t].user
     IN  \/ /\ u \in deleted
            /\ Fault("staleUser")
         \/ /\ u \notin deleted
            /\ currRoom' = [currRoom EXCEPT ![u] = Lobby]
            /\ Goto(t, "erase")
            /\ UNCHANGED <<present, created, userList, deleted, users, shown, met, fault>>

\* users_.erase(user); a removal goes on.
Erase(t) ==
  /\ At(t, "erase")
  /\ \/ /\ Looping(t)
        /\ Fault("race")
     \/ /\ ~Looping(t)
        /\ users' = [users EXCEPT ![thread[t].room] = @ \ {thread[t].user}]
        /\ Goto(t, IF thread[t].op = "remove" THEN "unlist" ELSE "idle")
        /\ UNCHANGED <<present, created, userList, deleted, currRoom, shown, met, fault>>

\* Release closes the socket, userList_.erase(uid);
Unlist(t) ==
  /\ At(t, "unlist")
  /\ LET u == thread[t].user
     IN  \/ /\ u \in deleted
            /\ Fault("staleUser")
         \/ /\ u \notin deleted
            /\ userList' = userList \ {u}
            /\ Goto(t, "delete")
            /\ UNCHANGED <<present, created, deleted, currRoom, users, shown, met, fault>>

\* delete user.
Delete(t) ==
  /\ At(t, "delete")
  /\ LET u == thread[t].user
     IN  \/ /\ u \in deleted
            /\ Fault("staleUser")
         \/ /\ u \notin deleted
            /\ deleted' = deleted \cup {u}
            /\ Goto(t, "idle")
            /\ UNCHANGED <<present, created, userList, currRoom, users, shown, met, fault>>

Continue(t) == Insert(t) \/ Tell(t) \/ Unseat(t) \/ Erase(t) \/ Unlist(t) \/ Delete(t)

LogicThread ==
  \/ Continue(Logic)
  \/ \E u \in Users :
       \/ \E r \in Rooms : C_ROOM_ENTER(u, r)
       \/ C_ROOM_EXIT(u) \/ NullRoom(u) \/ C_MULTICAST(u) \/ C_SERVER_EXIT(u)

WorkerThread(w) == Continue(w) \/ \E u \in Users : FailedCompletion(w, u)

Next ==
  \/ \E u \in Users : CreateUser(u) \/ CloseClient(u)
  \/ LogicThread
  \/ \E w \in Workers : WorkerThread(w)

Spec == Init /\ [][Next]_vars

-----------------------------------------------------------------------------
(* Properties.                                                              *)

\* As long as no two threads have been with the same user at once, a deleted
\* user sits in no room, and in a room no thread is in sit exactly the users
\* whose currRoom_ it is: a removal next to another user's entrance or exit
\* breaks the loops over users_, but not what is in it.
MembersExact ==
  "user" \in met \/
  \A r \in Rooms :
    /\ users[r] \cap deleted = {}
    /\ InRoom(r) = {} => users[r] = {u \in userList : currRoom[u] = r}

\* A deleted or missing object is used only after two threads have been with the
\* same user at once, and a container is torn only after two have been in the
\* same room: threads that are with different users in different rooms, at
\* whatever steps, do each other no harm.
FaultsExplained ==
  /\ fault \in {"nullRoom", "staleUser", "staleMember"} => "user" \in met
  /\ fault = "race" => "room" \in met

\* Where a thread has taken up an exit or a removal, it has happened.
Seat ==
  [u \in Users |->
     IF u \notin userList \/ (\E t \in With(u) : thread[t].op = "remove") THEN Outside
     ELSE IF \E t \in With(u) : thread[t].op = "exit" THEN Lobby
     ELSE currRoom[u]]

\* Whom thread t is still going to tell.
WillTell(t) ==
  CASE thread[t].pc = "insert" -> users[thread[t].room] \cup {thread[t].user}
    [] thread[t].pc = "tell" -> thread[t].left
    [] OTHER -> {}

News(t) ==
  CASE thread[t].op = "enter" -> [kind |-> "enter", who |-> thread[t].user]
    [] thread[t].op = "say" -> [kind |-> "say", who |-> 0]
    [] OTHER -> [kind |-> "exit", who |-> thread[t].user]

\* A user is told by one thread at a time, for threads in one room have met.
Inbox ==
  [v \in Users |->
     IF v \in present /\ \E t \in Threads : v \in WillTell(t)
     THEN <<News(CHOOSE t \in Threads : v \in WillTell(t))>>
     ELSE <<>>]

Talk == INSTANCE RoomTalk WITH
  MayMiss <- FALSE, seat <- Seat, inbox <- Inbox

\* As long as no two threads have been with the same user or in the same room at
\* once, the handlers and removals are as good as single steps: members are told
\* of everything that happens in their room and nobody else is, although other
\* rooms' threads come in between at every line.
StepsImplementTalk == Talk!Init /\ [][met' # {} \/ Talk!Next]_(Talk!vars)
=============================================================================

---------------------------- MODULE UserLifetime ----------------------------
(***************************************************************************)
(* The life of a User object in the v1.1 server, between the three kinds   *)
(* of threads that create, look up and remove it without a lock: the       *)
(* accepter (CreateUser), the workers (a failed completion, of the receive *)
(* or of a send) and the logic thread (C_SERVER_EXIT).  What ChatServer    *)
(* takes as one step each is split here where another thread can come in   *)
(* between; the handlers that use rooms while a worker removes one of      *)
(* their members are in RoomSteps.  The accesses to one std::map or        *)
(* std::set are taken as atomic, which the code does not even guarantee; a *)
(* use of a deleted object is a fault, where the model stops.              *)
(***************************************************************************)
EXTENDS Naturals

CONSTANTS Users, Workers

Logic == "logic"                  \* the logic thread
Threads == Workers \cup {Logic}
NoUser == "nobody"

ASSUME ThreadsAssumption == Logic \notin Workers /\ NoUser \notin Users

VARIABLES
  accepter,    \* where the accepter is in CreateUser, and the user it creates
  created,     \* users that were allocated
  freed,       \* users that were deleted
  userList,    \* UserManager::userList_
  seated,      \* users in userInLobby_ or in the users_ of a room
  lost,        \* users whose connection is lost
  receive,     \* the session's receive: none, outstanding, or its completion
  send,        \* one send to the session: not posted yet, outstanding, failed, taken
  exits,       \* users whose C_SERVER_EXIT waits in the job queue
  thread,      \* where each thread is, and with which user
  releases,    \* how many threads have come to Release with each user
  overlooked,  \* users whose lost connection was noticed, and nothing done about it
  fault        \* a deleted object was used

vars == <<accepter, created, freed, userList, seated, lost, receive, send, exits, thread, releases,
          overlooked, fault>>

Accepting == [pc : {"insert", "lobby"}, user : Users]
Removing == [pc : {"find", "leave", "release", "erase", "delete", "push", "bind"}, user : Users]
Idle == [pc |-> "idle", user |-> NoUser]

TypeOK ==
  /\ accepter \in Accepting \cup {Idle}
  /\ created \subseteq Users /\ freed \subseteq created
  /\ userList \subseteq created /\ seated \subseteq created /\ exits \subseteq created
  /\ lost \subseteq created /\ overlooked \subseteq created
  /\ receive \in [Users -> {"none", "outstanding", "exit", "failed"}]
  /\ send \in [Users -> {"none", "outstanding", "failed", "taken"}]
  /\ thread \in [Threads -> Removing \cup {Idle}]
  /\ releases \in [Users -> Nat]
  /\ fault \in BOOLEAN

Init ==
  /\ accepter = Idle
  /\ created = {} /\ freed = {} /\ userList = {} /\ seated = {} /\ exits = {}
  /\ lost = {} /\ overlooked = {}
  /\ receive = [u \in Users |-> "none"]
  /\ send = [u \in Users |-> "none"]
  /\ thread = [t \in Threads |-> Idle]
  /\ releases = [u \in Users |-> 0]
  /\ fault = FALSE

Fault ==
  /\ fault' = TRUE
  /\ UNCHANGED <<accepter, created, freed, userList, seated, lost, receive, send, exits, thread,
                 releases, overlooked>>

-----------------------------------------------------------------------------
(* UserManager::CreateUser.                                                 *)

\* Initialize binds the socket to the port and posts the first receive: from
\* here on workers may see the user, which no list knows yet.
Initialize(u) ==
  /\ ~fault
  /\ accepter = Idle
  /\ u \notin created
  /\ accepter' = [pc |-> "insert", user |-> u]
  /\ created' = created \cup {u}
  /\ receive' = [receive EXCEPT ![u] = "outstanding"]
  /\ UNCHANGED <<freed, userList, seated, lost, send, exits, thread, releases, overlooked, fault>>

Insert ==
  /\ ~fault
  /\ accepter.pc = "insert"
  /\ accepter' = [accepter EXCEPT !.pc = "lobby"]
  /\ userList' = userList \cup {accepter.user}
  /\ UNCHANGED <<created, freed, seated, lost, receive, send, exits, thread, releases,
                 overlooked, fault>>

PushIntoLobby ==
  /\ ~fault
  /\ accepter.pc = "lobby"
  /\ accepter' = Idle
  /\ seated' = seated \cup {accepter.user}
  /\ UNCHANGED <<created, freed, userList, lost, receive, send, exits, thread, releases,
                 overlooked, fault>>

-----------------------------------------------------------------------------
(* The connections.  A receive that is outstanding completes with the       *)
(* packet of an exit (the packets before it change nothing here) or, once   *)
(* the connection is lost, fails; so does a send.  The send is one that     *)
(* SendServer posts for a user of the list; what one more could do, a       *)
(* second failed completion of the same user, the receive's does already.   *)

Lose(u) ==
  /\ ~fault
  /\ u \in created \ lost
  /\ lost' = lost \cup {u}
  /\ UNCHANGED <<accepter, created, freed, userList, seated, receive, send, exits, thread, releases,
                 overlooked, fault>>

Complete(u, how) ==
  /\ ~fault
  /\ receive[u] = "outstanding"
  /\ how = "failed" => u \in lost
  /\ receive' = [receive EXCEPT ![u] = how]
  /\ UNCHANGED <<accepter, created, freed, userList, seated, lost, send, exits, thread, releases,
                 overlooked, fault>>

Post(u) ==
  /\ ~fault
  /\ u \in userList
  /\ send[u] = "none"
  /\ send' = [send EXCEPT ![u] = "outstanding"]
  /\ UNCHANGED <<accepter, created, freed, userList, seated, lost, receive, exits, thread, releases,
                 overlooked, fault>>

FailSend(u) ==
  /\ ~fault
  /\ send[u] = "outstanding"
  /\ u \in lost \/ releases[u] > 0
  /\ send' = [send EXCEPT ![u] = "failed"]
  /\ UNCHANGED <<accepter, created, freed, userList, seated, lost, receive, exits, thread, releases,
                 overlooked, fault>>

-----------------------------------------------------------------------------
(* The threads.                                                             *)

At(t, pc) == ~fault /\ thread[t].pc = pc

Goto(t, pc, u) ==
  thread' = [thread EXCEPT ![t] = IF pc = "idle" THEN Idle ELSE [pc |-> pc, user |-> u]]

\* Using a deleted user (or its session): a fault, or the memory still reads
\* as it did and the thread does not notice.
MayFault(u, Step) == Step \/ (u \in freed /\ Fault)

\* A worker takes a completion and reads the session it is for.
TakeCompletion(w, u) ==
  /\ At(w, "idle")
  /\ receive[u] \in {"exit", "failed"}
  /\ MayFault(u, /\ receive' = [receive EXCEPT ![u] = "none"]
                 /\ Goto(w, IF receive[u] = "failed" THEN "find" ELSE "push", u)
                 /\ UNCHANGED <<accepter, created, freed, userList, seated, lost, send, exits,
                                releases, overlooked, fault>>)

\* A failed send is a failed completion like any other.
TakeSend(w, u) ==
  /\ At(w, "idle")
  /\ send[u] = "failed"
  /\ MayFault(u, /\ send' = [send EXCEPT ![u] = "taken"]
                 /\ Goto(w, "find", u)
                 /\ UNCHANGED <<accepter, created, freed, userList, seated, lost, receive, exits,
                                releases, overlooked, fault>>)

\* The packet becomes a job; then the next receive is posted.
PushPackage(w) ==
  /\ At(w, "push")
  /\ exits' = exits \cup {thread[w].user}
  /\ Goto(w, "bind", thread[w].user)
  /\ UNCHANGED <<accepter, created, freed, userList, seated, lost, receive, send, releases,
                 overlooked, fault>>

\* On a socket that is closed, and at times on one whose connection is lost,
\* the receive fails at once: BindRecv closes the socket, there will be no
\* completion, and nobody looks at the result.
BindRecv(w) ==
  /\ At(w, "bind")
  /\ LET u == thread[w].user
     IN  MayFault(u, /\ \/ /\ releases[u] = 0
                           /\ receive' = [receive EXCEPT ![u] = "outstanding"]
                           /\ UNCHANGED overlooked
                        \/ /\ releases[u] > 0 \/ u \in lost
                           /\ overlooked' = overlooked \cup {u}
                           /\ UNCHANGED receive
                     /\ Goto(w, "idle", u)
                     /\ UNCHANGED <<accepter, created, freed, userList, seated, lost, send, exits,
                                    releases, fault>>)

\* RemoveUser(int): nothing to do for a user the list does not have, or does
\* not have yet.
FindUser(w) ==
  /\ At(w, "find")
  /\ LET u == thread[w].user
     IN  /\ overlooked' = IF u \in userList THEN overlooked ELSE overlooked \cup {u}
         /\ Goto(w, IF u \in userList THEN "leave" ELSE "idle", u)
  /\ UNCHANGED <<accepter, created, freed, userList, seated, lost, receive, send, exits, releases,
                 fault>>

\* C_SERVER_EXIT: GetUser finds nobody, and RemoveUser uses a null pointer; or
\* finds the user, and removes it.
C_SERVER_EXIT ==
  /\ At(Logic, "idle")
  /\ \E u \in exits :
       \/ /\ u \notin userList
          /\ Fault
       \/ /\ u \in userList
          /\ exits' = exits \ {u}
          /\ Goto(Logic, "leave", u)
          /\ UNCHANGED <<accepter, created, freed, userList, seated, lost, receive, send, releases,
                         overlooked, fault>>

\* RemoveUser(User*), step by step: leave the lobby or the room (RoomSteps has
\* how, against the handlers that use the room);
LeaveRoom(t) ==
  /\ At(t, "leave")
  /\ LET u == thread[t].user
     IN  MayFault(u, /\ seated' = seated \ {u}
                     /\ Goto(t, "release", u)
                     /\ UNCHANGED <<accepter, created, freed, userList, lost, receive, send, exits,
                                    releases, overlooked, fault>>)

\* Mutation: the user is deleted without being erased.
Release_DeletesFirst(t) ==
  /\ At(t, "release")
  /\ LET u == thread[t].user
     IN  MayFault(u, /\ receive' = [receive EXCEPT ![u] = IF @ = "outstanding" THEN "failed" ELSE @]
                     /\ releases' = [releases EXCEPT ![u] = @ + 1]
                     /\ Goto(t, "delete", u)
                     /\ UNCHANGED <<accepter, created, freed, userList, seated, lost, send, exits,
                                    overlooked, fault>>)

\* close the socket, which makes an outstanding receive fail;
Release(t) ==
  /\ At(t, "release")
  /\ LET u == thread[t].user
     IN  MayFault(u, /\ receive' = [receive EXCEPT ![u] = IF @ = "outstanding" THEN "failed" ELSE @]
                     /\ releases' = [releases EXCEPT ![u] = @ + 1]
                     /\ Goto(t, "erase", u)
                     /\ UNCHANGED <<accepter, created, freed, userList, seated, lost, send, exits,
                                    overlooked, fault>>)

\* leave the list;
Erase(t) ==
  /\ At(t, "erase")
  /\ userList' = userList \ {thread[t].user}
  /\ Goto(t, "delete", thread[t].user)
  /\ UNCHANGED <<accepter, created, freed, seated, lost, receive, send, exits, releases, overlooked,
                 fault>>

\* and delete the object, which another thread may have done.
Delete(t) ==
  /\ At(t, "delete")
  /\ LET u == thread[t].user
     IN  \/ /\ u \in freed
            /\ Fault
         \/ /\ u \notin freed
            /\ freed' = freed \cup {u}
            /\ Goto(t, "idle", u)
            /\ UNCHANGED <<accepter, created, userList, seated, lost, receive, send, exits,
                           releases, overlooked, fault>>

AccepterThread == Insert \/ PushIntoLobby \/ \E u \in Users : Initialize(u)

RemoveUser(t) == LeaveRoom(t) \/ Release(t) \/ Erase(t) \/ Delete(t)

WorkerThread(w) ==
  \/ \E u \in Users : TakeCompletion(w, u) \/ TakeSend(w, u)
  \/ PushPackage(w) \/ BindRecv(w) \/ FindUser(w) \/ RemoveUser(w)

LogicThread == C_SERVER_EXIT \/ RemoveUser(Logic)

Next ==
  \/ AccepterThread
  \/ \E u \in Users : Lose(u) \/ Complete(u, "exit") \/ Complete(u, "failed") \/ Post(u)
                      \/ FailSend(u)
  \/ \E w \in Workers : WorkerThread(w)
  \/ LogicThread

Spec == Init /\ [][Next]_vars

\* The threads run, and the system reports a lost connection to the receive
\* that waits on it.  A client need never leave.
FairSpec ==
  /\ Spec
  /\ WF_vars(Insert \/ PushIntoLobby)
  /\ \A w \in Workers : WF_vars(WorkerThread(w))
  /\ WF_vars(LogicThread)
  /\ \A u \in Users : WF_vars(Complete(u, "failed"))

-----------------------------------------------------------------------------
(* Properties.                                                              *)

\* Whoever finds a user in the list finds a live object: RemoveUser erases
\* before it deletes, and no thread puts a deleted user back, whichever
\* threads remove it at once.
ListedIsAllocated == userList \cap freed = {}

\* A user in the list whose connection is lost leaves the list, also when its
\* exit and the failures of its receive and its send are dealt with by several
\* threads at once, but for the two ways the code has to overlook a loss: it
\* looks for the user before the accepter has put it into the list, or it cannot
\* post the next receive.
LostUsersLeave ==
  \A u \in Users : (u \in userList \cap lost) ~> (u \notin userList \/ u \in overlooked \/ fault)

\* A user that leaves while its connection is up is released by one thread only.
NotReleasedTwice == \A u \in Users : u \in lost \/ releases[u] <= 1
=============================================================================

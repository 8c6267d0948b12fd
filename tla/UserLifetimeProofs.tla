------------------------- MODULE UserLifetimeProofs -------------------------
(***************************************************************************)
(* What survives the missing locks, for any number of users and workers:   *)
(* a user that is found in the list is allocated.                          *)
(***************************************************************************)
EXTENDS UserLifetime, TLAPS

InRemoval == {"leave", "release", "erase", "delete"}

\* Threads only ever hold users that were created; one that is about to delete
\* has taken its user out of the list.
ThreadsHoldUsers ==
  \A t \in Threads :
    /\ thread[t].pc # "idle" => thread[t].user \in created
    /\ thread[t].pc = "delete" => thread[t].user \notin userList

\* Nobody can find, and so remove, the user the accepter has yet to insert.
NewUserIsUnknown ==
  /\ accepter.pc # "idle" => accepter.user \in created
  /\ accepter.pc = "insert" =>
       /\ accepter.user \notin userList \cup freed
       /\ \A t \in Threads : thread[t].pc \in InRemoval => thread[t].user # accepter.user

\* A session with a receive or a send was created.
ReceivesAreKnown ==
  \A u \in Users : receive[u] # "none" \/ send[u] # "none" => u \in created

\* The list and the live users: the inductive invariant.
IInv ==
  /\ TypeOK
  /\ ListedIsAllocated
  /\ ThreadsHoldUsers
  /\ NewUserIsUnknown
  /\ ReceivesAreKnown

-----------------------------------------------------------------------------

LEMMA InitInv == Init => IInv
<1> SUFFICES ASSUME Init PROVE IInv  OBVIOUS
<1>1. TypeOK  BY DEF Init, TypeOK
<1>2. ListedIsAllocated  BY DEF Init, ListedIsAllocated
<1>3. ThreadsHoldUsers  BY DEF Init, ThreadsHoldUsers, Idle
<1>4. NewUserIsUnknown  BY DEF Init, NewUserIsUnknown, Idle
<1>5. ReceivesAreKnown  BY DEF Init, ReceivesAreKnown
<1> QED  BY <1>1, <1>2, <1>3, <1>4, <1>5 DEF IInv

\* A thread that goes somewhere with a created user: the others stay.
LEMMA GotoThread ==
  ASSUME TypeOK, NEW t \in Threads, NEW u \in created,
         NEW pc \in {"idle", "find", "leave", "release", "erase", "delete", "push", "bind"},
         Goto(t, pc, u)
  PROVE  /\ thread' \in [Threads -> Removing \cup {Idle}]
         /\ thread'[t].pc = pc
         /\ pc # "idle" => thread'[t].user = u
         /\ \A s \in Threads : s # t => thread'[s] = thread[s]
<1>1. u \in Users  BY DEF TypeOK
<1>2. CASE pc = "idle"
  BY <1>2 DEF Goto, TypeOK, Idle
<1>3. CASE pc # "idle"
  BY <1>1, <1>3 DEF Goto, TypeOK, Removing
<1> QED  BY <1>2, <1>3

\* A busy thread's user is known, and is not the one the accepter has yet to
\* insert if the thread is removing it.
LEMMA BusyThread ==
  ASSUME IInv, NEW t \in Threads, thread[t].pc # "idle"
  PROVE  /\ thread[t] \in Removing
         /\ thread[t].user \in created
         /\ thread[t].user \in Users
BY DEF IInv, TypeOK, ThreadsHoldUsers, Removing, Idle

\* Running into a deleted object changes no list.
LEMMA FaultInv == IInv /\ Fault => IInv'
BY DEF IInv, Fault, TypeOK, ListedIsAllocated, ThreadsHoldUsers, NewUserIsUnknown, InRemoval,
       ReceivesAreKnown

\* A step of one thread that changes neither the list nor what is allocated
\* keeps the invariant, if it may do what it goes on to do.
LEMMA ThreadMoves ==
  ASSUME IInv, TypeOK', ReceivesAreKnown', NEW t \in Threads, NEW u \in created,
         NEW pc \in {"idle", "find", "leave", "release", "erase", "push", "bind"},
         Goto(t, pc, u),
         UNCHANGED <<accepter, created, freed, userList>>,
         pc \in InRemoval => u \in userList \/ (thread[t].pc \in InRemoval /\ thread[t].user = u)
  PROVE  IInv'
<1> USE DEF IInv
<1>1. /\ thread'[t].pc = pc
      /\ pc # "idle" => thread'[t].user = u
      /\ \A s \in Threads : s # t => thread'[s] = thread[s]
  BY GotoThread
<1>2. ListedIsAllocated'  BY DEF ListedIsAllocated
<1>3. ThreadsHoldUsers'  BY <1>1 DEF ThreadsHoldUsers
<1>4. NewUserIsUnknown'
  BY <1>1 DEF NewUserIsUnknown, InRemoval
<1> QED  BY <1>2, <1>3, <1>4

-----------------------------------------------------------------------------
(* The accepter.                                                            *)

LEMMA AccepterInv ==
  ASSUME IInv, AccepterThread
  PROVE  IInv'
<1> USE DEF IInv
<1>1. ASSUME NEW u \in Users, Initialize(u) PROVE IInv'
  <2>1. /\ u \notin created /\ created' = created \cup {u}
        /\ accepter' = [pc |-> "insert", user |-> u]
        /\ UNCHANGED <<freed, userList, seated, lost, send, exits, thread, releases, overlooked, fault>>
    BY <1>1 DEF Initialize
  <2>2. TypeOK'
    BY <1>1, <2>1 DEF Initialize, TypeOK, Accepting
  <2>3. ListedIsAllocated' /\ ThreadsHoldUsers'
    BY <2>1 DEF ListedIsAllocated, ThreadsHoldUsers
  <2>5. ReceivesAreKnown'
    BY <1>1, <2>1 DEF Initialize, ReceivesAreKnown, TypeOK
  <2>4. NewUserIsUnknown'
    BY <2>1 DEF NewUserIsUnknown, ThreadsHoldUsers, TypeOK, InRemoval
  <2> QED  BY <2>2, <2>3, <2>4, <2>5
<1>2. CASE Insert
  <2> DEFINE u == accepter.user
  <2>1. /\ accepter.pc = "insert" /\ accepter' = [accepter EXCEPT !.pc = "lobby"]
        /\ userList' = userList \cup {u}
        /\ UNCHANGED <<created, freed, seated, lost, receive, send, exits, thread, releases,
                     overlooked, fault>>
    BY <1>2 DEF Insert
  <2>2. accepter \in Accepting /\ u \in Users  BY <2>1 DEF TypeOK, Accepting, Idle
  <2>3. accepter' \in Accepting /\ accepter'.pc = "lobby"  BY <2>1, <2>2 DEF Accepting
  <2>4. u \in created  BY <2>1 DEF NewUserIsUnknown
  <2>5. TypeOK'  BY <2>1, <2>3, <2>4 DEF TypeOK
  <2>6. ListedIsAllocated'  BY <2>1 DEF ListedIsAllocated, NewUserIsUnknown
  <2>7. ThreadsHoldUsers'
    BY <2>1 DEF ThreadsHoldUsers, NewUserIsUnknown, InRemoval
  <2>8. NewUserIsUnknown'  BY <2>1, <2>3, <2>4 DEF NewUserIsUnknown, Accepting
  <2>9. ReceivesAreKnown'  BY <2>1 DEF ReceivesAreKnown
  <2> QED  BY <2>5, <2>6, <2>7, <2>8, <2>9
<1>3. CASE PushIntoLobby
  <2>1. /\ accepter.pc = "lobby" /\ accepter' = Idle
        /\ seated' = seated \cup {accepter.user}
        /\ UNCHANGED <<created, freed, userList, lost, receive, send, exits, thread, releases,
                     overlooked, fault>>
    BY <1>3 DEF PushIntoLobby
  <2>2. accepter.user \in created  BY <2>1 DEF NewUserIsUnknown
  <2>3. TypeOK'  BY <2>1, <2>2 DEF TypeOK
  <2>4. ListedIsAllocated' /\ ThreadsHoldUsers' /\ ReceivesAreKnown'
    BY <2>1 DEF ListedIsAllocated, ThreadsHoldUsers, ReceivesAreKnown
  <2>5. accepter'.pc = "idle"  BY <2>1 DEF Idle
  <2>6. NewUserIsUnknown'  BY <2>5 DEF NewUserIsUnknown
  <2> QED  BY <2>3, <2>4, <2>6
<1> QED  BY <1>1, <1>2, <1>3 DEF AccepterThread

-----------------------------------------------------------------------------
(* The threads.                                                             *)

LEMMA TakeCompletionInv ==
  ASSUME IInv, NEW w \in Workers, NEW u \in Users, TakeCompletion(w, u)
  PROVE  IInv'
<1> DEFINE pc == IF receive[u] = "failed" THEN "find" ELSE "push"
<1>1. CASE Fault  BY <1>1, FaultInv
<1>2. CASE ~Fault
  <2>1. /\ receive[u] \in {"exit", "failed"} /\ Goto(w, pc, u)
        /\ receive' = [receive EXCEPT ![u] = "none"]
        /\ UNCHANGED <<accepter, created, freed, userList, seated, lost, send, exits, releases,
                     overlooked, fault>>
    BY <1>2 DEF TakeCompletion, MayFault
  <2>2. w \in Threads /\ u \in created  BY <2>1 DEF Threads, IInv, ReceivesAreKnown
  <2>3. thread' \in [Threads -> Removing \cup {Idle}]  BY <2>1, <2>2, GotoThread DEF IInv
  <2>4. TypeOK' /\ ReceivesAreKnown'  BY <2>1, <2>3 DEF IInv, TypeOK, ReceivesAreKnown
  <2>5. pc \notin InRemoval  BY DEF InRemoval
  <2> QED  BY <2>1, <2>2, <2>4, <2>5, ThreadMoves
<1> QED  BY <1>1, <1>2

LEMMA TakeSendInv ==
  ASSUME IInv, NEW w \in Workers, NEW u \in created, TakeSend(w, u)
  PROVE  IInv'
<1>1. CASE Fault  BY <1>1, FaultInv
<1>2. CASE ~Fault
  <2>1. /\ Goto(w, "find", u)
        /\ send' = [send EXCEPT ![u] = "taken"]
        /\ UNCHANGED <<accepter, created, freed, userList, seated, lost, receive, exits, releases,
                       overlooked, fault>>
    BY <1>2 DEF TakeSend, MayFault
  <2>2. w \in Threads  BY DEF Threads
  <2>3. thread' \in [Threads -> Removing \cup {Idle}]  BY <2>1, <2>2, GotoThread DEF IInv
  <2>4. TypeOK' /\ ReceivesAreKnown'  BY <2>1, <2>3 DEF IInv, TypeOK, ReceivesAreKnown
  <2> QED  BY <2>1, <2>2, <2>4, ThreadMoves DEF InRemoval
<1> QED  BY <1>1, <1>2

LEMMA WorkerInv ==
  ASSUME IInv, NEW w \in Workers, PushPackage(w) \/ BindRecv(w) \/ FindUser(w)
  PROVE  IInv'
<1> DEFINE u == thread[w].user
<1> w \in Threads  BY DEF Threads
<1>0. thread[w].pc # "idle"  BY DEF PushPackage, BindRecv, FindUser, At
<1>1. u \in created  BY <1>0, BusyThread
<1>2. CASE PushPackage(w)
  <2>1. Goto(w, "bind", u) /\ exits' = exits \cup {u}
        /\ UNCHANGED <<accepter, created, freed, userList, seated, lost, receive, send, releases,
                       overlooked, fault>>
    BY <1>2 DEF PushPackage
  <2>2. thread' \in [Threads -> Removing \cup {Idle}]  BY <1>1, <2>1, GotoThread DEF IInv
  <2>3. TypeOK' /\ ReceivesAreKnown'  BY <1>1, <2>1, <2>2 DEF IInv, TypeOK, ReceivesAreKnown
  <2> QED  BY <1>1, <2>1, <2>3, ThreadMoves DEF InRemoval
<1>3. CASE BindRecv(w)
  <2>1. CASE Fault  BY <2>1, FaultInv
  <2>2. CASE ~Fault
    <3>1. /\ Goto(w, "idle", u)
          /\ receive' = [receive EXCEPT ![u] = "outstanding"] \/ UNCHANGED receive
          /\ overlooked' = overlooked \/ overlooked' = overlooked \cup {u}
          /\ UNCHANGED <<accepter, created, freed, userList, seated, lost, send, exits, releases,
                         fault>>
      BY <1>3, <2>2 DEF BindRecv, MayFault
    <3>2. thread' \in [Threads -> Removing \cup {Idle}]  BY <1>1, <3>1, GotoThread DEF IInv
    <3>3. TypeOK' /\ ReceivesAreKnown'  BY <1>1, <3>1, <3>2 DEF IInv, TypeOK, ReceivesAreKnown
    <3> QED  BY <1>1, <3>1, <3>3, ThreadMoves DEF InRemoval
  <2> QED  BY <2>1, <2>2
<1>4. CASE FindUser(w)
  <2> DEFINE pc == IF u \in userList THEN "leave" ELSE "idle"
  <2>1. /\ Goto(w, pc, u)
        /\ overlooked' = overlooked \/ overlooked' = overlooked \cup {u}
        /\ UNCHANGED <<accepter, created, freed, userList, seated, lost, receive, send, exits,
                       releases, fault>>
    BY <1>4 DEF FindUser
  <2>2. thread' \in [Threads -> Removing \cup {Idle}]  BY <1>1, <2>1, GotoThread DEF IInv
  <2>5. overlooked' \subseteq created  BY <1>1, <2>1 DEF IInv, TypeOK
  <2>3. TypeOK' /\ ReceivesAreKnown'
    BY <2>1, <2>2, <2>5 DEF IInv, TypeOK, ReceivesAreKnown
  <2>4. pc \in InRemoval => u \in userList  BY DEF InRemoval
  <2> QED  BY <1>1, <2>1, <2>3, <2>4, ThreadMoves
<1> QED  BY <1>2, <1>3, <1>4

LEMMA ServerExitInv ==
  ASSUME IInv, C_SERVER_EXIT
  PROVE  IInv'
<1>1. CASE Fault  BY <1>1, FaultInv
<1>2. CASE ~Fault
  <2>1. PICK u \in exits :
          /\ u \in userList /\ exits' = exits \ {u} /\ Goto(Logic, "leave", u)
          /\ UNCHANGED <<accepter, created, freed, userList, seated, lost, receive, send, releases,
                         overlooked, fault>>
    BY <1>2 DEF C_SERVER_EXIT
  <2>2. Logic \in Threads /\ u \in created  BY DEF Threads, IInv, TypeOK
  <2>3. thread' \in [Threads -> Removing \cup {Idle}]  BY <2>1, <2>2, GotoThread DEF IInv
  <2>4. TypeOK' /\ ReceivesAreKnown'  BY <2>1, <2>3 DEF IInv, TypeOK, ReceivesAreKnown
  <2> QED  BY <2>1, <2>2, <2>4, ThreadMoves
<1> QED  BY <1>1, <1>2

LEMMA RemoveUserInv ==
  ASSUME IInv, NEW t \in Threads, RemoveUser(t)
  PROVE  IInv'
<1> DEFINE u == thread[t].user
<1>0. thread[t].pc \in InRemoval
  BY DEF RemoveUser, LeaveRoom, Release, Erase, Delete, At, InRemoval
<1>1. u \in created /\ u \in Users  BY <1>0, BusyThread DEF InRemoval
<1>2. CASE Fault  BY <1>2, FaultInv
<1>3. CASE LeaveRoom(t) /\ ~Fault
  <2>1. /\ seated' = seated \ {u} /\ Goto(t, "release", u)
        /\ UNCHANGED <<accepter, created, freed, userList, lost, receive, send, exits, releases,
                       overlooked, fault>>
    BY <1>3 DEF LeaveRoom, MayFault
  <2>2. thread' \in [Threads -> Removing \cup {Idle}]  BY <1>1, <2>1, GotoThread DEF IInv
  <2>3. TypeOK' /\ ReceivesAreKnown'  BY <2>1, <2>2 DEF IInv, TypeOK, ReceivesAreKnown
  <2> QED  BY <1>0, <1>1, <2>1, <2>3, ThreadMoves
<1>4. CASE Release(t) /\ ~Fault
  <2>1. /\ receive' = [receive EXCEPT ![u] = IF @ = "outstanding" THEN "failed" ELSE @]
        /\ releases' = [releases EXCEPT ![u] = @ + 1]
        /\ Goto(t, "erase", u)
        /\ UNCHANGED <<accepter, created, freed, userList, seated, lost, send, exits, overlooked,
                       fault>>
    BY <1>4 DEF Release, MayFault
  <2>2. thread' \in [Threads -> Removing \cup {Idle}]  BY <1>1, <2>1, GotoThread DEF IInv
  <2>3. releases' \in [Users -> Nat]  BY <1>1, <2>1 DEF IInv, TypeOK
  <2>4. TypeOK' /\ ReceivesAreKnown'  BY <1>1, <2>1, <2>2, <2>3 DEF IInv, TypeOK, ReceivesAreKnown
  <2> QED  BY <1>0, <1>1, <2>1, <2>4, ThreadMoves
<1>5. CASE Erase(t)
  <2>1. /\ userList' = userList \ {u} /\ Goto(t, "delete", u)
        /\ UNCHANGED <<accepter, created, freed, seated, lost, receive, send, exits, releases,
                       overlooked, fault>>
    BY <1>5 DEF Erase
  <2>2. /\ thread' \in [Threads -> Removing \cup {Idle}]
        /\ thread'[t].pc = "delete" /\ thread'[t].user = u
        /\ \A s \in Threads : s # t => thread'[s] = thread[s]
    BY <1>1, <2>1, GotoThread DEF IInv
  <2>3. TypeOK'  BY <2>1, <2>2 DEF IInv, TypeOK
  <2>4. ListedIsAllocated' /\ ReceivesAreKnown'  BY <2>1 DEF IInv, ListedIsAllocated, ReceivesAreKnown
  <2>5. ThreadsHoldUsers'  BY <1>1, <2>1, <2>2 DEF IInv, ThreadsHoldUsers
  <2>6. NewUserIsUnknown'
    BY <1>0, <2>1, <2>2 DEF IInv, NewUserIsUnknown, InRemoval
  <2> QED  BY <2>3, <2>4, <2>5, <2>6 DEF IInv
<1>6. CASE Delete(t) /\ ~Fault
  <2>1. /\ thread[t].pc = "delete" /\ freed' = freed \cup {u} /\ Goto(t, "idle", u)
        /\ UNCHANGED <<accepter, created, userList, seated, lost, receive, send, exits, releases,
                       overlooked, fault>>
    BY <1>6 DEF Delete, At
  <2>2. /\ thread' \in [Threads -> Removing \cup {Idle}]
        /\ thread'[t].pc = "idle"
        /\ \A s \in Threads : s # t => thread'[s] = thread[s]
    BY <1>1, <2>1, GotoThread DEF IInv
  <2>3. u \notin userList  BY <2>1 DEF IInv, ThreadsHoldUsers
  <2>4. TypeOK'  BY <1>1, <2>1, <2>2 DEF IInv, TypeOK
  <2>5. ListedIsAllocated' /\ ReceivesAreKnown'  BY <2>1, <2>3 DEF IInv, ListedIsAllocated, ReceivesAreKnown
  <2>6. ThreadsHoldUsers'  BY <2>1, <2>2 DEF IInv, ThreadsHoldUsers
  <2>7. NewUserIsUnknown'
    BY <1>0, <2>1, <2>2 DEF IInv, NewUserIsUnknown, InRemoval
  <2> QED  BY <2>4, <2>5, <2>6, <2>7 DEF IInv
<1> QED  BY <1>2, <1>3, <1>4, <1>5, <1>6 DEF RemoveUser

-----------------------------------------------------------------------------
(* The theorem.                                                             *)

LEMMA InvStep == IInv /\ [Next]_vars => IInv'
<1> SUFFICES ASSUME IInv, [Next]_vars PROVE IInv'  OBVIOUS
<1>1. CASE UNCHANGED vars
  BY <1>1 DEF vars, IInv, TypeOK, ListedIsAllocated, ThreadsHoldUsers, NewUserIsUnknown,
       ReceivesAreKnown
<1>2. CASE AccepterThread  BY <1>2, AccepterInv
<1>3. ASSUME NEW u \in Users,
             Lose(u) \/ Complete(u, "exit") \/ Complete(u, "failed") \/ Post(u) \/ FailSend(u)
      PROVE  IInv'
  BY <1>3 DEF Lose, Complete, Post, FailSend, IInv, TypeOK, ListedIsAllocated, ThreadsHoldUsers, NewUserIsUnknown,
       ReceivesAreKnown
<1>4. ASSUME NEW w \in Workers, WorkerThread(w) PROVE IInv'
  <2>1. w \in Threads  BY DEF Threads
  <2>2. ASSUME NEW u \in Users, TakeSend(w, u) PROVE IInv'
    <3>1. u \in created  BY <2>2 DEF TakeSend, IInv, ReceivesAreKnown
    <3> QED  BY <2>2, <3>1, TakeSendInv
  <2> QED  BY <1>4, <2>1, <2>2, TakeCompletionInv, WorkerInv, RemoveUserInv DEF WorkerThread
<1>5. CASE LogicThread
  <2>1. Logic \in Threads  BY DEF Threads
  <2> QED  BY <1>5, <2>1, ServerExitInv, RemoveUserInv DEF LogicThread
<1> QED  BY <1>1, <1>2, <1>3, <1>4, <1>5 DEF Next

\* The invariant holds whatever the threads and the allocator do.
THEOREM Invariance == Spec => []IInv
<1>1. Init => IInv  BY InitInv
<1>2. IInv /\ [Next]_vars => IInv'  BY InvStep
<1> QED  BY <1>1, <1>2, PTL DEF Spec

\* Types of the threads, the list and the users, whatever is allocated again.
THEOREM TypeCorrect == Spec => []TypeOK
<1>1. IInv => TypeOK  BY DEF IInv
<1> QED  BY <1>1, Invariance, PTL

\* A user that UserManager::userList_ holds is not deleted, whichever threads
\* create and remove users at once: RemoveUser erases before it deletes.
THEOREM ListHoldsLiveUsers == Spec => []ListedIsAllocated
<1>1. IInv => ListedIsAllocated  BY DEF IInv
<1> QED  BY <1>1, Invariance, PTL
=============================================================================

----------------------------- MODULE ClientPool -----------------------------
(***************************************************************************)
(* The v1.0 server's pool of client slots: the accepter takes a slot for a *)
(* socket, the workers return it when the connection ends, the packet      *)
(* thread closes a socket it cannot send to.  A slot's socket is read and  *)
(* written by all of them without a lock; the queue of empty slots and the *)
(* number of clients each have a lock of their own.                        *)
(*                                                                         *)
(* Trouble is what the ownership of slots does not survive in this code: a *)
(* send that fails, or the close that answers SERVER_EXIT, completes       *)
(* beside the failed receive, so that two workers may return the slot; and *)
(* a call that fails at once closes the slot without returning it.  The    *)
(* counting survives all but a slot the accepter took and could not        *)
(* connect.                                                                *)
(***************************************************************************)
EXTENDS Integers, Sequences, FiniteSets

CONSTANTS
  MaxClientCount,  \* MAX_CLIENT
  Connections,     \* bound on the connections clients make; a socket's number
                   \* says when it was accepted
  Workers,         \* the worker threads
  Accepter,        \* the accepter thread
  PacketThread,    \* the thread that sends
  MaxTrouble,      \* bound on trouble
  InTrouble,       \* bound on the connections made before and after trouble, and on those
                   \* made before a send (which later could not fail without trouble)
  MaxSending       \* bound on the sockets with a send under way

ASSUME CapacityAssumption == MaxClientCount \in Nat /\ MaxClientCount >= 4
ASSUME ThreadsAssumption == /\ IsFiniteSet(Workers)
                            /\ Accepter \notin Workers /\ PacketThread \notin Workers
                            /\ Accepter # PacketThread
                            /\ {Connections, MaxTrouble, InTrouble, MaxSending} \subseteq Nat

VARIABLES
  mCurrentCapacity, mEmptyClients, mClientCount,
  m_socketClient,  \* the socket of a slot
  key,             \* the slot a socket's completions are for
  link,            \* away, then open, then gone (by the peer) or closed (by the server)
  posted,          \* receives waiting on a socket
  sending,         \* sockets with a send under way
  done,            \* completions of a socket nobody has dequeued, of each kind
  trouble,         \* how often a client sent SERVER_EXIT, a call failed at once, or a send failed
  refused,         \* how many slots the accepter took and did not connect
  mPacketQueue,    \* slots whose SERVER_EXIT is to be answered
  at,              \* a thread's next step, the slot it is about, and what follows Close
  newSocket        \* the socket accept returned

poolVars == <<mCurrentCapacity, mEmptyClients, mClientCount>>
netVars == <<key, link, posted, sending, done>>
exitVars == <<trouble, mPacketQueue>>
vars == <<poolVars, m_socketClient, netVars, exitVars, refused, at, newSocket>>

INVALID_SOCKET == 0
Sockets == 1..Connections
Slots == 0..(MaxClientCount - 1)
Threads == Workers \cup {Accepter, PacketThread}
Kinds == {"RECV", "FAIL", "CLOSE"}
MaxWaiting == 2   \* bound on receives waiting and completions of a kind

Idle == [step |-> "idle", slot |-> 0, then |-> "idle"]

Init ==
  /\ mCurrentCapacity = MaxClientCount \div 4
  /\ mEmptyClients = [i \in 1..(MaxClientCount \div 4) |-> i - 1]
  /\ mClientCount = 0
  /\ m_socketClient = [i \in Slots |-> INVALID_SOCKET]
  /\ key = [s \in Sockets |-> 0]
  /\ link = [s \in Sockets |-> "away"]
  /\ posted = [s \in Sockets |-> 0] /\ sending = {}
  /\ done = [s \in Sockets |-> [k \in Kinds |-> 0]]
  /\ trouble = 0 /\ refused = 0 /\ mPacketQueue = <<>>
  /\ at = [t \in Threads |-> Idle]
  /\ newSocket = INVALID_SOCKET

IsConnected(i) == m_socketClient[i] # INVALID_SOCKET

\* A call on slot i's socket finds one to work on, and may find none.
Works(i) == IsConnected(i) /\ link[m_socketClient[i]] # "closed"

\* Trouble, and what may lead to it, is bounded to the first connections.
Early == \A s \in Sockets : s > InTrouble => link[s] = "away"

Trouble ==
  /\ trouble < MaxTrouble /\ Early
  /\ trouble' = trouble + 1

\* A call fails at once: the slot has no socket to work on, or the peer is gone.
Fails(i) ==
  \/ Works(i) /\ link[m_socketClient[i]] = "gone" /\ Trouble
  \/ ~Works(i) /\ Trouble
  \/ ~Works(i) /\ trouble > 0 /\ UNCHANGED trouble

Go(t, step, i, then) ==
  at' = [at EXCEPT ![t] = IF step = "idle" THEN Idle
                                           ELSE [step |-> step, slot |-> i, then |-> then]]
Goto(t, step) == Go(t, step, at[t].slot, at[t].then)
Call(t, step, then) == Go(t, step, at[t].slot, then)

-----------------------------------------------------------------------------
(* Clients and the network.                                                 *)

Leave(s) ==
  /\ link[s] = "open"
  /\ link' = [link EXCEPT ![s] = "gone"]
  /\ UNCHANGED <<poolVars, m_socketClient, key, posted, sending, done, exitVars, refused, at,
                 newSocket>>

\* A receive ends with data while the connection is up, and without when it ended.
Complete(s) ==
  /\ posted[s] > 0
  /\ LET k == IF link[s] = "open" THEN "RECV" ELSE "FAIL"
     IN  done[s][k] < MaxWaiting /\ done' = [done EXCEPT ![s][k] = @ + 1]
  /\ posted' = [posted EXCEPT ![s] = @ - 1]
  /\ UNCHANGED <<poolVars, m_socketClient, key, link, sending, exitVars, refused, at, newSocket>>

\* A send ends.  Of one that succeeded nothing remains to be done but to free
\* its buffer; one that fails, the connection having ended, is a failed
\* completion like that of a receive.
CompleteSend(s) ==
  /\ s \in sending
  /\ sending' = sending \ {s}
  /\ \/ UNCHANGED <<trouble, done>>
     \/ /\ link[s] # "open" /\ Trouble
        /\ done[s]["FAIL"] < MaxWaiting /\ done' = [done EXCEPT ![s]["FAIL"] = @ + 1]
  /\ UNCHANGED <<poolVars, m_socketClient, key, link, posted, mPacketQueue, refused, at, newSocket>>

-----------------------------------------------------------------------------
(* stClientInfo::Close, of any thread: the socket is closed, then forgotten. *)
(* It returns at once when the slot has none.                               *)

Close(t) ==
  /\ at[t].step = "close"
  /\ IF IsConnected(at[t].slot)
     THEN /\ link' = [link EXCEPT ![m_socketClient[at[t].slot]] = "closed"]
          /\ Goto(t, "initialize")
     ELSE Goto(t, at[t].then) /\ UNCHANGED link
  /\ UNCHANGED <<poolVars, m_socketClient, key, posted, sending, done, exitVars, refused, newSocket>>

Initialize(t) ==
  /\ at[t].step = "initialize"
  /\ m_socketClient' = [m_socketClient EXCEPT ![at[t].slot] = INVALID_SOCKET]
  /\ Goto(t, at[t].then)
  /\ UNCHANGED <<poolVars, netVars, exitVars, refused, newSocket>>

\* BindRecv: WSARecv on whatever socket the slot has now; Close when it fails.
BindRecv(t, success, failure) ==
  LET s == m_socketClient[at[t].slot]
  IN  \/ /\ Works(at[t].slot) /\ posted[s] < MaxWaiting
         /\ posted' = [posted EXCEPT ![s] = @ + 1]
         /\ Goto(t, success)
         /\ UNCHANGED trouble
      \/ /\ Fails(at[t].slot)
         /\ Call(t, "close", failure)
         /\ UNCHANGED posted

-----------------------------------------------------------------------------
(* The accepter: CreateClient.                                              *)

Accept(s) ==
  /\ at[Accepter].step = "idle" /\ link[s] = "away"
  /\ trouble > 0 => s <= InTrouble
  /\ \A r \in 1..(s - 1) : link[r] # "away"
  /\ link' = [link EXCEPT ![s] = "open"]
  /\ newSocket' = s
  /\ Goto(Accepter, "getEmpty")
  /\ UNCHANGED <<poolVars, m_socketClient, key, posted, sending, done, exitVars, refused>>

Full == mClientCount = MaxClientCount

\* The pool after the accepter has made room: twice the slots, when all are counted.
Smaller(m, n) == IF m < n THEN m ELSE n

NewCapacity ==
  IF mClientCount = mCurrentCapacity THEN Smaller(mCurrentCapacity * 2, MaxClientCount)
                                     ELSE mCurrentCapacity

\* Mutation: the new slots are numbered one too high.
WithNewSlots_OneHigh ==
  mEmptyClients \o [i \in 1..(NewCapacity - mCurrentCapacity) |-> mCurrentCapacity + i]

WithNewSlots ==
  mEmptyClients \o [i \in 1..(NewCapacity - mCurrentCapacity) |-> mCurrentCapacity + i - 1]

GetEmptyClient ==
  /\ at[Accepter].step = "getEmpty" /\ ~Full /\ WithNewSlots # <<>>
  /\ mCurrentCapacity' = NewCapacity
  /\ mEmptyClients' = Tail(WithNewSlots)
  /\ Go(Accepter, "connect", Head(WithNewSlots), "idle")
  /\ UNCHANGED <<mClientCount, m_socketClient, netVars, exitVars, refused, newSocket>>

\* "Client Full", or the client could not be connected: its socket is closed.
Refuse ==
  /\ at[Accepter].step = "refuse" \/ (at[Accepter].step = "getEmpty" /\ Full)
  /\ link' = [link EXCEPT ![newSocket] = "closed"]
  /\ refused' = IF at[Accepter].step = "refuse" THEN refused + 1 ELSE refused
  /\ Goto(Accepter, "idle") /\ newSocket' = INVALID_SOCKET
  /\ UNCHANGED <<poolVars, m_socketClient, key, posted, sending, done, exitVars>>

Connect ==
  /\ at[Accepter].step = "connect"
  /\ m_socketClient' = [m_socketClient EXCEPT ![at[Accepter].slot] = newSocket]
  /\ key' = [key EXCEPT ![newSocket] = at[Accepter].slot]
  /\ Goto(Accepter, "bindRecv")
  /\ UNCHANGED <<poolVars, link, posted, sending, done, exitVars, refused, newSocket>>

FirstRecv ==
  /\ at[Accepter].step = "bindRecv"
  /\ BindRecv(Accepter, "count", "refuse")
  /\ UNCHANGED <<poolVars, m_socketClient, key, link, sending, done, mPacketQueue, refused, newSocket>>

CountClient ==
  /\ at[Accepter].step = "count"
  /\ mClientCount' = mClientCount + 1
  /\ Goto(Accepter, "idle") /\ newSocket' = INVALID_SOCKET
  /\ UNCHANGED <<mCurrentCapacity, mEmptyClients, m_socketClient, netVars, exitVars, refused>>

AccepterThread ==
  \/ GetEmptyClient \/ Refuse \/ Connect \/ FirstRecv \/ CountClient
  \/ Close(Accepter) \/ Initialize(Accepter)

-----------------------------------------------------------------------------
(* The workers.                                                             *)

\* A completion is for a slot, whoever has it now.
Dequeue(w, s, kind, step) ==
  /\ at[w].step = "idle" /\ done[s][kind] > 0
  /\ done' = [done EXCEPT ![s][kind] = @ - 1]
  /\ Go(w, step, key[s], "idle")
  /\ UNCHANGED <<poolVars, m_socketClient, key, link, posted, sending, refused, newSocket>>

\* Mutation: the next receive is posted before the data is handled, and after.
Receive_RecvsFirst(w, s) ==
  /\ at[w].step = "idle" /\ done[s]["RECV"] > 0
  /\ done' = [done EXCEPT ![s]["RECV"] = @ - 1]
  /\ posted' = [posted EXCEPT ![s] = @ + 1]
  /\ Go(w, "bindRecv", key[s], "idle")
  /\ UNCHANGED <<poolVars, m_socketClient, key, link, sending, exitVars, refused, newSocket>>

\* OnReceive: a packet is queued for the packet thread.  Of SERVER_EXIT the queue
\* here keeps whose it is; what any other leads to is a send to some clients,
\* now or later (SendMsg).
Receive(w, s) ==
  /\ Dequeue(w, s, "RECV", "bindRecv")
  /\ \/ UNCHANGED exitVars
     \/ /\ Trouble
        /\ mPacketQueue' = Append(mPacketQueue, key[s])

RecvAgain(w) ==
  /\ at[w].step = "bindRecv" /\ w \in Workers
  /\ BindRecv(w, "idle", "idle")
  /\ UNCHANGED <<poolVars, m_socketClient, key, link, sending, done, mPacketQueue, refused, newSocket>>

\* A completion that failed, of whatever operation, and the end of the send that
\* answers SERVER_EXIT close the client.
CloseCompletion(w, s) ==
  /\ \E kind \in {"FAIL", "CLOSE"} : Dequeue(w, s, kind, "closeClient")
  /\ UNCHANGED exitVars

\* Mutation: the slot is returned before its socket is closed.
CloseClient_PushesFirst(w) ==
  /\ at[w].step = "closeClient"
  /\ IF IsConnected(at[w].slot)
     THEN /\ Call(w, "close", "uncount")
          /\ mEmptyClients' = Append(mEmptyClients, at[w].slot)
     ELSE Goto(w, "idle") /\ UNCHANGED mEmptyClients
  /\ UNCHANGED <<mCurrentCapacity, mClientCount, m_socketClient, netVars, exitVars, refused, newSocket>>

\* Mutation: the socket is closed, and the slot not returned.
CloseClient_KeepsSlot(w) ==
  /\ at[w].step = "closeClient"
  /\ IF IsConnected(at[w].slot)
     THEN Call(w, "close", "uncount")
     ELSE Goto(w, "idle")
  /\ UNCHANGED <<poolVars, m_socketClient, netVars, exitVars, refused, newSocket>>

CloseClient(w) ==
  /\ at[w].step = "closeClient"
  /\ IF IsConnected(at[w].slot)
     THEN Call(w, "close", "push")
     ELSE Goto(w, "idle")
  /\ UNCHANGED <<poolVars, m_socketClient, netVars, exitVars, refused, newSocket>>

\* Mutation: the client is uncounted before its slot is pushed.
ReturnSlot_UncountsFirst(w) ==
  /\ at[w].step \in {"push", "uncount"}
  /\ IF at[w].step = "push"
     THEN mClientCount' = mClientCount - 1 /\ Goto(w, "uncount") /\ UNCHANGED mEmptyClients
     ELSE /\ mEmptyClients' = Append(mEmptyClients, at[w].slot)
          /\ Goto(w, "idle") /\ UNCHANGED mClientCount
  /\ UNCHANGED <<mCurrentCapacity, m_socketClient, netVars, exitVars, refused, newSocket>>

\* The slot is pushed under one lock, the client uncounted under another.
ReturnSlot(w) ==
  /\ \/ /\ at[w].step = "push" /\ Len(mEmptyClients) < 2 * MaxClientCount
        /\ mEmptyClients' = Append(mEmptyClients, at[w].slot)
        /\ Goto(w, "uncount") /\ UNCHANGED mClientCount
     \/ /\ at[w].step = "uncount"
        /\ mClientCount' = mClientCount - 1
        /\ Goto(w, "idle") /\ UNCHANGED mEmptyClients
  /\ UNCHANGED <<mCurrentCapacity, m_socketClient, netVars, exitVars, refused, newSocket>>

WorkerThread(w) ==
  \/ \E s \in Sockets : Receive(w, s) \/ CloseCompletion(w, s)
  \/ RecvAgain(w) \/ CloseClient(w) \/ ReturnSlot(w)
  \/ Close(w) \/ Initialize(w)

-----------------------------------------------------------------------------
(* The packet thread: UniCast, BroadCast and MultiCast send to slots one by *)
(* one.  Whom is in ChatServerV1: here it may be any slot, connected or,    *)
(* by UniCast, which does not look, not.  MultiCast answers SERVER_EXIT to  *)
(* its sender, if that is connected, with a send that closes the client     *)
(* when it completes.                                                       *)

Exits ==
  /\ at[PacketThread].step = "idle" /\ mPacketQueue # <<>>
  /\ mPacketQueue' = Tail(mPacketQueue)
  /\ Go(PacketThread, IF IsConnected(Head(mPacketQueue)) THEN "send" ELSE "idle",
        Head(mPacketQueue), "idle")
  /\ UNCHANGED <<poolVars, m_socketClient, netVars, trouble, refused, newSocket>>

\* WSASend on whatever socket the slot has now; Close when it fails at once.
SendMsg ==
  /\ at[PacketThread].step = "idle"
  /\ \E i \in Slots :
       /\ i < mCurrentCapacity
       /\ \/ /\ Works(i) /\ Early /\ Cardinality(sending) < MaxSending
             /\ sending' = sending \cup {m_socketClient[i]}
             /\ UNCHANGED <<trouble, at>>
          \/ /\ Fails(i)
             /\ Go(PacketThread, "close", i, "idle")
             /\ UNCHANGED sending
  /\ UNCHANGED <<poolVars, m_socketClient, key, link, posted, done, mPacketQueue, refused, newSocket>>

\* The answer to SERVER_EXIT: its completion, failed or not, closes the client.
SendClose ==
  LET i == at[PacketThread].slot
      s == m_socketClient[i]
  IN  /\ at[PacketThread].step = "send"
      /\ \/ /\ Works(i) /\ done[s]["CLOSE"] < MaxWaiting
            /\ done' = [done EXCEPT ![s]["CLOSE"] = @ + 1]
            /\ Goto(PacketThread, "idle")
            /\ UNCHANGED trouble
         \/ /\ Fails(i)
            /\ Call(PacketThread, "close", "idle")
            /\ UNCHANGED done
      /\ UNCHANGED <<poolVars, m_socketClient, key, link, posted, sending, mPacketQueue, refused,
                     newSocket>>

Sender == SendMsg \/ Exits \/ SendClose \/ Close(PacketThread) \/ Initialize(PacketThread)

-----------------------------------------------------------------------------
Next ==
  \/ \E s \in Sockets : Accept(s) \/ Leave(s) \/ Complete(s) \/ CompleteSend(s)
  \/ AccepterThread \/ Sender
  \/ \E w \in Workers : WorkerThread(w)

Spec == Init /\ [][Next]_vars

-----------------------------------------------------------------------------
(* Properties.                                                              *)

\* Types of every variable.
TypeOK ==
  /\ mCurrentCapacity \in 1..MaxClientCount
  /\ mEmptyClients \in Seq(Slots)
  /\ mClientCount \in Int
  /\ m_socketClient \in [Slots -> Sockets \cup {INVALID_SOCKET}]
  /\ key \in [Sockets -> Slots]
  /\ link \in [Sockets -> {"away", "open", "gone", "closed"}]
  /\ posted \in [Sockets -> 0..MaxWaiting] /\ sending \subseteq Sockets
  /\ done \in [Sockets -> [Kinds -> 0..MaxWaiting]]
  /\ trouble \in 0..MaxTrouble /\ refused \in Nat /\ mPacketQueue \in Seq(Slots)
  /\ at \in [Threads -> [step : {"idle", "getEmpty", "connect", "bindRecv", "count", "refuse",
                                "closeClient", "close", "initialize", "push", "uncount", "send"},
                       slot : Slots, then : {"idle", "push", "uncount", "refuse"}]]
  /\ newSocket \in Sockets \cup {INVALID_SOCKET}

\* No client has sent SERVER_EXIT, and no call failed but the receive that ends a
\* connection.
Calm == trouble = 0

\* A slot is in one place: in the queue of empty ones, in the accepter's hands,
\* with a client, or in the hands of the one worker that returns it.
SlotsExact ==
  Calm => \A i \in 0..(mCurrentCapacity - 1) :
    1 = Cardinality({k \in DOMAIN mEmptyClients : mEmptyClients[k] = i})
          + Cardinality({w \in Workers : at[w].step = "push" /\ at[w].slot = i})
          + (IF at[Accepter].step = "connect" /\ at[Accepter].slot = i THEN 1 ELSE 0)
          + (IF IsConnected(i) THEN 1 ELSE 0)

\* The accepter has a slot that is neither in the queue nor counted.
InHand == IF at[Accepter].step \in {"idle", "getEmpty"} THEN 0 ELSE 1

\* In trouble or not, with slots returned twice or closed and not returned, the
\* number of clients and the queue of empty slots, under locks of their own,
\* differ only by the clients the threads are about to count or uncount and the
\* slots the accepter took and did not connect.
CountExact ==
  mCurrentCapacity - Len(mEmptyClients) =
    mClientCount - Cardinality({w \in Workers : at[w].step = "uncount"}) + InHand + refused

\* As long as the accepter has lost no slot so, it never takes the front of an
\* empty queue, however far the count lags behind the queue.
FrontExists == refused = 0 /\ at[Accepter].step = "getEmpty" /\ ~Full => WithNewSlots # <<>>

\* "There must be exactly one recv call per socket": until trouble comes never two
\* wait on one.
OneReceive == Calm => \A s \in Sockets : posted[s] <= 1

\* Until trouble comes, when no thread is at work, no completion waits and no
\* connection is open, every slot is empty and nobody is counted.
AllReturned ==
  /\ Calm /\ \A t \in Threads : at[t] = Idle
  /\ \A s \in Sockets : link[s] # "open" /\ posted[s] = 0 /\ \A k \in Kinds : done[s][k] = 0
  => mClientCount = 0 /\ Len(mEmptyClients) = mCurrentCapacity
=============================================================================

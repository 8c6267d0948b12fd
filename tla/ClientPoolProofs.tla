--------------------------- MODULE ClientPoolProofs ---------------------------
(***************************************************************************)
(* What the v1.0 pool of client slots guarantees for any number of slots,  *)
(* connections and workers.                                                *)
(*                                                                         *)
(* The numbers (Counted) hold in trouble and out of it: a worker that      *)
(* pushes a slot uncounts once, and the accepter that has taken a slot     *)
(* counts it or loses it.                                                  *)
(*                                                                         *)
(* Whose a slot is (Inv) holds until trouble comes, that is, until a send  *)
(* fails, a call fails at once or a client asks to leave.  Till then a     *)
(* connection has one token: its receive while that waits, then the        *)
(* completion, then the worker that handles it, who posts the next receive *)
(* or returns the slot.  So no two threads are at work on a slot, and no   *)
(* completion comes for a slot that has been returned.                     *)
(***************************************************************************)
EXTENDS ClientPool, FunctionTheorems, FiniteSetTheorems, SequenceTheorems, TLAPS

InQueue(i) == \E k \in DOMAIN mEmptyClients : mEmptyClients[k] = i

\* A socket's token, while it is not in the hands of a thread.
Tokens(s) == posted[s] + done[s]["RECV"] + done[s]["FAIL"]

Handling(w) == at[w].step \in {"bindRecv", "closeClient", "close", "initialize"}
Returning(w) == at[w].step = "push"
Binding == at[Accepter].step = "bindRecv"
Connecting == at[Accepter].step = "connect"

\* No client has asked to leave and no send failed, so the packet thread closes nothing.
NoExits ==
  /\ mPacketQueue = <<>> /\ at[PacketThread].step = "idle"
  /\ \A s \in Sockets : done[s]["CLOSE"] = 0

QueueExact ==
  /\ \A k \in DOMAIN mEmptyClients : mEmptyClients[k] < mCurrentCapacity
  /\ \A k, l \in DOMAIN mEmptyClients : mEmptyClients[k] = mEmptyClients[l] => k = l

AccepterOK ==
  /\ at[Accepter].step \in {"idle", "getEmpty", "connect", "bindRecv", "count"}
  /\ at[Accepter].step \in {"getEmpty", "connect"} =>
       /\ newSocket \in Sockets /\ link[newSocket] \in {"open", "gone"}
       /\ Tokens(newSocket) = 0
       /\ \A i \in Slots : m_socketClient[i] # newSocket
  /\ Connecting => LET i == at[Accepter].slot IN
       i < mCurrentCapacity /\ ~IsConnected(i) /\ ~InQueue(i)
  /\ Binding => IsConnected(at[Accepter].slot) /\ Tokens(m_socketClient[at[Accepter].slot]) = 0

\* A connected slot is one the pool knows, and its socket's token is somewhere.
SlotOK(i) ==
  IsConnected(i) => LET s == m_socketClient[i] IN
    /\ i < mCurrentCapacity /\ ~InQueue(i)
    /\ key[s] = i /\ link[s] # "away" /\ Tokens(s) \in {0, 1}
    /\ link[s] = "closed" => \E w \in Workers : at[w].step = "initialize" /\ at[w].slot = i
    /\ \/ Tokens(s) = 1
       \/ \E w \in Workers : Handling(w) /\ at[w].slot = i
       \/ Binding /\ at[Accepter].slot = i

\* A completion that waits, or will come, is for the slot that has its socket.
SocketOK(s) == Tokens(s) # 0 => m_socketClient[key[s]] = s

WorkerOK(w) ==
  /\ at[w].step \in {"idle", "bindRecv", "closeClient", "close", "initialize", "push", "uncount"}
  /\ Handling(w) =>
       /\ IsConnected(at[w].slot) /\ Tokens(m_socketClient[at[w].slot]) = 0
       /\ Binding => at[Accepter].slot # at[w].slot
       /\ \A v \in Workers : Handling(v) /\ at[v].slot = at[w].slot => v = w
  /\ at[w].step \in {"close", "initialize"} => at[w].then = "push"
  /\ Returning(w) =>
       /\ at[w].slot < mCurrentCapacity /\ ~IsConnected(at[w].slot) /\ ~InQueue(at[w].slot)
       /\ Connecting => at[Accepter].slot # at[w].slot
       /\ \A v \in Workers : Returning(v) /\ at[v].slot = at[w].slot => v = w

\* No slot is lost.
Accounted(i) ==
  i < mCurrentCapacity =>
    \/ InQueue(i) \/ IsConnected(i)
    \/ Connecting /\ at[Accepter].slot = i
    \/ \E w \in Workers : Returning(w) /\ at[w].slot = i

Inv ==
  /\ NoExits /\ QueueExact /\ AccepterOK
  /\ \A i \in Slots : SlotOK(i) /\ Accounted(i)
  /\ \A s \in Sockets : SocketOK(s)
  /\ \A w \in Workers : WorkerOK(w)


-----------------------------------------------------------------------------
(* Types.                                                                   *)

Steps == {"idle", "getEmpty", "connect", "bindRecv", "count", "refuse",
          "closeClient", "close", "initialize", "push", "uncount", "send"}
Thens == {"idle", "push", "uncount", "refuse"}

LEMMA Constants ==
  /\ MaxClientCount \in Nat /\ MaxClientCount >= 4 /\ Connections \in Nat /\ MaxTrouble \in Nat
  /\ Accepter \in Threads /\ PacketThread \in Threads /\ Workers \subseteq Threads
  /\ Accepter # PacketThread /\ Accepter \notin Workers /\ PacketThread \notin Workers
  /\ 0 \in Slots /\ Slots \subseteq Nat /\ Sockets \subseteq Nat /\ INVALID_SOCKET \notin Sockets
  /\ IsFiniteSet(Workers)
BY CapacityAssumption, ThreadsAssumption DEF Threads, Slots, Sockets, INVALID_SOCKET

\* A thread that goes somewhere is somewhere, and the others are where they were.
LEMMA GoType ==
  ASSUME TypeOK, NEW t \in Threads, NEW step \in Steps, NEW i \in Slots, NEW then \in Thens,
         Go(t, step, i, then)
  PROVE  /\ at' \in [Threads -> [step : Steps, slot : Slots, then : Thens]]
         /\ at'[t].step = step
         /\ step # "idle" => at'[t].slot = i /\ at'[t].then = then
         /\ \A u \in Threads \ {t} : at'[u] = at[u]
<1>1. Idle \in [step : Steps, slot : Slots, then : Thens] /\ Idle.step = "idle"
  BY Constants DEF Idle, Steps, Thens
<1>2. at \in [Threads -> [step : Steps, slot : Slots, then : Thens]]
  BY DEF TypeOK, Steps, Thens
<1>3. [step |-> step, slot |-> i, then |-> then] \in [step : Steps, slot : Slots, then : Thens]
  OBVIOUS
<1> QED  BY <1>1, <1>2, <1>3 DEF Go

\* What is left to type when a thread has gone on.
LEMMA AtType ==
  ASSUME TypeOK, NEW t \in Threads
  PROVE  at[t].step \in Steps /\ at[t].slot \in Slots /\ at[t].then \in Thens /\ Thens \subseteq Steps
BY DEF TypeOK, Steps, Thens

LEMMA NewSlotsFact ==
  ASSUME TypeOK, ~Full
  PROVE  /\ NewCapacity \in 1..MaxClientCount /\ NewCapacity >= mCurrentCapacity
         /\ mClientCount = mCurrentCapacity => NewCapacity > mCurrentCapacity
         /\ WithNewSlots \in Seq(Slots)
         /\ Len(WithNewSlots) = Len(mEmptyClients) + NewCapacity - mCurrentCapacity
         /\ \A k \in 1..Len(mEmptyClients) : WithNewSlots[k] = mEmptyClients[k]
         /\ \A k \in (Len(mEmptyClients) + 1)..Len(WithNewSlots) :
              WithNewSlots[k] = mCurrentCapacity + k - Len(mEmptyClients) - 1
<1> DEFINE n == NewCapacity - mCurrentCapacity
           new == [i \in 1..n |-> mCurrentCapacity + i - 1]
<1>1. /\ NewCapacity \in 1..MaxClientCount /\ NewCapacity >= mCurrentCapacity
      /\ mClientCount = mCurrentCapacity => NewCapacity > mCurrentCapacity
  BY Constants DEF TypeOK, Full, NewCapacity, Smaller
<1>2. n \in Nat /\ mCurrentCapacity \in Nat /\ mCurrentCapacity + n <= MaxClientCount
  BY <1>1, Constants DEF TypeOK
<1>3. new \in Seq(Slots) /\ Len(new) = n
  <2>1. \A i \in 1..n : mCurrentCapacity + i - 1 \in Slots
    BY <1>2, Constants DEF Slots
  <2> HIDE DEF n
  <2>2. new \in [1..n -> Slots]
    BY <2>1
  <2> QED  BY <2>2, <1>2, IsASeq
<1>4. mEmptyClients \in Seq(Slots)
  BY DEF TypeOK
<1>5. WithNewSlots = mEmptyClients \o new
  BY DEF WithNewSlots
<1>6. \A i \in 1..n : new[i] = mCurrentCapacity + i - 1
  OBVIOUS
<1> HIDE DEF n, new
<1>7. /\ WithNewSlots \in Seq(Slots) /\ Len(WithNewSlots) = Len(mEmptyClients) + n
      /\ \A k \in 1..(Len(mEmptyClients) + n) : WithNewSlots[k] =
           IF k <= Len(mEmptyClients) THEN mEmptyClients[k] ELSE new[k - Len(mEmptyClients)]
  BY <1>3, <1>4, <1>5, ConcatProperties
<1>8. Len(mEmptyClients) \in Nat
  BY <1>4, LenProperties
<1>9. ASSUME NEW k \in (Len(mEmptyClients) + 1)..Len(WithNewSlots)
      PROVE  WithNewSlots[k] = mCurrentCapacity + k - Len(mEmptyClients) - 1
  <2>1. k \in Nat /\ k \in 1..(Len(mEmptyClients) + n) /\ ~(k <= Len(mEmptyClients))
    BY <1>2, <1>7, <1>8
  <2>2. k - Len(mEmptyClients) \in 1..n
    BY <1>2, <1>8, <2>1
  <2> QED  BY <1>2, <1>6, <1>7, <1>8, <2>1, <2>2
<1>10. Len(WithNewSlots) = Len(mEmptyClients) + NewCapacity - mCurrentCapacity
  BY <1>1, <1>2, <1>7, <1>8 DEF n
<1>11. \A k \in 1..Len(mEmptyClients) : WithNewSlots[k] = mEmptyClients[k]
  BY <1>2, <1>7, <1>8
<1> QED  BY <1>1, <1>7, <1>9, <1>10, <1>11

\* The pool at the start.
LEMMA InitFact ==
  ASSUME Init
  PROVE  /\ mCurrentCapacity \in 1..MaxClientCount /\ mEmptyClients \in Seq(Slots)
         /\ Len(mEmptyClients) = mCurrentCapacity
         /\ \A k \in 1..mCurrentCapacity : mEmptyClients[k] = k - 1
<1> DEFINE n == MaxClientCount \div 4
<1>1. n \in 1..MaxClientCount
  BY Constants
<1>2. mCurrentCapacity = n /\ mEmptyClients = [i \in 1..n |-> i - 1]
  BY DEF Init
<1> HIDE DEF n
<1>3. mEmptyClients \in [1..n -> Slots]
  BY <1>1, <1>2, Constants DEF Slots
<1>4. n \in Nat
  BY <1>1
<1>5. mEmptyClients \in Seq(Slots) /\ Len(mEmptyClients) = n
  BY <1>3, <1>4, IsASeq
<1> QED  BY <1>1, <1>2, <1>5

LEMMA InitType == Init => TypeOK
<1> SUFFICES ASSUME Init PROVE TypeOK
  OBVIOUS
<1>1. mCurrentCapacity \in 1..MaxClientCount /\ mEmptyClients \in Seq(Slots)
  BY InitFact
<1>2. at \in [Threads -> [step : Steps, slot : Slots, then : Thens]]
  BY Constants DEF Init, Idle, Steps, Thens
<1>3. mPacketQueue \in Seq(Slots) /\ trouble \in 0..MaxTrouble /\ refused \in Nat /\ sending \subseteq Sockets
  BY Constants DEF Init
<1>4. /\ key \in [Sockets -> Slots] /\ posted \in [Sockets -> 0..MaxWaiting]
      /\ done \in [Sockets -> [Kinds -> 0..MaxWaiting]]
  BY Constants DEF Init, MaxWaiting
<1>5. mClientCount \in Int /\ m_socketClient \in [Slots -> Sockets \cup {INVALID_SOCKET}]
      /\ link \in [Sockets -> {"away", "open", "gone", "closed"}] /\ newSocket \in {INVALID_SOCKET}
  BY DEF Init
<1> QED  BY <1>1, <1>2, <1>3, <1>4, <1>5 DEF TypeOK, Steps, Thens

LEMMA TypeParts ==
  TypeOK =>
    /\ mCurrentCapacity \in 1..MaxClientCount /\ mEmptyClients \in Seq(Slots)
    /\ mClientCount \in Int
    /\ m_socketClient \in [Slots -> Sockets \cup {INVALID_SOCKET}]
    /\ key \in [Sockets -> Slots]
    /\ link \in [Sockets -> {"away", "open", "gone", "closed"}]
    /\ posted \in [Sockets -> 0..MaxWaiting]
    /\ done \in [Sockets -> [Kinds -> 0..MaxWaiting]]
    /\ sending \subseteq Sockets /\ refused \in Nat
    /\ trouble \in 0..MaxTrouble /\ mPacketQueue \in Seq(Slots)
    /\ newSocket \in Sockets \cup {INVALID_SOCKET}
BY DEF TypeOK

LEMMA CloseType ==
  ASSUME TypeOK, NEW t \in Threads, Close(t) \/ Initialize(t)
  PROVE  TypeOK'
<1>1. /\ link' \in [Sockets -> {"away", "open", "gone", "closed"}]
      /\ m_socketClient' \in [Slots -> Sockets \cup {INVALID_SOCKET}]
  <2>1. CASE Close(t)
    BY <2>1, TypeParts DEF Close
  <2>2. CASE Initialize(t)
    BY <2>2, TypeParts DEF Initialize, netVars
  <2> QED  BY <2>1, <2>2
<1>2. at' \in [Threads -> [step : Steps, slot : Slots, then : Thens]]
  <2>1. \A step \in Steps : Goto(t, step) => at' \in [Threads -> [step : Steps, slot : Slots, then : Thens]]
    BY AtType, GoType DEF Goto
  <2> QED  BY <2>1, AtType DEF Close, Initialize, Steps
<1> QED
  BY <1>1, <1>2 DEF TypeOK, Close, Initialize, poolVars, netVars, exitVars, Steps, Thens

\* A receive more.
LEMMA PostedGrows ==
  ASSUME TypeOK, NEW s \in Sockets, posted[s] < MaxWaiting,
         posted' = [posted EXCEPT ![s] = @ + 1]
  PROVE  posted' \in [Sockets -> 0..MaxWaiting]
BY TypeParts DEF MaxWaiting

LEMMA BindRecvType ==
  ASSUME TypeOK, NEW t \in Threads, NEW success \in Steps, NEW failure \in Thens,
         BindRecv(t, success, failure)
  PROVE  /\ posted' \in [Sockets -> 0..MaxWaiting] /\ trouble' \in 0..MaxTrouble
         /\ at' \in [Threads -> [step : Steps, slot : Slots, then : Thens]]
<1>1. at[t].step \in Steps /\ at[t].slot \in Slots /\ at[t].then \in Thens
  BY AtType
<1>2. CASE /\ Works(at[t].slot) /\ posted[m_socketClient[at[t].slot]] < MaxWaiting
           /\ posted' = [posted EXCEPT ![m_socketClient[at[t].slot]] = @ + 1]
           /\ Goto(t, success) /\ UNCHANGED trouble
  <2>1. m_socketClient[at[t].slot] \in Sockets
    BY <1>1, <1>2 DEF TypeOK, Works, IsConnected
  <2>2. posted' \in [Sockets -> 0..MaxWaiting]
    BY <1>2, <2>1, PostedGrows
  <2> QED  BY <1>1, <1>2, <2>2, GoType, TypeParts DEF Goto
<1>3. CASE Fails(at[t].slot) /\ Call(t, "close", failure) /\ UNCHANGED posted
  <2>1. trouble' \in 0..MaxTrouble
    BY <1>3, TypeParts, Constants DEF Fails, Trouble
  <2> QED  BY <1>1, <1>3, <2>1, GoType, TypeParts DEF Call, Steps
<1> QED  BY <1>2, <1>3 DEF BindRecv

\* A completion more.
LEMMA DoneGrows ==
  ASSUME TypeOK, NEW s \in Sockets, NEW k \in Kinds, done[s][k] < MaxWaiting,
         done' = [done EXCEPT ![s][k] = @ + 1]
  PROVE  done' \in [Sockets -> [Kinds -> 0..MaxWaiting]]
<1>1. done \in [Sockets -> [Kinds -> 0..MaxWaiting]]
  BY DEF TypeOK
<1>2. [done[s] EXCEPT ![k] = @ + 1] \in [Kinds -> 0..MaxWaiting]
  BY <1>1 DEF MaxWaiting
<1> QED  BY <1>1, <1>2

LEMMA NetworkType ==
  ASSUME TypeOK, NEW s \in Sockets, Accept(s) \/ Leave(s) \/ Complete(s) \/ CompleteSend(s)
  PROVE  TypeOK'
<1> USE DEF poolVars, netVars, exitVars
<1>1. CASE Accept(s)
  <2>1. at' \in [Threads -> [step : Steps, slot : Slots, then : Thens]]
    BY <1>1, AtType, GoType, Constants DEF Accept, Goto, Steps
  <2> QED  BY <1>1, <2>1 DEF Accept, TypeOK, Steps, Thens
<1>2. CASE Leave(s)
  BY <1>2 DEF Leave, TypeOK
<1>3. CASE Complete(s)
  <2>1. PICK k \in Kinds : done[s][k] < MaxWaiting /\ done' = [done EXCEPT ![s][k] = @ + 1]
    BY <1>3 DEF Complete, Kinds
  <2>3. done' \in [Sockets -> [Kinds -> 0..MaxWaiting]]
    BY <2>1, DoneGrows
  <2>4. posted' \in [Sockets -> 0..MaxWaiting]
    BY <1>3, TypeParts DEF Complete, MaxWaiting
  <2> QED  BY <1>3, <2>3, <2>4 DEF Complete, TypeOK
<1>4. CASE CompleteSend(s)
  <2>1. trouble' \in 0..MaxTrouble
    BY <1>4, TypeParts, Constants DEF CompleteSend, Trouble
  <2>2. done' \in [Sockets -> [Kinds -> 0..MaxWaiting]]
    <3>1. \/ UNCHANGED done
          \/ done[s]["FAIL"] < MaxWaiting /\ done' = [done EXCEPT ![s]["FAIL"] = @ + 1]
      BY <1>4 DEF CompleteSend
    <3> QED  BY <3>1, TypeParts, DoneGrows DEF Kinds
  <2> QED  BY <1>4, <2>1, <2>2 DEF CompleteSend, TypeOK
<1> QED  BY <1>1, <1>2, <1>3, <1>4

LEMMA AccepterType ==
  ASSUME TypeOK, AccepterThread
  PROVE  TypeOK'
<1> USE DEF poolVars, netVars, exitVars
<1>0. at[Accepter].step \in Steps /\ at[Accepter].slot \in Slots /\ at[Accepter].then \in Thens
  BY AtType, Constants
<1>1. CASE GetEmptyClient
  <2>1. WithNewSlots \in Seq(Slots) /\ WithNewSlots # <<>> /\ NewCapacity \in 1..MaxClientCount
    BY <1>1, NewSlotsFact DEF GetEmptyClient
  <2>2. Head(WithNewSlots) \in Slots /\ Tail(WithNewSlots) \in Seq(Slots)
    BY <2>1, HeadTailProperties
  <2>3. at' \in [Threads -> [step : Steps, slot : Slots, then : Thens]]
    BY <1>1, <2>2, GoType, Constants DEF GetEmptyClient, Steps, Thens
  <2> QED  BY <1>1, <2>1, <2>2, <2>3 DEF GetEmptyClient, TypeOK, Steps, Thens
<1>2. CASE Refuse
  <2>1. at' \in [Threads -> [step : Steps, slot : Slots, then : Thens]]
    BY <1>0, <1>2, GoType, Constants DEF Refuse, Goto, Steps
  <2>2. refused' \in Nat
    BY <1>2, TypeParts DEF Refuse
  <2> QED  BY <1>2, <2>1, <2>2 DEF Refuse, TypeOK, Steps, Thens
<1>3. CASE Connect
  <2>1. at' \in [Threads -> [step : Steps, slot : Slots, then : Thens]]
    BY <1>0, <1>3, GoType, Constants DEF Connect, Goto, Steps
  <2>2. m_socketClient' \in [Slots -> Sockets \cup {INVALID_SOCKET}] /\ key' \in [Sockets -> Slots]
    BY <1>0, <1>3, TypeParts DEF Connect
  <2> QED  BY <1>3, <2>1, <2>2 DEF Connect, TypeOK, Steps, Thens
<1>4. CASE FirstRecv
  <2>1. /\ posted' \in [Sockets -> 0..MaxWaiting] /\ trouble' \in 0..MaxTrouble
        /\ at' \in [Threads -> [step : Steps, slot : Slots, then : Thens]]
    BY <1>4, BindRecvType, Constants DEF FirstRecv, Steps, Thens
  <2> QED  BY <1>4, <2>1 DEF FirstRecv, TypeOK, Steps, Thens
<1>5. CASE CountClient
  <2>1. at' \in [Threads -> [step : Steps, slot : Slots, then : Thens]]
    BY <1>0, <1>5, GoType, Constants DEF CountClient, Goto, Steps
  <2> QED  BY <1>5, <2>1 DEF CountClient, TypeOK, Steps, Thens
<1>6. CASE Close(Accepter) \/ Initialize(Accepter)
  BY <1>6, CloseType, Constants
<1> QED  BY <1>1, <1>2, <1>3, <1>4, <1>5, <1>6 DEF AccepterThread

LEMMA DequeueType ==
  ASSUME TypeOK, NEW w \in Threads, NEW s \in Sockets, NEW kind \in Kinds, NEW step \in Steps,
         Dequeue(w, s, kind, step)
  PROVE  /\ done' \in [Sockets -> [Kinds -> 0..MaxWaiting]]
         /\ at' \in [Threads -> [step : Steps, slot : Slots, then : Thens]]
<1>1. done[s] \in [Kinds -> 0..MaxWaiting] /\ [done[s] EXCEPT ![kind] = @ - 1] \in [Kinds -> 0..MaxWaiting]
  BY TypeParts DEF Dequeue, MaxWaiting
<1>2. done' \in [Sockets -> [Kinds -> 0..MaxWaiting]]
  BY <1>1, TypeParts DEF Dequeue
<1> QED  BY <1>2, GoType, TypeParts DEF Dequeue, Thens

LEMMA WorkerType ==
  ASSUME TypeOK, NEW w \in Workers, WorkerThread(w)
  PROVE  TypeOK'
<1> USE DEF poolVars, netVars, exitVars
<1>0. /\ at[w].step \in Steps /\ at[w].slot \in Slots /\ at[w].then \in Thens
      /\ w \in Threads
  BY AtType, Constants
<1>1. ASSUME NEW s \in Sockets, Receive(w, s)
      PROVE  TypeOK'
  <2>1. /\ done' \in [Sockets -> [Kinds -> 0..MaxWaiting]]
        /\ at' \in [Threads -> [step : Steps, slot : Slots, then : Thens]]
    BY <1>0, <1>1, DequeueType DEF Receive, Kinds, Steps
  <2>2. trouble' \in 0..MaxTrouble /\ mPacketQueue' \in Seq(Slots)
    <3>1. key[s] \in Slots
      BY TypeParts
    <3>2. CASE UNCHANGED exitVars
      BY <3>2, TypeParts
    <3>3. CASE Trouble /\ mPacketQueue' = Append(mPacketQueue, key[s])
      BY <3>1, <3>3, TypeParts, Constants, AppendProperties DEF Trouble
    <3> QED  BY <1>1, <3>2, <3>3 DEF Receive
  <2> QED  BY <1>1, <2>1, <2>2 DEF Receive, Dequeue, TypeOK, Steps, Thens
<1>2. ASSUME NEW s \in Sockets, CloseCompletion(w, s)
      PROVE  TypeOK'
  <2>1. /\ done' \in [Sockets -> [Kinds -> 0..MaxWaiting]]
        /\ at' \in [Threads -> [step : Steps, slot : Slots, then : Thens]]
    BY <1>0, <1>2, DequeueType DEF CloseCompletion, Kinds, Steps
  <2> QED  BY <1>2, <2>1 DEF CloseCompletion, Dequeue, TypeOK, Steps, Thens
<1>3. CASE RecvAgain(w)
  <2>1. /\ posted' \in [Sockets -> 0..MaxWaiting] /\ trouble' \in 0..MaxTrouble
        /\ at' \in [Threads -> [step : Steps, slot : Slots, then : Thens]]
    BY <1>0, <1>3, BindRecvType DEF RecvAgain, Steps, Thens
  <2> QED  BY <1>3, <2>1 DEF RecvAgain, TypeOK, Steps, Thens
<1>4. CASE CloseClient(w)
  <2>1. at' \in [Threads -> [step : Steps, slot : Slots, then : Thens]]
    <3>1. \/ Go(w, "close", at[w].slot, "push")
          \/ Go(w, "idle", at[w].slot, at[w].then)
      BY <1>4 DEF CloseClient, Call, Goto
    <3> QED  BY <1>0, <3>1, GoType DEF Steps, Thens
  <2> QED  BY <1>4, <2>1 DEF CloseClient, TypeOK, Steps, Thens
<1>5. CASE ReturnSlot(w)
  <2>1. at' \in [Threads -> [step : Steps, slot : Slots, then : Thens]]
    BY <1>0, <1>5, GoType DEF ReturnSlot, Goto, Steps
  <2>2. mEmptyClients' \in Seq(Slots) /\ mClientCount' \in Int
    <3>1. CASE mEmptyClients' = Append(mEmptyClients, at[w].slot) /\ UNCHANGED mClientCount
      BY <1>0, <3>1, TypeParts, AppendProperties
    <3>2. CASE mClientCount' = mClientCount - 1 /\ UNCHANGED mEmptyClients
      BY <3>2, TypeParts
    <3> QED  BY <1>5, <3>1, <3>2 DEF ReturnSlot
  <2> QED  BY <1>5, <2>1, <2>2 DEF ReturnSlot, TypeOK, Steps, Thens
<1>6. CASE Close(w) \/ Initialize(w)
  BY <1>0, <1>6, CloseType
<1> QED  BY <1>1, <1>2, <1>3, <1>4, <1>5, <1>6 DEF WorkerThread

LEMMA SenderType ==
  ASSUME TypeOK, Sender
  PROVE  TypeOK'
<1> USE DEF poolVars, netVars, exitVars
<1>0. /\ at[PacketThread].step \in Steps /\ at[PacketThread].slot \in Slots
      /\ at[PacketThread].then \in Thens /\ PacketThread \in Threads
  BY AtType, Constants
<1>1. CASE Exits
  <2>1. Head(mPacketQueue) \in Slots /\ Tail(mPacketQueue) \in Seq(Slots)
    BY <1>1, TypeParts, HeadTailProperties DEF Exits
  <2>2. at' \in [Threads -> [step : Steps, slot : Slots, then : Thens]]
    <3>1. \A step \in {"send", "idle"} : Go(PacketThread, step, Head(mPacketQueue), "idle") =>
            at' \in [Threads -> [step : Steps, slot : Slots, then : Thens]]
      BY <1>0, <2>1, GoType DEF Steps, Thens
    <3> QED  BY <1>1, <3>1 DEF Exits
  <2> QED  BY <1>1, <2>1, <2>2 DEF Exits, TypeOK, Steps, Thens
<1>2. CASE SendClose
  <2> DEFINE i == at[PacketThread].slot
             s == m_socketClient[i]
  <2>1. at' \in [Threads -> [step : Steps, slot : Slots, then : Thens]]
    BY <1>0, <1>2, GoType DEF SendClose, Goto, Call, Steps, Thens
  <2>2. trouble' \in 0..MaxTrouble
    <3>1. trouble' = trouble \/ (trouble < MaxTrouble /\ trouble' = trouble + 1)
      BY <1>2 DEF SendClose, Fails, Trouble
    <3> QED  BY <3>1, TypeParts, Constants
  <2>3. done' \in [Sockets -> [Kinds -> 0..MaxWaiting]]
    <3>1. CASE UNCHANGED done
      BY <3>1, TypeParts
    <3>2. ASSUME Works(i), NEW kind \in Kinds, done[s][kind] < MaxWaiting,
                 done' = [done EXCEPT ![s][kind] = @ + 1]
          PROVE  done' \in [Sockets -> [Kinds -> 0..MaxWaiting]]
      <4>1. s \in Sockets
        BY <1>0, <3>2, TypeParts DEF Works, IsConnected
      <4> HIDE DEF s
      <4> QED  BY <3>2, <4>1, DoneGrows
    <3> QED  BY <1>2, <3>1, <3>2 DEF SendClose, Kinds
  <2> QED  BY <1>2, <2>1, <2>2, <2>3 DEF SendClose, TypeOK, Steps, Thens
<1>3. CASE Close(PacketThread) \/ Initialize(PacketThread)
  BY <1>0, <1>3, CloseType
<1>4. CASE SendMsg
  <2>1. PICK i \in Slots :
          \/ Works(i) /\ sending' = sending \cup {m_socketClient[i]} /\ UNCHANGED <<trouble, at>>
          \/ Fails(i) /\ Go(PacketThread, "close", i, "idle") /\ UNCHANGED sending
    BY <1>4 DEF SendMsg
  <2>2. CASE Works(i) /\ sending' = sending \cup {m_socketClient[i]} /\ UNCHANGED <<trouble, at>>
    <3>1. m_socketClient[i] \in Sockets
      BY <2>2, TypeParts DEF Works, IsConnected
    <3> QED  BY <1>4, <2>2, <3>1 DEF SendMsg, TypeOK
  <2>3. CASE Fails(i) /\ Go(PacketThread, "close", i, "idle") /\ UNCHANGED sending
    <3>1. at' \in [Threads -> [step : Steps, slot : Slots, then : Thens]]
      BY <1>0, <2>3, GoType DEF Steps, Thens
    <3>2. trouble' \in 0..MaxTrouble
      BY <2>3, TypeParts, Constants DEF Fails, Trouble
    <3> QED  BY <1>4, <2>3, <3>1, <3>2 DEF SendMsg, TypeOK, Steps, Thens
  <2> QED  BY <2>1, <2>2, <2>3
<1> QED  BY <1>1, <1>2, <1>3, <1>4 DEF Sender

LEMMA NextType == TypeOK /\ [Next]_vars => TypeOK'
<1>1. TypeOK /\ UNCHANGED vars => TypeOK'
  BY DEF TypeOK, vars, poolVars, netVars, exitVars
<1> QED  BY <1>1, NetworkType, AccepterType, SenderType, WorkerType DEF Next

\* Every variable has its type, in trouble or not.
THEOREM TypeCorrect == Spec => []TypeOK
BY InitType, NextType, PTL DEF Spec

-----------------------------------------------------------------------------
(* The invariant.                                                           *)

\* What the invariant says of the slot a worker is at work on.
LEMMA HandlingFact ==
  ASSUME TypeOK, Inv, NEW w \in Workers, Handling(w)
  PROVE  LET i == at[w].slot
             s == m_socketClient[i]
         IN  /\ i \in Slots /\ IsConnected(i) /\ s \in Sockets /\ key[s] = i
             /\ i < mCurrentCapacity /\ ~InQueue(i) /\ Tokens(s) = 0
             /\ link[s] # "away" /\ (at[w].step # "initialize" => link[s] # "closed")
             /\ ~(Binding /\ at[Accepter].slot = i)
             /\ \A v \in Workers : Handling(v) /\ at[v].slot = i => v = w
<1> DEFINE i == at[w].slot
           s == m_socketClient[i]
<1>1. i \in Slots
  BY AtType, Constants
<1>2. IsConnected(i) /\ s \in Sockets
  BY <1>1, TypeParts DEF Inv, WorkerOK, IsConnected
<1>3. SlotOK(i) /\ WorkerOK(w)
  BY <1>1 DEF Inv
<1>4. link[s] = "closed" => at[w].step = "initialize"
  BY <1>2, <1>3 DEF SlotOK, WorkerOK, Handling
<1> QED  BY <1>1, <1>2, <1>3, <1>4 DEF SlotOK, WorkerOK

\* What it says of a socket whose receive waits or has ended.
LEMMA TokenFact ==
  ASSUME TypeOK, Inv, NEW s \in Sockets, Tokens(s) # 0
  PROVE  /\ key[s] \in Slots /\ IsConnected(key[s]) /\ m_socketClient[key[s]] = s
         /\ Tokens(s) = 1 /\ link[s] # "away"
         /\ \A w \in Workers : Handling(w) => at[w].slot # key[s]
         /\ ~(Binding /\ at[Accepter].slot = key[s])
         /\ link[s] # "closed"
<1>1. key[s] \in Slots /\ m_socketClient[key[s]] = s /\ IsConnected(key[s])
  BY TypeParts, Constants DEF Inv, SocketOK, IsConnected
<1>2. SlotOK(key[s])
  BY <1>1 DEF Inv
<1>3. \A w \in Workers : Handling(w) => at[w].slot # key[s]
  BY <1>1, HandlingFact
<1>4. ~(Binding /\ at[Accepter].slot = key[s])
  BY <1>1 DEF Inv, AccepterOK
<1>5. link[s] # "closed"
  BY <1>1, <1>2, <1>3 DEF SlotOK, Handling
<1> QED  BY <1>1, <1>2, <1>3, <1>4, <1>5 DEF SlotOK

\* The accepter, or a worker, goes on and the other threads stay.
LEMMA GoAccepter ==
  ASSUME TypeOK, NEW step \in Steps, NEW i \in Slots, NEW then \in Thens,
         Go(Accepter, step, i, then)
  PROVE  /\ at'[Accepter].step = step
         /\ step # "idle" => at'[Accepter].slot = i /\ at'[Accepter].then = then
         /\ \A w \in Workers : at'[w] = at[w]
         /\ at'[PacketThread] = at[PacketThread]
<1>1. /\ at'[Accepter].step = step
      /\ step # "idle" => at'[Accepter].slot = i /\ at'[Accepter].then = then
      /\ \A u \in Threads \ {Accepter} : at'[u] = at[u]
  BY GoType, Constants
<1> QED  BY <1>1, Constants

LEMMA GotoAccepter ==
  ASSUME TypeOK, NEW step \in Steps, Goto(Accepter, step)
  PROVE  /\ at'[Accepter].step = step
         /\ step # "idle" => at'[Accepter].slot = at[Accepter].slot
         /\ \A w \in Workers : at'[w] = at[w]
         /\ at'[PacketThread] = at[PacketThread]
BY GoAccepter, AtType, Constants DEF Goto

LEMMA GoWorker ==
  ASSUME TypeOK, NEW w \in Workers, NEW step \in Steps, NEW i \in Slots, NEW then \in Thens,
         Go(w, step, i, then)
  PROVE  /\ at'[w].step = step
         /\ step # "idle" => at'[w].slot = i /\ at'[w].then = then
         /\ \A v \in Workers \ {w} : at'[v] = at[v]
         /\ at'[PacketThread] = at[PacketThread] /\ at'[Accepter] = at[Accepter]
<1>1. /\ at'[w].step = step
      /\ step # "idle" => at'[w].slot = i /\ at'[w].then = then
      /\ \A u \in Threads \ {w} : at'[u] = at[u]
  BY GoType, Constants
<1> QED  BY <1>1, Constants

LEMMA GotoWorker ==
  ASSUME TypeOK, NEW w \in Workers, NEW step \in Steps, Goto(w, step)
  PROVE  /\ at'[w].step = step
         /\ step # "idle" => at'[w].slot = at[w].slot /\ at'[w].then = at[w].then
         /\ \A v \in Workers \ {w} : at'[v] = at[v]
         /\ at'[PacketThread] = at[PacketThread] /\ at'[Accepter] = at[Accepter]
<1>1. w \in Threads /\ at[w].slot \in Slots /\ at[w].then \in Thens
  BY AtType, Constants
<1> QED  BY <1>1, GoWorker DEF Goto

\* The numbers the tokens are counted with.
LEMMA TokenType ==
  ASSUME TypeOK
  PROVE  \A s \in Sockets : /\ posted[s] \in Nat /\ Tokens(s) \in Nat
                            /\ \A k \in Kinds : done[s][k] \in Nat
<1> SUFFICES ASSUME NEW s \in Sockets
             PROVE  /\ posted[s] \in Nat /\ Tokens(s) \in Nat
                    /\ \A k \in Kinds : done[s][k] \in Nat
  OBVIOUS
<1>1. posted[s] \in Nat /\ done[s] \in [Kinds -> 0..MaxWaiting]
  BY TypeParts DEF MaxWaiting
<1>2. \A k \in Kinds : done[s][k] \in Nat
  BY <1>1 DEF MaxWaiting
<1> QED  BY <1>1, <1>2 DEF Tokens, Kinds

LEMMA InitInv == Init => Inv
<1> SUFFICES ASSUME Init PROVE Inv
  OBVIOUS
<1>0. TypeOK
  BY InitType
<1>1. /\ \A t \in Threads : at[t].step = "idle"
      /\ \A i \in Slots : ~IsConnected(i)
      /\ \A s \in Sockets : Tokens(s) = 0 /\ \A k \in Kinds : done[s][k] = 0
  BY DEF Init, Idle, IsConnected, Tokens, Kinds
<1>2. NoExits
  BY <1>1, Constants DEF NoExits, Init, Kinds
<1>3. DOMAIN mEmptyClients = 1..mCurrentCapacity /\ mCurrentCapacity \in Nat
  BY InitFact, Constants
<1>4. QueueExact
  BY <1>3, InitFact DEF QueueExact
<1>5. ASSUME NEW i \in Slots, i < mCurrentCapacity
      PROVE  InQueue(i)
  <2>1. i + 1 \in 1..mCurrentCapacity
    BY <1>3, <1>5, Constants
  <2>2. i \in Nat
    BY Constants
  <2>3. mEmptyClients[i + 1] = i
    BY <2>1, <2>2, InitFact
  <2> QED  BY <1>3, <2>1, <2>3 DEF InQueue
<1>6. AccepterOK
  BY <1>1, Constants DEF AccepterOK, Connecting, Binding
<1>7. \A w \in Workers : WorkerOK(w)
  BY <1>1, Constants DEF WorkerOK, Handling, Returning
<1>8. \A s \in Sockets : SocketOK(s)
  BY <1>1 DEF SocketOK
<1>9. \A i \in Slots : SlotOK(i) /\ Accounted(i)
  BY <1>1, <1>5 DEF SlotOK, Accounted
<1> QED  BY <1>2, <1>4, <1>6, <1>7, <1>8, <1>9 DEF Inv

\* A client connects: its socket is nobody's yet.
LEMMA AcceptInv ==
  ASSUME TypeOK, Inv, NEW s \in Sockets, Accept(s)
  PROVE  Inv'
<1> USE DEF poolVars, netVars, exitVars
<1>1. /\ at'[Accepter].step = "getEmpty" /\ \A w \in Workers : at'[w] = at[w]
      /\ at'[PacketThread] = at[PacketThread]
  BY GotoAccepter DEF Accept, Steps
<1>2. link[s] = "away" /\ link'[s] = "open" /\ \A r \in Sockets \ {s} : link'[r] = link[r]
  BY TypeParts DEF Accept
<1>3. Tokens(s) = 0
  BY <1>2, TokenFact
<1>4. \A i \in Slots : m_socketClient[i] # s
  BY <1>2 DEF Inv, SlotOK, IsConnected, INVALID_SOCKET, Sockets
<1>5. \A r \in Sockets : Tokens(r)' = Tokens(r)
  BY DEF Accept, Tokens
<1>6. NoExits' /\ QueueExact'
  BY <1>1 DEF Accept, Inv, NoExits, QueueExact
<1>7. AccepterOK'
  BY <1>1, <1>2, <1>3, <1>4, <1>5 DEF Accept, AccepterOK, Connecting, Binding
<1>8. ~Binding /\ ~Connecting /\ ~Binding' /\ ~Connecting'
  BY <1>1 DEF Accept, Binding, Connecting
<1>9. ASSUME NEW i \in Slots
      PROVE  SlotOK(i)' /\ Accounted(i)'
  <2>1. SlotOK(i) /\ Accounted(i)
    BY DEF Inv
  <2>2. m_socketClient[i] # s /\ IsConnected(i)' = IsConnected(i) /\ InQueue(i)' = InQueue(i)
    BY <1>4 DEF Accept, IsConnected, InQueue
  <2>3. IsConnected(i) => m_socketClient[i] \in Sockets
    BY TypeParts DEF IsConnected
  <2>4. SlotOK(i)'
    BY <1>1, <1>2, <1>5, <1>8, <2>1, <2>2, <2>3 DEF Accept, SlotOK, Handling
  <2> QED  BY <1>1, <1>8, <2>1, <2>2, <2>4 DEF Accept, Accounted, Returning
<1>10. \A r \in Sockets : SocketOK(r)'
  BY <1>5 DEF Accept, Inv, SocketOK
<1>11. ASSUME NEW w \in Workers
       PROVE  WorkerOK(w)'
  <2>1. WorkerOK(w) /\ at[w].slot \in Slots
    BY AtType, Constants DEF Inv
  <2>2. Handling(w) => m_socketClient[at[w].slot] \in Sockets
    BY HandlingFact
  <2> QED  BY <1>1, <1>5, <1>8, <2>1, <2>2
           DEF Accept, WorkerOK, Handling, Returning, IsConnected, InQueue
<1> QED  BY <1>6, <1>7, <1>9, <1>10, <1>11 DEF Inv

\* A peer leaves, or a receive ends: the token of the socket stays where it is,
\* or passes from the receive to its completion.
LEMMA NetworkInv ==
  ASSUME TypeOK, Inv, NEW s \in Sockets, Leave(s) \/ Complete(s)
  PROVE  Inv'
<1> USE DEF poolVars, netVars, exitVars
<1>1. UNCHANGED <<poolVars, m_socketClient, key, exitVars, at, newSocket>>
  BY DEF Leave, Complete
<1>2. \A r \in Sockets : Tokens(r)' = Tokens(r) /\ done'[r]["CLOSE"] = done[r]["CLOSE"]
  <2>1. CASE Leave(s)
    BY <2>1 DEF Leave, Tokens
  <2>2. CASE Complete(s)
    <3>1. PICK k \in {"RECV", "FAIL"} : done' = [done EXCEPT ![s][k] = @ + 1]
      BY <2>2 DEF Complete
    <3>2. posted' = [posted EXCEPT ![s] = @ - 1]
      BY <2>2 DEF Complete
    <3>3. posted[s] \in Nat /\ done[s]["RECV"] \in Nat /\ done[s]["FAIL"] \in Nat
      BY TokenType DEF Kinds
    <3>4. \A r \in Sockets \ {s} : posted'[r] = posted[r] /\ done'[r] = done[r]
      BY <3>1, <3>2, TypeParts
    <3>5. /\ posted'[s] = posted[s] - 1 /\ done'[s]["CLOSE"] = done[s]["CLOSE"]
          /\ \/ done'[s]["RECV"] = done[s]["RECV"] + 1 /\ done'[s]["FAIL"] = done[s]["FAIL"]
             \/ done'[s]["FAIL"] = done[s]["FAIL"] + 1 /\ done'[s]["RECV"] = done[s]["RECV"]
      BY <3>1, <3>2, TypeParts DEF Kinds
    <3>6. Tokens(s)' = Tokens(s)
      BY <3>3, <3>5 DEF Tokens
    <3> QED  BY <3>4, <3>5, <3>6 DEF Tokens
  <2> QED  BY <2>1, <2>2
<1>3. \A r \in Sockets : \/ link'[r] = link[r]
                         \/ link[r] = "open" /\ link'[r] = "gone"
  BY TypeParts DEF Leave, Complete
<1>4. NoExits' /\ QueueExact'
  BY <1>1, <1>2 DEF Inv, NoExits, QueueExact
<1>5. \A i \in Slots : /\ IsConnected(i)' = IsConnected(i) /\ InQueue(i)' = InQueue(i)
                       /\ IsConnected(i) => m_socketClient[i] \in Sockets
  BY <1>1, TypeParts DEF IsConnected, InQueue
<1>6. Connecting' = Connecting /\ Binding' = Binding
  BY <1>1 DEF Connecting, Binding
<1>7. at[Accepter].slot \in Slots /\ \A w \in Workers : at[w].slot \in Slots
  BY AtType, Constants
<1>8. AccepterOK'
  BY <1>1, <1>2, <1>3, <1>5, <1>6, <1>7 DEF Inv, AccepterOK
<1>9. ASSUME NEW i \in Slots
      PROVE  SlotOK(i)' /\ Accounted(i)'
  <2>1. SlotOK(i) /\ Accounted(i)
    BY DEF Inv
  <2>2. SlotOK(i)'
    BY <1>1, <1>2, <1>3, <1>5, <1>6, <2>1 DEF SlotOK, Handling
  <2> QED  BY <1>1, <1>5, <1>6, <2>1, <2>2 DEF Accounted, Returning
<1>10. \A r \in Sockets : SocketOK(r)'
  BY <1>1, <1>2 DEF Inv, SocketOK
<1>11. ASSUME NEW w \in Workers
       PROVE  WorkerOK(w)'
  <2>1. WorkerOK(w)
    BY DEF Inv
  <2> QED  BY <1>1, <1>2, <1>5, <1>6, <1>7, <2>1 DEF WorkerOK, Handling, Returning
<1> QED  BY <1>4, <1>8, <1>9, <1>10, <1>11 DEF Inv

\* The accepter takes the front of the queue; the new slots are at its end.
LEMMA GetEmptyClientInv ==
  ASSUME TypeOK, Inv, GetEmptyClient
  PROVE  Inv'
<1> USE DEF poolVars, netVars, exitVars
<1> DEFINE q == WithNewSlots
           n == Len(mEmptyClients)
<1>1. /\ NewCapacity \in 1..MaxClientCount /\ NewCapacity >= mCurrentCapacity
      /\ q \in Seq(Slots) /\ q # <<>>
      /\ Len(q) = n + NewCapacity - mCurrentCapacity
      /\ \A k \in 1..n : q[k] = mEmptyClients[k]
      /\ \A k \in (n + 1)..Len(q) : q[k] = mCurrentCapacity + k - n - 1
  BY NewSlotsFact DEF GetEmptyClient
<1>2. n \in Nat /\ DOMAIN mEmptyClients = 1..n /\ mCurrentCapacity \in Nat
      /\ \A k \in 1..n : mEmptyClients[k] \in Slots
  BY TypeParts, LenProperties, ElementOfSeq
<1>3. /\ q[1] \in Slots /\ Head(q) = q[1] /\ Len(q) \in Nat \ {0}
      /\ mEmptyClients' = Tail(q) /\ DOMAIN mEmptyClients' = 1..(Len(q) - 1)
      /\ \A k \in 1..(Len(q) - 1) : mEmptyClients'[k] = q[k + 1]
      /\ \A k \in 1..Len(q) : q[k] \in Slots
  <2>1. Head(q) \in Slots /\ Tail(q) \in Seq(Slots) /\ Len(Tail(q)) = Len(q) - 1
        /\ \A k \in 1..Len(Tail(q)) : Tail(q)[k] = q[k + 1]
    BY <1>1, HeadTailProperties
  <2>2. Head(q) = q[1] /\ Len(q) \in Nat \ {0} /\ \A k \in 1..Len(q) : q[k] \in Slots
    BY <1>1, EmptySeq, LenProperties, ElementOfSeq
  <2>3. mEmptyClients' = Tail(q)
    BY DEF GetEmptyClient
  <2>4. DOMAIN Tail(q) = 1..(Len(q) - 1)
    BY <2>1, LenProperties
  <2> QED  BY <2>1, <2>2, <2>3, <2>4
<1>4. /\ \A k \in DOMAIN mEmptyClients : mEmptyClients[k] < mCurrentCapacity
      /\ \A k, l \in DOMAIN mEmptyClients : mEmptyClients[k] = mEmptyClients[l] => k = l
  BY DEF Inv, QueueExact
<1>5. mCurrentCapacity' = NewCapacity /\ NewCapacity \in Nat
  BY <1>1 DEF GetEmptyClient
<1> HIDE DEF q, n
<1>6. Len(q) \in Nat /\ 1 \in 1..Len(q) /\ q[1] \in Slots /\ \A k \in 1..Len(q) : q[k] \in Nat
  <2>1. Len(q) \in Nat \ {0}
    BY <1>3
  <2>2. 1 \in 1..Len(q)
    BY <2>1
  <2>3. \A k \in 1..Len(q) : q[k] \in Slots
    BY <1>3
  <2>4. \A k \in 1..Len(q) : q[k] \in Nat
    BY <2>3, Constants
  <2> QED  BY <2>1, <2>2, <2>3, <2>4
<1>7. NewCapacity >= mCurrentCapacity
  BY <1>1
<1>8. ASSUME NEW k \in 1..Len(q)
      PROVE  /\ k \in Nat /\ q[k] \in Nat /\ q[k] < NewCapacity
             /\ k <= n => k \in 1..n /\ q[k] = mEmptyClients[k] /\ q[k] < mCurrentCapacity
             /\ k > n => q[k] = mCurrentCapacity + k - n - 1
  <2>1. k \in Nat /\ q[k] \in Nat
    BY <1>6
  <2>2. CASE k <= n
    <3>1. k \in 1..n
      BY <1>2, <2>1, <2>2
    <3>2. q[k] = mEmptyClients[k] /\ mEmptyClients[k] < mCurrentCapacity
      BY <1>1, <1>2, <1>4, <3>1
    <3> QED  BY <1>2, <1>5, <1>7, <2>1, <2>2, <3>1, <3>2
  <2>3. CASE k > n
    <3>1. k \in (n + 1)..Len(q)
      BY <1>2, <2>1, <2>3
    <3>2. k <= n + NewCapacity - mCurrentCapacity
      BY <1>1
    <3> QED  BY <1>1, <1>2, <1>5, <2>1, <2>3, <3>1, <3>2
  <2> QED  BY <1>2, <2>1, <2>2, <2>3
<1>9. \A k, l \in 1..Len(q) : q[k] = q[l] => k = l
  <2> SUFFICES ASSUME NEW k \in 1..Len(q), NEW l \in 1..Len(q), q[k] = q[l]
               PROVE  k = l
    OBVIOUS
  <2>1. CASE k <= n /\ l <= n
    BY <1>2, <1>4, <1>8, <2>1
  <2>2. CASE ~(k <= n /\ l <= n)
    BY <1>2, <1>8, <2>2
  <2> QED  BY <2>1, <2>2
<1>10. \A k \in 1..Len(q) : q[k] < NewCapacity
  BY <1>8
<1>11. QueueExact'
  BY <1>3, <1>5, <1>9, <1>10 DEF QueueExact
<1>12. \A i \in Slots : /\ InQueue(i)' => i # q[1]
                        /\ InQueue(i)' => InQueue(i) \/ i >= mCurrentCapacity
                        /\ InQueue(i) => InQueue(i)' \/ i = q[1]
                        /\ i >= mCurrentCapacity /\ i < NewCapacity => InQueue(i)' \/ i = q[1]
  <2> SUFFICES ASSUME NEW i \in Slots
               PROVE  /\ InQueue(i)' => i # q[1]
                      /\ InQueue(i)' => InQueue(i) \/ i >= mCurrentCapacity
                      /\ InQueue(i) => InQueue(i)' \/ i = q[1]
                      /\ i >= mCurrentCapacity /\ i < NewCapacity => InQueue(i)' \/ i = q[1]
    OBVIOUS
  <2>0. i \in Nat
    BY Constants
  <2>1. ASSUME NEW k \in 1..Len(q), q[k] = i
        PROVE  InQueue(i)' \/ i = q[1]
    <3>1. CASE k = 1
      BY <2>1, <3>1
    <3>2. CASE k # 1
      <4>1. k - 1 \in 1..(Len(q) - 1) /\ (k - 1) + 1 = k
        BY <1>3, <3>2
      <4>2. mEmptyClients'[k - 1] = i
        BY <1>3, <2>1, <4>1
      <4> QED  BY <1>3, <4>1, <4>2 DEF InQueue
    <3> QED  BY <3>1, <3>2
  <2>2. ASSUME InQueue(i)'
        PROVE  \E k \in 1..Len(q) : k # 1 /\ q[k] = i
    <3>1. PICK k \in 1..(Len(q) - 1) : q[k + 1] = i
      BY <1>3, <2>2 DEF InQueue
    <3> QED  BY <1>3, <3>1
  <2>3. InQueue(i)' => i # q[1]
    BY <1>3, <1>9, <2>2
  <2>4. InQueue(i)' => InQueue(i) \/ i >= mCurrentCapacity
    BY <1>2, <1>8, <2>2 DEF InQueue
  <2>5. InQueue(i) => InQueue(i)' \/ i = q[1]
    BY <1>1, <1>2, <1>3, <1>5, <2>1 DEF InQueue
  <2>6. i >= mCurrentCapacity /\ i < NewCapacity => InQueue(i)' \/ i = q[1]
    <3> SUFFICES ASSUME i >= mCurrentCapacity, i < NewCapacity
                 PROVE  InQueue(i)' \/ i = q[1]
      OBVIOUS
    <3>1. (i - mCurrentCapacity) + n + 1 \in (n + 1)..Len(q)
      BY <1>1, <1>2, <1>3, <1>5, <2>0
    <3>2. q[(i - mCurrentCapacity) + n + 1] = i
      BY <1>1, <1>2, <2>0, <3>1
    <3> QED  BY <1>2, <1>3, <2>1, <3>1, <3>2
  <2> QED  BY <2>3, <2>4, <2>5, <2>6
<1>13. /\ at'[Accepter].step = "connect" /\ at'[Accepter].slot = q[1]
       /\ \A w \in Workers : at'[w] = at[w]
       /\ at'[PacketThread] = at[PacketThread]
  BY <1>3, GoAccepter DEF GetEmptyClient, Steps, Thens, q
<1>14. NoExits'
  BY <1>13 DEF GetEmptyClient, Inv, NoExits
<1>15. /\ \A i \in Slots : IsConnected(i)' = IsConnected(i)
       /\ \A s \in Sockets : Tokens(s)' = Tokens(s)
  BY DEF GetEmptyClient, IsConnected, Tokens
<1>16. /\ at[Accepter].step = "getEmpty" /\ ~Binding /\ ~Connecting /\ ~Binding' /\ Connecting'
       /\ \A w \in Workers : at[w].slot \in Slots
  BY <1>13, AtType, Constants DEF GetEmptyClient, Binding, Connecting
<1>17. PICK front \in Slots : front = q[1]
  BY <1>6
\* Nobody has the slot the accepter takes: it was in the queue, or is new.
<1>18. /\ front < NewCapacity /\ ~IsConnected(front) /\ ~InQueue(front)'
       /\ \A w \in Workers : Returning(w) => at[w].slot # front
  <2>1. InQueue(front) \/ front >= mCurrentCapacity
    BY <1>2, <1>8, <1>6, <1>17 DEF InQueue
  <2>2. SlotOK(front) /\ \A w \in Workers : WorkerOK(w)
    BY DEF Inv
  <2>3. front \in Nat
    BY Constants
  <2>4. ~IsConnected(front)
    BY <1>2, <2>1, <2>2, <2>3 DEF SlotOK
  <2>5. front < NewCapacity /\ ~InQueue(front)'
    BY <1>10, <1>12, <1>6, <1>17
  <2>6. ASSUME NEW w \in Workers, Returning(w), at[w].slot = front
        PROVE  FALSE
    BY <1>2, <2>1, <2>2, <2>3, <2>6 DEF WorkerOK
  <2> QED  BY <2>4, <2>5, <2>6
<1>19. AccepterOK'
  <2>1. /\ newSocket \in Sockets /\ link[newSocket] \in {"open", "gone"} /\ Tokens(newSocket) = 0
        /\ \A i \in Slots : m_socketClient[i] # newSocket
    BY <1>16 DEF Inv, AccepterOK
  <2>2. newSocket' = newSocket /\ link' = link /\ m_socketClient' = m_socketClient
    BY DEF GetEmptyClient
  <2>3. Tokens(newSocket)' = 0
    BY <1>15, <2>1, <2>2
  <2>4. ~IsConnected(front)'
    BY <1>15, <1>18
  <2> QED  BY <1>5, <1>13, <1>17, <1>16, <1>18, <2>1, <2>2, <2>3, <2>4 DEF AccepterOK
<1>20. ASSUME NEW i \in Slots
       PROVE  SlotOK(i)' /\ Accounted(i)'
  <2>1. SlotOK(i) /\ Accounted(i) /\ i \in Nat
    BY Constants DEF Inv
  <2>2. IsConnected(i) => m_socketClient[i] \in Sockets
    BY TypeParts DEF IsConnected
  <2>3. SlotOK(i)'
    <3> SUFFICES ASSUME IsConnected(i)
                 PROVE  SlotOK(i)'
      BY <1>15 DEF SlotOK
    <3>1. m_socketClient'[i] = m_socketClient[i] /\ key' = key /\ link' = link
      BY DEF GetEmptyClient
    <3>2. i < mCurrentCapacity /\ ~InQueue(i)
      BY <2>1 DEF SlotOK
    <3>3. i < mCurrentCapacity'
      BY <1>2, <1>5, <1>7, <2>1, <3>2
    <3>4. ~InQueue(i)'
      BY <1>2, <1>12, <2>1, <3>2
    <3>5. Tokens(m_socketClient[i])' = Tokens(m_socketClient[i])
      BY <1>15, <2>2, <3>1
    <3>6. Tokens(m_socketClient[i]) = 1 \/ \E w \in Workers : Handling(w) /\ at[w].slot = i
      BY <1>16, <2>1 DEF SlotOK
    <3>7. Tokens(m_socketClient[i])' = 1 \/ \E w \in Workers : Handling(w)' /\ at[w].slot' = i
      BY <1>13, <3>5, <3>6 DEF Handling
    <3> QED  BY <1>13, <2>1, <3>1, <3>3, <3>4, <3>5, <3>7 DEF SlotOK
  <2> QED  BY <1>2, <1>5, <1>12, <1>13, <1>15, <1>16, <2>1, <2>3 DEF Accounted, Returning
<1>21. \A s \in Sockets : SocketOK(s)'
  BY <1>15 DEF GetEmptyClient, Inv, SocketOK
<1>22. ASSUME NEW w \in Workers
       PROVE  WorkerOK(w)'
  <2>1. WorkerOK(w) /\ at[w].slot \in Nat
    BY <1>16, Constants DEF Inv
  <2>2. Handling(w) => m_socketClient[at[w].slot] \in Sockets
    BY HandlingFact
  <2>3. Returning(w) => ~InQueue(at[w].slot)' /\ at[w].slot # front /\ at[w].slot < NewCapacity
    <3> SUFFICES ASSUME Returning(w)
                 PROVE  ~InQueue(at[w].slot)' /\ at[w].slot # front /\ at[w].slot < NewCapacity
      OBVIOUS
    <3>1. ~InQueue(at[w].slot) /\ at[w].slot < mCurrentCapacity
      BY <2>1 DEF WorkerOK
    <3>2. at[w].slot # front
      BY <1>18
    <3>3. at[w].slot < NewCapacity /\ ~(at[w].slot >= mCurrentCapacity)
      BY <1>2, <1>5, <1>7, <2>1, <3>1
    <3>4. \A i \in Slots : i = at[w].slot => ~InQueue(i)'
      BY <1>12, <1>17, <3>1, <3>2, <3>3
    <3>5. at[w].slot' = at[w].slot
      BY <1>13
    <3> QED  BY <1>16, <3>2, <3>3, <3>4, <3>5
  <2> QED  BY <1>5, <1>13, <1>15, <1>16, <1>17, <2>1, <2>2, <2>3
           DEF GetEmptyClient, WorkerOK, Handling, Returning
<1> QED  BY <1>11, <1>14, <1>19, <1>20, <1>21, <1>22 DEF Inv

\* The socket the accepter closes when the pool is full was never a slot's.
LEMMA RefuseInv ==
  ASSUME TypeOK, Inv, Refuse
  PROVE  Inv'
<1> USE DEF poolVars, netVars, exitVars
<1>1. at[Accepter].step = "getEmpty"
  BY DEF Refuse, Inv, AccepterOK
<1>2. /\ newSocket \in Sockets /\ Tokens(newSocket) = 0
      /\ \A i \in Slots : m_socketClient[i] # newSocket
  BY <1>1 DEF Inv, AccepterOK
<1>3. \A r \in Sockets : r # newSocket => link'[r] = link[r]
  BY TypeParts DEF Refuse
<1>4. /\ at'[Accepter].step = "idle" /\ \A w \in Workers : at'[w] = at[w]
      /\ at'[PacketThread] = at[PacketThread]
  BY GotoAccepter DEF Refuse, Steps
<1>5. UNCHANGED <<poolVars, m_socketClient, key, posted, done, exitVars>>
  BY DEF Refuse
<1>6. NoExits' /\ QueueExact' /\ AccepterOK'
  BY <1>4, <1>5 DEF Inv, NoExits, QueueExact, AccepterOK, Connecting, Binding
<1>7. ~Connecting /\ ~Binding /\ ~Connecting' /\ ~Binding'
  BY <1>1, <1>4 DEF Connecting, Binding
<1>8. ASSUME NEW i \in Slots
      PROVE  SlotOK(i)' /\ Accounted(i)'
  <2>1. SlotOK(i) /\ Accounted(i)
    BY DEF Inv
  <2>2. IsConnected(i) => m_socketClient[i] \in Sockets /\ m_socketClient[i] # newSocket
    BY <1>2, TypeParts DEF IsConnected
  <2>3. SlotOK(i)'
    BY <1>3, <1>4, <1>5, <1>7, <2>1, <2>2 DEF SlotOK, IsConnected, InQueue, Tokens, Handling
  <2> QED  BY <1>4, <1>5, <1>7, <2>1, <2>3 DEF Accounted, IsConnected, InQueue, Returning
<1>9. \A r \in Sockets : SocketOK(r)'
  BY <1>5 DEF Inv, SocketOK, Tokens
<1>10. ASSUME NEW w \in Workers
       PROVE  WorkerOK(w)'
  <2>1. WorkerOK(w)
    BY DEF Inv
  <2> QED  BY <1>4, <1>5, <1>7, <2>1
           DEF WorkerOK, IsConnected, InQueue, Tokens, Handling, Returning
<1> QED  BY <1>6, <1>8, <1>9, <1>10 DEF Inv

\* The slot gets its socket, and the socket's completions will be for it.
LEMMA ConnectInv ==
  ASSUME TypeOK, Inv, Connect
  PROVE  Inv'
<1> USE DEF poolVars, netVars, exitVars
<1>1. PICK slot \in Slots, s \in Sockets :
        /\ slot = at[Accepter].slot /\ s = newSocket
        /\ slot < mCurrentCapacity /\ ~IsConnected(slot) /\ ~InQueue(slot)
        /\ link[s] \in {"open", "gone"} /\ Tokens(s) = 0
        /\ \A i \in Slots : m_socketClient[i] # s
  BY AtType, Constants DEF Connect, Inv, AccepterOK, Connecting
<1>2. /\ m_socketClient' = [m_socketClient EXCEPT ![slot] = s]
      /\ key' = [key EXCEPT ![s] = slot]
      /\ UNCHANGED <<poolVars, link, posted, done, exitVars, newSocket>>
  BY <1>1 DEF Connect
<1>3. /\ at'[Accepter].step = "bindRecv" /\ at'[Accepter].slot = slot
      /\ \A w \in Workers : at'[w] = at[w]
      /\ at'[PacketThread] = at[PacketThread]
  BY <1>1, GotoAccepter DEF Connect, Steps
<1>4. Connecting /\ ~Binding /\ ~Connecting' /\ Binding'
  BY <1>3 DEF Connect, Connecting, Binding
<1>5. /\ m_socketClient'[slot] = s /\ key'[s] = slot
      /\ \A i \in Slots \ {slot} : m_socketClient'[i] = m_socketClient[i]
      /\ \A r \in Sockets \ {s} : key'[r] = key[r]
  BY <1>2, TypeParts
<1>6. /\ IsConnected(slot)' /\ \A i \in Slots \ {slot} : IsConnected(i)' = IsConnected(i)
      /\ \A i \in Slots : InQueue(i)' = InQueue(i)
      /\ \A r \in Sockets : Tokens(r)' = Tokens(r)
  BY <1>2, <1>5, Constants DEF IsConnected, InQueue, Tokens
<1>7. NoExits' /\ QueueExact'
  BY <1>2, <1>3 DEF Inv, NoExits, QueueExact
<1>8. AccepterOK'
  BY <1>1, <1>3, <1>4, <1>5, <1>6 DEF AccepterOK
<1>9. ASSUME NEW i \in Slots
      PROVE  SlotOK(i)' /\ Accounted(i)'
  <2>1. SlotOK(i) /\ Accounted(i)
    BY DEF Inv
  <2>2. CASE i = slot
    BY <1>1, <1>2, <1>3, <1>4, <1>5, <1>6, <2>2 DEF SlotOK, Accounted
  <2>3. CASE i # slot
    <3>1. IsConnected(i) => m_socketClient[i] \in Sockets \ {s}
      BY <1>1, TypeParts DEF IsConnected
    <3>2. SlotOK(i)'
      BY <1>2, <1>3, <1>4, <1>5, <1>6, <2>1, <2>3, <3>1 DEF SlotOK, Handling
    <3> QED  BY <1>1, <1>2, <1>3, <1>4, <1>6, <2>1, <2>3, <3>2 DEF Accounted, Returning
  <2> QED  BY <2>2, <2>3
<1>10. ASSUME NEW r \in Sockets
       PROVE  SocketOK(r)'
  <2>1. CASE r = s
    BY <1>1, <1>6, <2>1 DEF SocketOK
  <2>2. CASE r # s
    <3>1. Tokens(r) # 0 => key[r] \in Slots \ {slot} /\ m_socketClient[key[r]] = r
      BY <1>1, TokenFact
    <3> QED  BY <1>5, <1>6, <2>2, <3>1 DEF SocketOK
  <2> QED  BY <2>1, <2>2
<1>11. ASSUME NEW w \in Workers
       PROVE  WorkerOK(w)'
  <2>1. WorkerOK(w) /\ at[w].slot \in Slots
    BY AtType, Constants DEF Inv
  <2>2. Handling(w) => at[w].slot # slot /\ m_socketClient[at[w].slot] \in Sockets
    BY <1>1, HandlingFact
  <2>3. Returning(w) => at[w].slot # slot
    BY <1>1, <1>4, <2>1 DEF WorkerOK
  <2> QED  BY <1>2, <1>3, <1>4, <1>5, <1>6, <2>1, <2>2, <2>3 DEF WorkerOK, Handling, Returning
<1> QED  BY <1>7, <1>8, <1>9, <1>10, <1>11 DEF Inv

\* One more receive on a socket with no token.
LEMMA ReceivePosted ==
  ASSUME TypeOK, NEW s \in Sockets, posted' = [posted EXCEPT ![s] = @ + 1], UNCHANGED done
  PROVE  Tokens(s)' = Tokens(s) + 1 /\ \A r \in Sockets \ {s} : Tokens(r)' = Tokens(r)
<1>1. /\ posted[s] \in Nat /\ done[s]["RECV"] \in Nat /\ done[s]["FAIL"] \in Nat
      /\ posted'[s] = posted[s] + 1 /\ \A r \in Sockets \ {s} : posted'[r] = posted[r]
  BY TokenType, TypeParts DEF Kinds
<1> QED  BY <1>1 DEF Tokens

\* Under calm a receive that is called on a slot in use cannot fail.
LEMMA CalmRecv ==
  ASSUME TypeOK, Calm, Calm', NEW t \in Threads, NEW success, NEW failure,
         BindRecv(t, success, failure), Works(at[t].slot)
  PROVE  /\ posted' = [posted EXCEPT ![m_socketClient[at[t].slot]] = @ + 1]
         /\ Goto(t, success) /\ UNCHANGED trouble
BY DEF BindRecv, Fails, Trouble, Calm

LEMMA FirstRecvInv ==
  ASSUME TypeOK, Inv, Calm, Calm', FirstRecv
  PROVE  Inv'
<1> USE DEF poolVars, netVars, exitVars
<1>1. PICK slot \in Slots, s \in Sockets :
        /\ slot = at[Accepter].slot /\ s = m_socketClient[slot]
        /\ IsConnected(slot) /\ Tokens(s) = 0
  BY AtType, TypeParts, Constants DEF FirstRecv, Inv, AccepterOK, Binding, IsConnected
<1>2. Binding /\ SlotOK(slot) /\ key[s] = slot
  BY <1>1 DEF Inv, FirstRecv, Binding, SlotOK
<1>3. \A w \in Workers : Handling(w) => at[w].slot # slot
  BY <1>1, <1>2, HandlingFact
<1>4. Works(slot)
  BY <1>1, <1>2, <1>3 DEF Works, SlotOK, Handling
<1>5. posted' = [posted EXCEPT ![s] = @ + 1] /\ Goto(Accepter, "count") /\ UNCHANGED trouble
  BY <1>1, <1>4, CalmRecv, Constants DEF FirstRecv
<1>6. UNCHANGED <<poolVars, m_socketClient, key, link, done, exitVars, newSocket>>
  BY <1>5 DEF FirstRecv
<1>7. /\ at'[Accepter].step = "count" /\ \A w \in Workers : at'[w] = at[w]
      /\ at'[PacketThread] = at[PacketThread]
  BY <1>5, GotoAccepter DEF Steps
<1>8. Tokens(s)' = 1 /\ \A r \in Sockets \ {s} : Tokens(r)' = Tokens(r)
  <2>1. Tokens(s)' = Tokens(s) + 1 /\ \A r \in Sockets \ {s} : Tokens(r)' = Tokens(r)
    BY <1>5, <1>6, ReceivePosted
  <2> QED  BY <1>1, <2>1
<1>9. ~Connecting /\ ~Connecting' /\ ~Binding'
  BY <1>2, <1>7 DEF Connecting, Binding
<1>10. \A i \in Slots : /\ IsConnected(i)' = IsConnected(i) /\ InQueue(i)' = InQueue(i)
                        /\ i # slot /\ IsConnected(i) => m_socketClient[i] \in Sockets \ {s}
  <2>1. \A i \in Slots : IsConnected(i)' = IsConnected(i) /\ InQueue(i)' = InQueue(i)
    BY <1>6 DEF IsConnected, InQueue
  <2>2. \A i \in Slots : IsConnected(i) => m_socketClient[i] \in Sockets /\ key[m_socketClient[i]] = i
    BY TypeParts DEF Inv, SlotOK, IsConnected
  <2> QED  BY <1>2, <2>1, <2>2
<1>11. NoExits' /\ QueueExact' /\ AccepterOK'
  BY <1>6, <1>7, <1>9 DEF Inv, NoExits, QueueExact, AccepterOK
<1>12. ASSUME NEW i \in Slots
       PROVE  SlotOK(i)' /\ Accounted(i)'
  <2>1. SlotOK(i) /\ Accounted(i)
    BY DEF Inv
  <2>2. SlotOK(i)'
    <3>1. CASE i = slot
      BY <1>1, <1>6, <1>7, <1>8, <1>10, <2>1, <3>1 DEF SlotOK
    <3>2. CASE i # slot
      BY <1>1, <1>6, <1>7, <1>8, <1>9, <1>10, <2>1, <3>2 DEF SlotOK, Handling
    <3> QED  BY <3>1, <3>2
  <2> QED  BY <1>6, <1>7, <1>9, <1>10, <2>1, <2>2 DEF Accounted, Returning
<1>13. \A r \in Sockets : SocketOK(r)'
  BY <1>1, <1>2, <1>6, <1>8 DEF Inv, SocketOK
<1>14. ASSUME NEW w \in Workers
       PROVE  WorkerOK(w)'
  <2>1. WorkerOK(w) /\ at[w].slot \in Slots
    BY AtType, Constants DEF Inv
  <2>2. Handling(w) => m_socketClient[at[w].slot] \in Sockets \ {s}
    BY <1>3, <1>10, <2>1 DEF WorkerOK
  <2> QED  BY <1>6, <1>7, <1>8, <1>9, <1>10, <2>1, <2>2 DEF WorkerOK, Handling, Returning
<1> QED  BY <1>11, <1>12, <1>13, <1>14 DEF Inv

LEMMA CountClientInv ==
  ASSUME TypeOK, Inv, CountClient
  PROVE  Inv'
<1> USE DEF poolVars, netVars, exitVars
<1>1. UNCHANGED <<mCurrentCapacity, mEmptyClients, m_socketClient, netVars, exitVars>>
  BY DEF CountClient
<1>2. /\ at'[Accepter].step = "idle" /\ \A w \in Workers : at'[w] = at[w]
      /\ at'[PacketThread] = at[PacketThread]
  BY GotoAccepter DEF CountClient, Steps
<1>3. ~Connecting /\ ~Binding /\ ~Connecting' /\ ~Binding'
  BY <1>2 DEF CountClient, Connecting, Binding
<1>4. NoExits' /\ QueueExact' /\ AccepterOK'
  BY <1>1, <1>2, <1>3 DEF Inv, NoExits, QueueExact, AccepterOK
<1>5. ASSUME NEW i \in Slots
      PROVE  SlotOK(i)' /\ Accounted(i)'
  <2>1. SlotOK(i) /\ Accounted(i)
    BY DEF Inv
  <2>2. SlotOK(i)'
    BY <1>1, <1>2, <1>3, <2>1 DEF SlotOK, IsConnected, InQueue, Tokens, Handling
  <2> QED  BY <1>1, <1>2, <1>3, <2>1, <2>2 DEF Accounted, IsConnected, InQueue, Returning
<1>6. \A r \in Sockets : SocketOK(r)'
  BY <1>1 DEF Inv, SocketOK, Tokens
<1>7. ASSUME NEW w \in Workers
      PROVE  WorkerOK(w)'
  <2>1. WorkerOK(w)
    BY DEF Inv
  <2> QED  BY <1>1, <1>2, <1>3, <2>1
           DEF WorkerOK, IsConnected, InQueue, Tokens, Handling, Returning
<1> QED  BY <1>4, <1>5, <1>6, <1>7 DEF Inv

\* A worker takes a completion, and is the only one at work on its slot.
LEMMA DequeueInv ==
  ASSUME TypeOK, Inv, NEW w \in Workers, NEW s \in Sockets, NEW kind \in {"RECV", "FAIL"},
         NEW step \in {"bindRecv", "closeClient"}, Dequeue(w, s, kind, step), UNCHANGED exitVars
  PROVE  Inv'
<1> USE DEF poolVars, netVars, exitVars
<1>1. UNCHANGED <<poolVars, m_socketClient, key, link, posted, exitVars, newSocket>>
  BY DEF Dequeue
<1>2. done[s][kind] > 0 /\ at[w].step = "idle" /\ done' = [done EXCEPT ![s][kind] = @ - 1]
  BY DEF Dequeue
<1>3. /\ posted[s] \in Nat /\ done[s]["RECV"] \in Nat /\ done[s]["FAIL"] \in Nat
      /\ \A r \in Sockets \ {s} : done'[r] = done[r]
      /\ done'[s]["CLOSE"] = done[s]["CLOSE"]
      /\ \/ /\ done'[s]["RECV"] = done[s]["RECV"] - 1 /\ done'[s]["FAIL"] = done[s]["FAIL"]
            /\ done[s]["RECV"] > 0
         \/ /\ done'[s]["FAIL"] = done[s]["FAIL"] - 1 /\ done'[s]["RECV"] = done[s]["RECV"]
            /\ done[s]["FAIL"] > 0
  BY <1>2, TokenType, TypeParts DEF Kinds
<1>4. Tokens(s) # 0 /\ Tokens(s)' = Tokens(s) - 1
  BY <1>1, <1>3 DEF Tokens
<1>5. PICK slot \in Slots :
        /\ slot = key[s] /\ m_socketClient[slot] = s /\ IsConnected(slot) /\ Tokens(s) = 1
        /\ \A v \in Workers : Handling(v) => at[v].slot # slot
        /\ ~(Binding /\ at[Accepter].slot = slot)
        /\ link[s] # "closed"
  BY <1>4, TokenFact
<1>6. Tokens(s)' = 0 /\ \A r \in Sockets \ {s} : Tokens(r)' = Tokens(r)
  BY <1>1, <1>3, <1>4, <1>5 DEF Tokens
<1>7. /\ at'[w].step = step /\ at'[w].slot = slot
      /\ \A v \in Workers \ {w} : at'[v] = at[v]
      /\ at'[PacketThread] = at[PacketThread] /\ at'[Accepter] = at[Accepter]
  BY <1>5, GoWorker DEF Dequeue, Steps, Thens
<1>8. /\ \A i \in Slots : /\ IsConnected(i)' = IsConnected(i) /\ InQueue(i)' = InQueue(i)
                          /\ i # slot /\ IsConnected(i) => m_socketClient[i] \in Sockets \ {s}
      /\ Connecting' = Connecting /\ Binding' = Binding
  <2>1. \A i \in Slots : IsConnected(i) => m_socketClient[i] \in Sockets /\ key[m_socketClient[i]] = i
    BY TypeParts DEF Inv, SlotOK, IsConnected
  <2> QED  BY <1>1, <1>5, <1>7, <2>1 DEF IsConnected, InQueue, Connecting, Binding
<1>9. NoExits' /\ QueueExact'
  BY <1>1, <1>3, <1>7 DEF Inv, NoExits, QueueExact
<1>10. AccepterOK'
  <2>1. at[Accepter].slot \in Slots
    BY AtType, Constants
  <2>2. AccepterOK
    BY DEF Inv
  <2>3. newSocket \in Sockets /\ Tokens(newSocket) = 0 => newSocket # s
    BY <1>5
  <2>4. Binding => m_socketClient[at[Accepter].slot] \in Sockets \ {s}
    BY <1>5, <1>8, <2>1, <2>2 DEF AccepterOK
  <2> QED  BY <1>1, <1>6, <1>7, <1>8, <2>1, <2>2, <2>3, <2>4 DEF AccepterOK
<1>11. ASSUME NEW i \in Slots
       PROVE  SlotOK(i)' /\ Accounted(i)'
  <2>1. SlotOK(i) /\ Accounted(i)
    BY DEF Inv
  <2>2. CASE i = slot
    BY <1>1, <1>5, <1>6, <1>7, <1>8, <2>1, <2>2 DEF SlotOK, Accounted, Handling
  <2>3. CASE i # slot
    <3>1. SlotOK(i)'
      BY <1>1, <1>2, <1>6, <1>7, <1>8, <2>1, <2>3 DEF SlotOK, Handling
    <3> QED  BY <1>1, <1>2, <1>7, <1>8, <2>1, <3>1 DEF Accounted, Returning
  <2> QED  BY <2>2, <2>3
<1>12. \A r \in Sockets : SocketOK(r)'
  BY <1>1, <1>6 DEF Inv, SocketOK
<1>13. ASSUME NEW v \in Workers
       PROVE  WorkerOK(v)'
  <2>1. WorkerOK(v) /\ at[v].slot \in Slots
    BY AtType, Constants DEF Inv
  <2>2. CASE v = w
    BY <1>1, <1>5, <1>6, <1>7, <1>8, <2>2 DEF WorkerOK, Handling, Returning
  <2>3. CASE v # w
    <3>1. Handling(v) => at[v].slot # slot
      BY <1>5
    <3> QED  BY <1>1, <1>5, <1>6, <1>7, <1>8, <2>1, <2>3, <3>1 DEF WorkerOK, Handling, Returning
  <2> QED  BY <2>2, <2>3
<1> QED  BY <1>9, <1>10, <1>11, <1>12, <1>13 DEF Inv

\* The token passes from the worker to the receive it posts.
LEMMA RecvAgainInv ==
  ASSUME TypeOK, Inv, Calm, Calm', NEW w \in Workers, RecvAgain(w)
  PROVE  Inv'
<1> USE DEF poolVars, netVars, exitVars
<1>0. Handling(w) /\ at[w].step = "bindRecv" /\ w \in Threads
  BY Constants DEF RecvAgain, Handling
<1>1. PICK slot \in Slots, s \in Sockets :
        /\ slot = at[w].slot /\ s = m_socketClient[slot] /\ key[s] = slot
        /\ IsConnected(slot) /\ Tokens(s) = 0 /\ link[s] # "closed"
        /\ ~(Binding /\ at[Accepter].slot = slot)
        /\ \A v \in Workers : Handling(v) /\ at[v].slot = slot => v = w
  BY <1>0, HandlingFact
<1>2. posted' = [posted EXCEPT ![s] = @ + 1] /\ Goto(w, "idle") /\ UNCHANGED trouble
  <2>1. Works(slot)
    BY <1>1 DEF Works
  <2> QED  BY <1>0, <1>1, <2>1, CalmRecv DEF RecvAgain
<1>3. UNCHANGED <<poolVars, m_socketClient, key, link, done, exitVars, newSocket>>
  BY <1>2 DEF RecvAgain
<1>4. /\ at'[w].step = "idle" /\ \A v \in Workers \ {w} : at'[v] = at[v]
      /\ at'[PacketThread] = at[PacketThread] /\ at'[Accepter] = at[Accepter]
  BY <1>2, GotoWorker DEF Steps
<1>5. Tokens(s)' = 1 /\ \A r \in Sockets \ {s} : Tokens(r)' = Tokens(r)
  <2>1. Tokens(s)' = Tokens(s) + 1 /\ \A r \in Sockets \ {s} : Tokens(r)' = Tokens(r)
    BY <1>2, <1>3, ReceivePosted
  <2> QED  BY <1>1, <2>1
<1>6. /\ \A i \in Slots : /\ IsConnected(i)' = IsConnected(i) /\ InQueue(i)' = InQueue(i)
                          /\ i # slot /\ IsConnected(i) => m_socketClient[i] \in Sockets \ {s}
      /\ Connecting' = Connecting /\ Binding' = Binding
  <2>1. \A i \in Slots : IsConnected(i) => m_socketClient[i] \in Sockets /\ key[m_socketClient[i]] = i
    BY TypeParts DEF Inv, SlotOK, IsConnected
  <2> QED  BY <1>1, <1>3, <1>4, <2>1 DEF IsConnected, InQueue, Connecting, Binding
<1>7. NoExits' /\ QueueExact'
  BY <1>3, <1>4 DEF Inv, NoExits, QueueExact
<1>8. AccepterOK'
  <2>1. at[Accepter].slot \in Slots /\ AccepterOK
    BY AtType, Constants DEF Inv
  <2>2. at[Accepter].step \in {"getEmpty", "connect"} => newSocket \in Sockets \ {s}
    BY <1>1, <2>1 DEF AccepterOK
  <2>3. Binding => m_socketClient[at[Accepter].slot] \in Sockets \ {s}
    BY <1>1, <1>6, <2>1 DEF AccepterOK
  <2> QED  BY <1>3, <1>4, <1>5, <1>6, <2>1, <2>2, <2>3 DEF AccepterOK
<1>9. ASSUME NEW i \in Slots
      PROVE  SlotOK(i)' /\ Accounted(i)'
  <2>1. SlotOK(i) /\ Accounted(i)
    BY DEF Inv
  <2>2. CASE i = slot
    BY <1>1, <1>3, <1>5, <1>6, <2>1, <2>2 DEF SlotOK, Accounted
  <2>3. CASE i # slot
    <3>1. SlotOK(i)'
      BY <1>0, <1>1, <1>3, <1>4, <1>5, <1>6, <2>1, <2>3 DEF SlotOK, Handling
    <3> QED  BY <1>0, <1>3, <1>4, <1>6, <2>1, <3>1 DEF Accounted, Returning
  <2> QED  BY <2>2, <2>3
<1>10. \A r \in Sockets : SocketOK(r)'
  BY <1>1, <1>3, <1>5 DEF Inv, SocketOK
<1>11. ASSUME NEW v \in Workers
       PROVE  WorkerOK(v)'
  <2>1. WorkerOK(v) /\ at[v].slot \in Slots
    BY AtType, Constants DEF Inv
  <2>2. CASE v = w
    BY <1>4, <2>2 DEF WorkerOK, Handling, Returning
  <2>3. CASE v # w
    <3>1. Handling(v) => at[v].slot # slot
      BY <1>1, <2>3
    <3> QED  BY <1>3, <1>4, <1>5, <1>6, <2>1, <2>3, <3>1 DEF WorkerOK, Handling, Returning
  <2> QED  BY <2>2, <2>3
<1> QED  BY <1>7, <1>8, <1>9, <1>10, <1>11 DEF Inv

\* The worker goes on to close the slot it is at work on.
LEMMA CloseClientInv ==
  ASSUME TypeOK, Inv, NEW w \in Workers, CloseClient(w) \/ Close(w)
  PROVE  /\ Inv' /\ Handling(w) /\ Handling(w)' /\ UNCHANGED <<poolVars, exitVars>>
         /\ \A v \in Workers \ {w} : at'[v] = at[v]
         /\ at'[Accepter] = at[Accepter]
<1> USE DEF poolVars, netVars, exitVars
<1>0. Handling(w) /\ at[w].step \in {"closeClient", "close"}
  BY DEF CloseClient, Close, Handling
<1>1. PICK slot \in Slots, s \in Sockets :
        /\ slot = at[w].slot /\ s = m_socketClient[slot] /\ key[s] = slot
        /\ IsConnected(slot) /\ Tokens(s) = 0
        /\ ~(Binding /\ at[Accepter].slot = slot)
        /\ \A v \in Workers : Handling(v) /\ at[v].slot = slot => v = w
  BY <1>0, HandlingFact
<1>2. UNCHANGED <<poolVars, m_socketClient, key, posted, done, exitVars, newSocket>>
  BY DEF CloseClient, Close
<1>3. WorkerOK(w)
  BY DEF Inv
<1>4. /\ \/ at'[w].step = "close" /\ link' = link
         \/ at'[w].step = "initialize" /\ link' = [link EXCEPT ![s] = "closed"]
      /\ at'[w].slot = slot /\ at'[w].then = "push"
      /\ \A v \in Workers \ {w} : at'[v] = at[v]
      /\ at'[PacketThread] = at[PacketThread] /\ at'[Accepter] = at[Accepter]
  <2>1. CASE CloseClient(w)
    <3>1. Go(w, "close", slot, "push") /\ link' = link
      BY <1>1, <2>1 DEF CloseClient, Call
    <3> QED  BY <3>1, GoWorker DEF Steps, Thens
  <2>2. CASE Close(w)
    <3>1. Goto(w, "initialize") /\ link' = [link EXCEPT ![s] = "closed"] /\ at[w].then = "push"
      BY <1>1, <1>3, <2>2 DEF Close, WorkerOK
    <3> QED  BY <1>1, <3>1, GotoWorker DEF Steps
  <2> QED  BY <2>1, <2>2
<1>5. \A r \in Sockets : Tokens(r)' = Tokens(r) /\ (r # s => link'[r] = link[r])
  BY <1>2, <1>4, TypeParts DEF Tokens
<1>6. /\ \A i \in Slots : /\ IsConnected(i)' = IsConnected(i) /\ InQueue(i)' = InQueue(i)
                          /\ i # slot /\ IsConnected(i) => m_socketClient[i] \in Sockets \ {s}
      /\ Connecting' = Connecting /\ Binding' = Binding
      /\ \A v \in Workers : Handling(v)' = Handling(v) /\ Returning(v)' = Returning(v)
                             /\ (Handling(v) \/ Returning(v) => at'[v].slot = at[v].slot)
  <2>1. \A i \in Slots : IsConnected(i) => m_socketClient[i] \in Sockets /\ key[m_socketClient[i]] = i
    BY TypeParts DEF Inv, SlotOK, IsConnected
  <2>2. \A v \in Workers : Handling(v)' = Handling(v) /\ Returning(v)' = Returning(v)
                             /\ (Handling(v) \/ Returning(v) => at'[v].slot = at[v].slot)
    BY <1>0, <1>1, <1>4 DEF Handling, Returning
  <2> QED  BY <1>1, <1>2, <1>4, <2>1, <2>2 DEF IsConnected, InQueue, Connecting, Binding
<1>7. NoExits' /\ QueueExact'
  BY <1>2, <1>4 DEF Inv, NoExits, QueueExact
<1>8. AccepterOK'
  <2>1. at[Accepter].slot \in Slots /\ AccepterOK
    BY AtType, Constants DEF Inv
  <2>2. at[Accepter].step \in {"getEmpty", "connect"} => newSocket \in Sockets \ {s}
    BY <1>1, <2>1 DEF AccepterOK
  <2>3. Binding => m_socketClient[at[Accepter].slot] \in Sockets \ {s}
    BY <1>1, <1>6, <2>1 DEF AccepterOK
  <2> QED  BY <1>2, <1>4, <1>5, <1>6, <2>1, <2>2, <2>3 DEF AccepterOK
<1>9. ASSUME NEW i \in Slots
      PROVE  SlotOK(i)' /\ Accounted(i)'
  <2>1. SlotOK(i) /\ Accounted(i)
    BY DEF Inv
  <2>2. SlotOK(i)'
    <3>1. CASE i = slot
      <4>1. link[s] # "away" /\ link'[s] # "away" /\ (link'[s] = "closed" => at'[w].step = "initialize")
        <5>1. link[s] # "away" /\ link[s] # "closed"
          BY <1>0, <1>1, HandlingFact
        <5> QED  BY <1>4, <5>1, TypeParts
      <4> QED  BY <1>0, <1>1, <1>2, <1>4, <1>5, <1>6, <2>1, <3>1, <4>1 DEF SlotOK
    <3>2. CASE i # slot
      <4> SUFFICES ASSUME IsConnected(i)
                   PROVE  SlotOK(i)'
        BY <1>6 DEF SlotOK
      <4>1. link'[m_socketClient[i]] = link[m_socketClient[i]]
        BY <1>5, <1>6, <3>2
      <4>2. link[m_socketClient[i]] = "closed" =>
              \E v \in Workers : at'[v].step = "initialize" /\ at'[v].slot = i
        BY <1>0, <1>4, <2>1 DEF SlotOK
      <4> QED  BY <1>2, <1>4, <1>5, <1>6, <2>1, <3>2, <4>1, <4>2 DEF SlotOK
    <3> QED  BY <3>1, <3>2
  <2> QED  BY <1>2, <1>4, <1>6, <2>1, <2>2 DEF Accounted
<1>10. \A r \in Sockets : SocketOK(r)'
  BY <1>2, <1>5 DEF Inv, SocketOK
<1>11. ASSUME NEW v \in Workers
       PROVE  WorkerOK(v)'
  <2>1. WorkerOK(v) /\ at[v].slot \in Slots
    BY AtType, Constants DEF Inv
  <2>2. Handling(v) => m_socketClient[at[v].slot] \in Sockets
    BY HandlingFact
  <2> QED  BY <1>1, <1>2, <1>4, <1>5, <1>6, <2>1, <2>2 DEF WorkerOK
<1> QED  BY <1>0, <1>2, <1>4, <1>6, <1>7, <1>8, <1>9, <1>10, <1>11 DEF Inv

\* The slot has no socket any more, and is the worker's to return.
LEMMA InitializeInv ==
  ASSUME TypeOK, Inv, NEW w \in Workers, Initialize(w)
  PROVE  /\ Inv' /\ Handling(w) /\ at'[w].step = "push" /\ UNCHANGED <<poolVars, exitVars>>
         /\ \A v \in Workers \ {w} : at'[v] = at[v]
         /\ at'[Accepter] = at[Accepter]
<1> USE DEF poolVars, netVars, exitVars
<1>0. Handling(w) /\ at[w].step = "initialize" /\ WorkerOK(w)
  BY DEF Initialize, Handling, Inv
<1>1. PICK slot \in Slots, s \in Sockets :
        /\ slot = at[w].slot /\ s = m_socketClient[slot] /\ key[s] = slot
        /\ slot < mCurrentCapacity /\ ~InQueue(slot)
        /\ IsConnected(slot) /\ Tokens(s) = 0
        /\ ~(Binding /\ at[Accepter].slot = slot)
        /\ \A v \in Workers : Handling(v) /\ at[v].slot = slot => v = w
  BY <1>0, HandlingFact
<1>2. /\ m_socketClient' = [m_socketClient EXCEPT ![slot] = INVALID_SOCKET]
      /\ UNCHANGED <<poolVars, netVars, exitVars, newSocket>> /\ Goto(w, "push")
  BY <1>0, <1>1 DEF Initialize, WorkerOK
<1>3. /\ at'[w].step = "push" /\ at'[w].slot = slot
      /\ \A v \in Workers \ {w} : at'[v] = at[v]
      /\ at'[PacketThread] = at[PacketThread] /\ at'[Accepter] = at[Accepter]
  BY <1>1, <1>2, GotoWorker DEF Steps
<1>4. /\ m_socketClient'[slot] = INVALID_SOCKET
      /\ \A i \in Slots \ {slot} : m_socketClient'[i] = m_socketClient[i]
  BY <1>2, TypeParts
<1>5. /\ ~IsConnected(slot)' /\ \A i \in Slots \ {slot} : IsConnected(i)' = IsConnected(i)
      /\ \A i \in Slots : InQueue(i)' = InQueue(i)
      /\ \A r \in Sockets : Tokens(r)' = Tokens(r)
      /\ Connecting' = Connecting /\ Binding' = Binding
  BY <1>2, <1>3, <1>4 DEF IsConnected, InQueue, Tokens, Connecting, Binding
<1>6. /\ at[Accepter].slot \in Slots /\ \A v \in Workers : at[v].slot \in Slots
      /\ \A i \in Slots : SlotOK(i) /\ Accounted(i)
      /\ AccepterOK /\ \A v \in Workers : WorkerOK(v)
  BY AtType, Constants DEF Inv
<1>7. NoExits' /\ QueueExact'
  BY <1>2, <1>3 DEF Inv, NoExits, QueueExact
<1>8. AccepterOK'
  <2>1. Binding => at[Accepter].slot # slot
    BY <1>1
  <2>2. Connecting => ~IsConnected(at[Accepter].slot)'
    <3>1. Connecting => \A i \in Slots : i = at[Accepter].slot => ~IsConnected(i)'
      BY <1>5, <1>6 DEF AccepterOK
    <3> QED  BY <1>3, <1>6, <3>1
  <2>3. newSocket \in Sockets /\ (\A i \in Slots : m_socketClient[i] # newSocket) =>
          \A i \in Slots : m_socketClient'[i] # newSocket
    BY <1>4, Constants
  <2>4. Binding => IsConnected(at[Accepter].slot) /\ m_socketClient[at[Accepter].slot] \in Sockets
    BY <1>6, TypeParts DEF AccepterOK, IsConnected
  <2> QED  BY <1>2, <1>3, <1>4, <1>5, <1>6, <2>1, <2>2, <2>3, <2>4 DEF AccepterOK
<1>9. ASSUME NEW i \in Slots
      PROVE  SlotOK(i)' /\ Accounted(i)'
  <2>1. SlotOK(i) /\ Accounted(i)
    BY <1>6
  <2>2. CASE i = slot
    BY <1>3, <1>5, <2>2 DEF SlotOK, Accounted, Returning
  <2>3. CASE i # slot
    <3>1. SlotOK(i)'
      <4> SUFFICES ASSUME IsConnected(i)
                   PROVE  SlotOK(i)'
        BY <1>5, <2>3 DEF SlotOK
      <4>1. m_socketClient[i] \in Sockets /\ m_socketClient'[i] = m_socketClient[i]
        BY <1>4, <2>3, TypeParts DEF IsConnected
      <4> QED  BY <1>1, <1>2, <1>3, <1>5, <2>1, <2>3, <4>1 DEF SlotOK, Handling
    <3> QED  BY <1>0, <1>2, <1>3, <1>5, <2>1, <2>3, <3>1 DEF Accounted, Returning
  <2> QED  BY <2>2, <2>3
<1>10. ASSUME NEW r \in Sockets
       PROVE  SocketOK(r)'
  <2>1. Tokens(r) # 0 => key[r] \in Slots \ {slot} /\ m_socketClient[key[r]] = r
    BY <1>1, TokenFact
  <2> QED  BY <1>2, <1>4, <1>5, <2>1 DEF SocketOK
<1>11. ASSUME NEW v \in Workers
       PROVE  WorkerOK(v)'
  <2>1. CASE v = w
    <3>1. ~Handling(w)' /\ Returning(w)' /\ at'[w].slot = slot
      BY <1>3 DEF Handling, Returning
    <3>2. Connecting => at[Accepter].slot # slot
      BY <1>1, <1>6 DEF AccepterOK
    <3>3. \A u \in Workers \ {w} : Returning(u) => at[u].slot # slot
      BY <1>1, <1>6 DEF WorkerOK
    <3> QED  BY <1>1, <1>2, <1>3, <1>5, <2>1, <3>1, <3>2, <3>3 DEF WorkerOK, Returning
  <2>2. CASE v # w
    <3>1. Handling(v) => at[v].slot # slot /\ m_socketClient[at[v].slot] \in Sockets
      BY <1>1, <2>2, HandlingFact
    <3>2. Returning(v) => at[v].slot # slot
      BY <1>1, <1>6 DEF WorkerOK
    <3> QED  BY <1>2, <1>3, <1>4, <1>5, <1>6, <2>2, <3>1, <3>2 DEF WorkerOK, Handling, Returning
  <2> QED  BY <2>1, <2>2
<1> QED  BY <1>0, <1>2, <1>3, <1>7, <1>8, <1>9, <1>10, <1>11 DEF Inv

\* The slot goes to the end of the queue, and is the worker's no more.
LEMMA ReturnSlotInv ==
  ASSUME TypeOK, Inv, NEW w \in Workers, ReturnSlot(w)
  PROVE  Inv'
<1> USE DEF poolVars, netVars, exitVars
<1>1. /\ UNCHANGED <<mCurrentCapacity, m_socketClient, netVars, exitVars, newSocket>>
      /\ at[w].step \in {"push", "uncount"} /\ ~Handling(w)
  BY DEF ReturnSlot, Handling
<1>2. /\ at'[w].step \in {"uncount", "idle"}
      /\ \A v \in Workers \ {w} : at'[v] = at[v]
      /\ at'[PacketThread] = at[PacketThread] /\ at'[Accepter] = at[Accepter]
  BY GotoWorker DEF ReturnSlot, Steps
<1>3. /\ \A i \in Slots : IsConnected(i)' = IsConnected(i)
      /\ \A r \in Sockets : Tokens(r)' = Tokens(r)
      /\ Connecting' = Connecting /\ Binding' = Binding
  BY <1>1, <1>2 DEF IsConnected, Tokens, Connecting, Binding
<1>4. /\ at[Accepter].slot \in Slots /\ \A v \in Workers : at[v].slot \in Slots
      /\ \A i \in Slots : SlotOK(i) /\ Accounted(i)
      /\ AccepterOK /\ \A v \in Workers : WorkerOK(v)
  BY AtType, Constants DEF Inv
\* What is in the queue now, when the slot was pushed and when it was not.
<1>5. /\ QueueExact'
      /\ \A i \in Slots : InQueue(i)' <=> InQueue(i) \/ (Returning(w) /\ i = at[w].slot)
  <2>1. CASE at[w].step = "push"
    <3> DEFINE n == Len(mEmptyClients)
    <3>1. mEmptyClients' = Append(mEmptyClients, at[w].slot)
      BY <2>1 DEF ReturnSlot
    <3>2. n \in Nat /\ DOMAIN mEmptyClients = 1..n
      BY TypeParts, LenProperties
    <3>3. /\ DOMAIN mEmptyClients' = 1..(n + 1) /\ mEmptyClients'[n + 1] = at[w].slot
          /\ \A k \in 1..n : mEmptyClients'[k] = mEmptyClients[k]
      <4>1. /\ Append(mEmptyClients, at[w].slot) \in Seq(Slots)
            /\ Len(Append(mEmptyClients, at[w].slot)) = n + 1
            /\ Append(mEmptyClients, at[w].slot)[n + 1] = at[w].slot
            /\ \A k \in 1..n : Append(mEmptyClients, at[w].slot)[k] = mEmptyClients[k]
        BY <1>4, TypeParts, AppendProperties
      <4> QED  BY <3>1, <4>1, LenProperties
    <3>4. /\ at[w].slot < mCurrentCapacity /\ \A k \in 1..n : mEmptyClients[k] # at[w].slot
      BY <1>4, <2>1, <3>2 DEF WorkerOK, Returning, InQueue
    <3> HIDE DEF n
    <3>5. \A k \in 1..(n + 1) : k \in 1..n \/ k = n + 1
      BY <3>2
    <3>6. QueueExact'
      BY <1>1, <3>2, <3>3, <3>4, <3>5 DEF Inv, QueueExact
    <3>7. n + 1 \in 1..(n + 1) /\ \A k \in 1..n : k \in 1..(n + 1)
      BY <3>2
    <3>8. ASSUME NEW i \in Slots
          PROVE  InQueue(i)' <=> InQueue(i) \/ i = at[w].slot
      BY <3>2, <3>3, <3>5, <3>7 DEF InQueue
    <3> QED  BY <2>1, <3>6, <3>8 DEF Returning
  <2>2. CASE at[w].step = "uncount"
    <3>1. mEmptyClients' = mEmptyClients /\ ~Returning(w)
      BY <2>2 DEF ReturnSlot, Returning
    <3> QED  BY <1>1, <3>1 DEF Inv, QueueExact, InQueue
  <2> QED  BY <1>1, <2>1, <2>2
<1>6. NoExits'
  BY <1>1, <1>2 DEF Inv, NoExits
<1>7. AccepterOK'
  <2>1. Connecting => ~InQueue(at[Accepter].slot)'
    <3>1. Connecting => \A i \in Slots : i = at[Accepter].slot => ~InQueue(i)'
      BY <1>4, <1>5 DEF AccepterOK, WorkerOK
    <3> QED  BY <1>2, <1>4, <3>1
  <2>2. Binding => IsConnected(at[Accepter].slot) /\ m_socketClient[at[Accepter].slot] \in Sockets
    BY <1>4, TypeParts DEF AccepterOK, IsConnected
  <2> QED  BY <1>1, <1>2, <1>3, <1>4, <2>1, <2>2 DEF AccepterOK
<1>8. ASSUME NEW i \in Slots
      PROVE  SlotOK(i)' /\ Accounted(i)'
  <2>1. SlotOK(i)'
    <3> SUFFICES ASSUME IsConnected(i)
                 PROVE  SlotOK(i)'
      BY <1>3 DEF SlotOK
    <3>1. m_socketClient[i] \in Sockets
      BY TypeParts DEF IsConnected
    <3>2. ~InQueue(i)'
      BY <1>4, <1>5 DEF SlotOK, WorkerOK
    <3> QED  BY <1>1, <1>2, <1>3, <1>4, <3>1, <3>2 DEF SlotOK, Handling
  <2>2. Accounted(i)'
    <3>1. Accounted(i)
      BY <1>4
    <3> QED  BY <1>1, <1>2, <1>3, <1>5, <3>1 DEF Accounted, Returning
  <2> QED  BY <2>1, <2>2
<1>9. \A r \in Sockets : SocketOK(r)'
  BY <1>1, <1>3 DEF Inv, SocketOK
<1>10. ASSUME NEW v \in Workers
       PROVE  WorkerOK(v)'
  <2>1. CASE v = w
    BY <1>2, <2>1 DEF WorkerOK, Handling, Returning
  <2>2. CASE v # w
    <3>1. at'[v] = at[v] /\ WorkerOK(v)
      BY <1>2, <1>4, <2>2
    <3>2. Handling(v) => m_socketClient[at[v].slot] \in Sockets
      BY HandlingFact
    <3>3. Returning(v) => ~InQueue(at[v].slot)'
      <4>1. Returning(v) => \A i \in Slots : i = at[v].slot => ~InQueue(i)'
        BY <1>4, <1>5, <2>2 DEF WorkerOK
      <4> QED  BY <1>4, <3>1, <4>1
    <3>4. \A u \in Workers : /\ Handling(u)' => Handling(u) /\ at'[u] = at[u]
                            /\ Returning(u)' => Returning(u) /\ at'[u] = at[u]
      BY <1>2 DEF Handling, Returning
    <3>5. Handling(v)' = Handling(v) /\ Returning(v)' = Returning(v)
      BY <3>1 DEF Handling, Returning
    <3>6. /\ Handling(v) => IsConnected(at[v].slot)' /\ Tokens(m_socketClient[at[v].slot])' = 0
          /\ Returning(v) => ~IsConnected(at[v].slot)'
      <4>1. PICK i \in Slots : i = at[v].slot /\ i = at'[v].slot
        BY <1>4, <3>1
      <4>2. Handling(v) => IsConnected(i) /\ Tokens(m_socketClient[i])' = 0
        BY <1>1, <1>3, <3>1, <3>2, <4>1 DEF WorkerOK
      <4>3. Returning(v) => ~IsConnected(i)
        BY <3>1, <4>1 DEF WorkerOK
      <4> QED  BY <1>1, <1>3, <4>1, <4>2, <4>3 DEF IsConnected
    <3>7. at'[v].step \in {"close", "initialize"} => at'[v].then = "push"
      BY <3>1 DEF WorkerOK
    <3>8. /\ Handling(v) => \A u \in Workers : Handling(u)' /\ at'[u].slot = at'[v].slot => u = v
          /\ Returning(v) => \A u \in Workers : Returning(u)' /\ at'[u].slot = at'[v].slot => u = v
      <4>1. ASSUME Handling(v), NEW u \in Workers, Handling(u)', at'[u].slot = at'[v].slot
            PROVE  u = v
        <5>1. at'[u] = at[u] /\ Handling(u)
          BY <1>2, <4>1 DEF Handling
        <5> QED  BY <3>1, <4>1, <5>1 DEF WorkerOK
      <4>2. ASSUME Returning(v), NEW u \in Workers, Returning(u)', at'[u].slot = at'[v].slot
            PROVE  u = v
        <5>1. at'[u] = at[u] /\ Returning(u)
          BY <1>2, <4>2 DEF Returning
        <5> QED  BY <3>1, <4>2, <5>1 DEF WorkerOK
      <4> QED  BY <4>1, <4>2
    <3>9. at'[v].step \in {"idle", "bindRecv", "closeClient", "close", "initialize", "push", "uncount"}
      BY <3>1 DEF WorkerOK
    <3>10. /\ Handling(v) /\ Binding => at'[Accepter].slot # at'[v].slot
           /\ Returning(v) /\ Connecting => at'[Accepter].slot # at'[v].slot
           /\ Returning(v) => at'[v].slot < mCurrentCapacity'
      BY <1>1, <1>2, <3>1 DEF WorkerOK
    <3> QED  BY <1>3, <3>3, <3>5, <3>6, <3>7, <3>8, <3>9, <3>10 DEF WorkerOK
  <2> QED  BY <2>1, <2>2
<1> QED  BY <1>5, <1>6, <1>7, <1>8, <1>9, <1>10 DEF Inv

-----------------------------------------------------------------------------
(* The numbers, in trouble or not.                                          *)

Uncounting == {w \in Workers : at[w].step = "uncount"}

\* What a thread that closes a slot goes on to.
AfterClose ==
  /\ at[Accepter].step \in {"close", "initialize"} => at[Accepter].then = "refuse"
  /\ \A w \in Workers : at[w].step \in {"close", "initialize"} => at[w].then \in {"idle", "push"}

\* The pool grows before the accepter could count more clients than slots.
CountFits == mClientCount + InHand <= mCurrentCapacity

\* The clients counted, or about to be, and the slots taken.
Counted ==
  /\ mCurrentCapacity - Len(mEmptyClients) = mClientCount - Cardinality(Uncounting) + InHand + refused
  /\ CountFits /\ AfterClose

LEMMA NumberTypes ==
  ASSUME TypeOK
  PROVE  /\ Len(mEmptyClients) \in Nat /\ Cardinality(Uncounting) \in Nat /\ IsFiniteSet(Uncounting)
         /\ mClientCount \in Int /\ mCurrentCapacity \in Nat /\ refused \in Nat /\ InHand \in Nat
<1>1. Uncounting \subseteq Workers
  BY DEF Uncounting
<1>2. IsFiniteSet(Uncounting) /\ Cardinality(Uncounting) \in Nat
  BY <1>1, Constants, FS_Subset, FS_CardinalityType
<1> QED  BY <1>2, TypeParts, LenProperties DEF InHand

\* A worker begins to uncount, or has uncounted: the set gains it, or loses it.
LEMMA UncountingStep ==
  ASSUME TypeOK, NEW w \in Workers, \A v \in Workers \ {w} : at'[v] = at[v]
  PROVE  /\ at[w].step # "uncount" /\ at'[w].step = "uncount" =>
              Cardinality(Uncounting') = Cardinality(Uncounting) + 1
         /\ at[w].step = "uncount" /\ at'[w].step # "uncount" =>
              Cardinality(Uncounting') = Cardinality(Uncounting) - 1
         /\ (at[w].step = "uncount" <=> at'[w].step = "uncount") => Uncounting' = Uncounting
<1>1. CASE at[w].step # "uncount" /\ at'[w].step = "uncount"
  <2>1. Uncounting' = Uncounting \cup {w} /\ w \notin Uncounting
    BY <1>1 DEF Uncounting
  <2> QED  BY <1>1, <2>1, NumberTypes, FS_AddElement
<1>2. CASE at[w].step = "uncount" /\ at'[w].step # "uncount"
  <2>1. Uncounting' = Uncounting \ {w} /\ w \in Uncounting
    BY <1>2 DEF Uncounting
  <2> QED  BY <1>2, <2>1, NumberTypes, FS_RemoveElement
<1>3. CASE at[w].step = "uncount" <=> at'[w].step = "uncount"
  <2>1. Uncounting' = Uncounting
    BY <1>3 DEF Uncounting
  <2> QED  BY <1>3, <2>1
<1> QED  BY <1>1, <1>2, <1>3

LEMMA InitCounted ==
  ASSUME Init
  PROVE  Counted
<1>1. Uncounting = {} /\ InHand = 0 /\ mClientCount = 0 /\ refused = 0 /\ AfterClose
  BY Constants DEF Init, Idle, Uncounting, InHand, AfterClose
<1>2. Cardinality(Uncounting) = 0
  BY <1>1, FS_EmptySet
<1>3. Len(mEmptyClients) = mCurrentCapacity /\ mCurrentCapacity \in Nat
  BY InitFact, Constants
<1> QED  BY <1>1, <1>2, <1>3 DEF Counted, CountFits

\* Where the accepter and the workers stay, and with them the pool, the count does.
LEMMA CountStays ==
  ASSUME Counted, UNCHANGED <<poolVars, refused>>, at'[Accepter] = at[Accepter],
         \A w \in Workers : at'[w] = at[w]
  PROVE  Counted'
<1>1. Uncounting' = Uncounting /\ InHand' = InHand /\ AfterClose'
  BY DEF Uncounting, InHand, Counted, AfterClose
<1> QED  BY <1>1 DEF Counted, CountFits, poolVars

\* The accepter goes on with its slot.
LEMMA AccepterGoes ==
  ASSUME TypeOK, Counted, NEW step \in Steps, NEW i \in Slots, NEW then \in Thens,
         Go(Accepter, step, i, then), UNCHANGED <<poolVars, refused>>,
         at[Accepter].step \in {"idle", "getEmpty"} <=> step \in {"idle", "getEmpty"},
         step \in {"close", "initialize"} => then = "refuse"
  PROVE  Counted'
<1>1. /\ at'[Accepter].step = step /\ (step # "idle" => at'[Accepter].then = then)
      /\ \A w \in Workers : at'[w] = at[w]
  BY GoAccepter
<1>2. Uncounting' = Uncounting /\ InHand' = InHand
  BY <1>1 DEF Uncounting, InHand
<1>3. AfterClose'
  BY <1>1 DEF Counted, AfterClose
<1> QED  BY <1>2, <1>3 DEF Counted, CountFits, poolVars

\* A worker goes on, and has not to do with the count.
LEMMA WorkerGoes ==
  ASSUME TypeOK, Counted, NEW w \in Workers, NEW step \in Steps, NEW i \in Slots,
         NEW then \in Thens, Go(w, step, i, then), UNCHANGED <<poolVars, refused>>,
         at[w].step # "uncount", step # "uncount",
         step \in {"close", "initialize"} => then \in {"idle", "push"}
  PROVE  Counted'
<1>1. /\ at'[w].step = step /\ (step # "idle" => at'[w].then = then)
      /\ \A v \in Workers \ {w} : at'[v] = at[v]
      /\ at'[Accepter] = at[Accepter]
  BY GoWorker
<1>2. Uncounting' = Uncounting /\ InHand' = InHand
  BY <1>1, UncountingStep DEF InHand
<1>3. AfterClose'
  BY <1>1 DEF Counted, AfterClose
<1> QED  BY <1>2, <1>3 DEF Counted, CountFits, poolVars

LEMMA AccepterCounted ==
  ASSUME TypeOK, Counted, AccepterThread \/ \E s \in Sockets : Accept(s)
  PROVE  Counted'
<1> USE DEF netVars, exitVars
<1>0. /\ at[Accepter].step \in Steps /\ at[Accepter].slot \in Slots /\ at[Accepter].then \in Thens
      /\ Accepter \in Threads
  BY AtType, Constants
<1>1. CASE \E s \in Sockets : Accept(s)
  <2>1. Go(Accepter, "getEmpty", at[Accepter].slot, at[Accepter].then)
    BY <1>1 DEF Accept, Goto
  <2> QED  BY <1>0, <1>1, <2>1, AccepterGoes DEF Accept, Steps
<1>2. CASE GetEmptyClient
  <2>1. /\ NewCapacity \in Nat /\ NewCapacity >= mCurrentCapacity
        /\ mClientCount = mCurrentCapacity => NewCapacity > mCurrentCapacity
        /\ WithNewSlots \in Seq(Slots) /\ WithNewSlots # <<>>
        /\ Len(WithNewSlots) = Len(mEmptyClients) + NewCapacity - mCurrentCapacity
    BY <1>2, NewSlotsFact DEF GetEmptyClient
  <2>2. Head(WithNewSlots) \in Slots /\ Len(Tail(WithNewSlots)) = Len(WithNewSlots) - 1
    BY <2>1, HeadTailProperties
  <2>3. at'[Accepter].step = "connect" /\ \A w \in Workers : at'[w] = at[w]
    BY <1>2, <2>2, GoAccepter DEF GetEmptyClient, Steps, Thens
  <2>4. InHand = 0 /\ InHand' = 1 /\ Uncounting' = Uncounting
    BY <1>2, <2>3 DEF GetEmptyClient, InHand, Uncounting
  <2>5. /\ mCurrentCapacity' = NewCapacity /\ mClientCount' = mClientCount /\ refused' = refused
        /\ mEmptyClients' = Tail(WithNewSlots)
    BY <1>2 DEF GetEmptyClient
  <2>6. Len(mEmptyClients') = Len(mEmptyClients) + NewCapacity - mCurrentCapacity - 1
    BY <2>1, <2>2, <2>5, NumberTypes
  <2>7. AfterClose'
    BY <2>3 DEF Counted, AfterClose
  <2>8. CountFits'
    BY <2>1, <2>4, <2>5, NumberTypes DEF Counted, CountFits
  <2>9. /\ Len(mEmptyClients) \in Nat /\ Cardinality(Uncounting) \in Nat
        /\ mClientCount \in Int /\ mCurrentCapacity \in Nat /\ refused \in Nat
    BY NumberTypes
  <2> QED  BY <2>1, <2>4, <2>5, <2>6, <2>7, <2>8, <2>9 DEF Counted
<1>3. CASE Refuse
  <2>1. Go(Accepter, "idle", at[Accepter].slot, at[Accepter].then) /\ UNCHANGED poolVars
    BY <1>3 DEF Refuse, Goto
  <2>2. CASE at[Accepter].step = "refuse"
    <3>1. at'[Accepter].step = "idle" /\ \A w \in Workers : at'[w] = at[w]
      BY <1>0, <2>1, GoAccepter DEF Steps
    <3>2. /\ InHand = 1 /\ InHand' = 0 /\ Uncounting' = Uncounting /\ refused' = refused + 1
          /\ AfterClose'
      BY <1>3, <2>2, <3>1 DEF Refuse, InHand, Uncounting, Counted, AfterClose
    <3> QED  BY <2>1, <3>2, NumberTypes DEF Counted, CountFits, poolVars
  <2>3. CASE at[Accepter].step # "refuse"
    <3>1. at[Accepter].step = "getEmpty" /\ refused' = refused
      BY <1>3, <2>3 DEF Refuse
    <3> QED  BY <1>0, <2>1, <3>1, AccepterGoes DEF Steps
  <2> QED  BY <2>2, <2>3
<1>4. CASE Connect
  <2>1. Go(Accepter, "bindRecv", at[Accepter].slot, at[Accepter].then)
    BY <1>4 DEF Connect, Goto
  <2> QED  BY <1>0, <1>4, <2>1, AccepterGoes DEF Connect, Steps
<1>5. CASE FirstRecv
  <2>1. \/ Go(Accepter, "count", at[Accepter].slot, at[Accepter].then)
        \/ Go(Accepter, "close", at[Accepter].slot, "refuse")
    BY <1>5 DEF FirstRecv, BindRecv, Goto, Call
  <2>2. UNCHANGED <<poolVars, refused>> /\ at[Accepter].step = "bindRecv"
    BY <1>5 DEF FirstRecv
  <2> QED  BY <1>0, <2>1, <2>2, AccepterGoes DEF Steps, Thens
<1>6. CASE CountClient
  <2>1. Go(Accepter, "idle", at[Accepter].slot, at[Accepter].then)
    BY <1>6 DEF CountClient, Goto
  <2>2. at'[Accepter].step = "idle" /\ \A w \in Workers : at'[w] = at[w]
    BY <1>0, <2>1, GoAccepter DEF Steps
  <2>3. /\ InHand = 1 /\ InHand' = 0 /\ Uncounting' = Uncounting /\ refused' = refused
        /\ mClientCount' = mClientCount + 1 /\ AfterClose'
        /\ UNCHANGED <<mCurrentCapacity, mEmptyClients>>
    BY <1>6, <2>2 DEF CountClient, InHand, Uncounting, Counted, AfterClose
  <2> QED  BY <2>3, NumberTypes DEF Counted, CountFits
<1>7. CASE Close(Accepter) \/ Initialize(Accepter)
  <2>1. at[Accepter].step \in {"close", "initialize"} /\ at[Accepter].then = "refuse"
        /\ UNCHANGED <<poolVars, refused>>
    BY <1>7 DEF Close, Initialize, Counted, AfterClose
  <2>2. \E step \in {"initialize", "refuse"} : Go(Accepter, step, at[Accepter].slot, at[Accepter].then)
    BY <1>7, <2>1 DEF Close, Initialize, Goto
  <2> QED  BY <1>0, <2>1, <2>2, AccepterGoes DEF Steps
<1> QED  BY <1>1, <1>2, <1>3, <1>4, <1>5, <1>6, <1>7 DEF AccepterThread

LEMMA WorkerCounted ==
  ASSUME TypeOK, Counted, NEW w \in Workers, WorkerThread(w)
  PROVE  Counted'
<1> USE DEF netVars, exitVars
<1>0. /\ at[w].step \in Steps /\ at[w].slot \in Slots /\ at[w].then \in Thens
      /\ w \in Threads
  BY AtType, Constants
<1>1. ASSUME NEW s \in Sockets, Receive(w, s) \/ CloseCompletion(w, s)
      PROVE  Counted'
  <2>1. /\ \E step \in {"bindRecv", "closeClient"} : Go(w, step, key[s], "idle")
        /\ at[w].step = "idle" /\ UNCHANGED <<poolVars, refused>>
    BY <1>1 DEF Receive, CloseCompletion, Dequeue
  <2> QED  BY <1>0, <2>1, TypeParts, WorkerGoes DEF Steps, Thens
<1>2. CASE RecvAgain(w)
  <2>1. \/ Go(w, "idle", at[w].slot, at[w].then)
        \/ Go(w, "close", at[w].slot, "idle")
    BY <1>2 DEF RecvAgain, BindRecv, Goto, Call
  <2>2. UNCHANGED <<poolVars, refused>> /\ at[w].step = "bindRecv"
    BY <1>2 DEF RecvAgain
  <2> QED  BY <1>0, <2>1, <2>2, WorkerGoes DEF Steps, Thens
<1>3. CASE CloseClient(w)
  <2>1. \/ Go(w, "close", at[w].slot, "push")
        \/ Go(w, "idle", at[w].slot, at[w].then)
    BY <1>3 DEF CloseClient, Goto, Call
  <2>2. UNCHANGED <<poolVars, refused>> /\ at[w].step = "closeClient"
    BY <1>3 DEF CloseClient
  <2> QED  BY <1>0, <2>1, <2>2, WorkerGoes DEF Steps, Thens
<1>4. CASE Close(w) \/ Initialize(w)
  <2>1. at[w].step \in {"close", "initialize"} /\ at[w].then \in {"idle", "push"}
        /\ UNCHANGED <<poolVars, refused>>
    BY <1>4 DEF Close, Initialize, Counted, AfterClose
  <2>2. \E step \in {"initialize", "idle", "push"} : Go(w, step, at[w].slot, at[w].then)
    BY <1>4, <2>1 DEF Close, Initialize, Goto
  <2> QED  BY <1>0, <2>1, <2>2, WorkerGoes DEF Steps
<1>5. CASE ReturnSlot(w) /\ at[w].step = "push"
  <2>1. Go(w, "uncount", at[w].slot, at[w].then)
    BY <1>5 DEF ReturnSlot, Goto
  <2>2. /\ at'[w].step = "uncount" /\ at'[Accepter] = at[Accepter]
        /\ \A v \in Workers \ {w} : at'[v] = at[v]
    BY <1>0, <2>1, GoWorker DEF Steps
  <2>3. Cardinality(Uncounting') = Cardinality(Uncounting) + 1
    BY <1>5, <2>2, UncountingStep
  <2>4. /\ mEmptyClients' = Append(mEmptyClients, at[w].slot)
        /\ UNCHANGED <<mClientCount, mCurrentCapacity, refused>>
    BY <1>5 DEF ReturnSlot
  <2>5. Len(mEmptyClients') = Len(mEmptyClients) + 1
    BY <1>0, <2>4, TypeParts, AppendProperties
  <2>6. InHand' = InHand /\ AfterClose'
    BY <2>2 DEF InHand, Counted, AfterClose
  <2>7. /\ Len(mEmptyClients) \in Nat /\ Cardinality(Uncounting) \in Nat
        /\ mClientCount \in Int /\ mCurrentCapacity \in Nat /\ refused \in Nat /\ InHand \in Nat
    BY NumberTypes
  <2>8. CountFits'
    BY <2>4, <2>6 DEF Counted, CountFits
  <2>9. mCurrentCapacity - Len(mEmptyClients) =
          mClientCount - Cardinality(Uncounting) + InHand + refused
    BY DEF Counted
  <2>10. PICK n \in Nat, u \in Nat, c \in Int, m \in Nat, h \in Nat, r \in Nat :
           /\ n = Len(mEmptyClients) /\ u = Cardinality(Uncounting) /\ c = mClientCount
           /\ m = mCurrentCapacity /\ h = InHand /\ r = refused
    BY <2>7
  <2>11. m - n = c - u + h + r
    BY <2>9, <2>10
  <2>12. m - (n + 1) = c - (u + 1) + h + r
    BY <2>11
  <2>13. (mCurrentCapacity - Len(mEmptyClients))' =
           (mClientCount - Cardinality(Uncounting) + InHand + refused)'
    BY <2>3, <2>4, <2>5, <2>6, <2>10, <2>12
  <2> QED  BY <2>6, <2>8, <2>13 DEF Counted
<1>6. CASE ReturnSlot(w) /\ at[w].step = "uncount"
  <2>1. Go(w, "idle", at[w].slot, at[w].then)
    BY <1>6 DEF ReturnSlot, Goto
  <2>2. /\ at'[w].step = "idle" /\ at'[Accepter] = at[Accepter]
        /\ \A v \in Workers \ {w} : at'[v] = at[v]
    BY <1>0, <2>1, GoWorker DEF Steps
  <2>3. Cardinality(Uncounting') = Cardinality(Uncounting) - 1
    BY <1>6, <2>2, UncountingStep
  <2>4. mClientCount' = mClientCount - 1 /\ UNCHANGED <<mEmptyClients, mCurrentCapacity, refused>>
    BY <1>6 DEF ReturnSlot
  <2>5. InHand' = InHand /\ AfterClose'
    BY <2>2 DEF InHand, Counted, AfterClose
  <2> QED  BY <2>3, <2>4, <2>5, NumberTypes DEF Counted, CountFits
<1> QED  BY <1>1, <1>2, <1>3, <1>4, <1>5, <1>6 DEF WorkerThread, ReturnSlot

LEMMA SenderCounted ==
  ASSUME TypeOK, Counted,
         Sender \/ \E s \in Sockets : Leave(s) \/ Complete(s) \/ CompleteSend(s)
  PROVE  Counted'
<1>1. UNCHANGED <<poolVars, refused>>
  BY DEF Sender, Leave, Complete, CompleteSend, SendMsg, Exits, SendClose, Close, Initialize
<1>2. \A t \in Threads \ {PacketThread} : at'[t] = at[t]
  BY DEF Sender, Leave, Complete, CompleteSend, SendMsg, Exits, SendClose, Close, Initialize,
         Goto, Call, Go, TypeOK
<1> QED  BY <1>1, <1>2, CountStays, Constants

LEMMA NextCounted == TypeOK /\ Counted /\ [Next]_vars => Counted'
<1>1. Counted /\ UNCHANGED vars => Counted'
  BY CountStays DEF vars
<1> QED  BY <1>1, AccepterCounted, WorkerCounted, SenderCounted DEF Next

LEMMA CountedHolds == Spec => [](TypeOK /\ Counted)
<1>1. Init => Counted
  BY InitCounted
<1> QED  BY <1>1, InitType, NextType, NextCounted, PTL DEF Spec

-----------------------------------------------------------------------------
(* Until trouble comes.                                                     *)

\* Trouble that has come stays.
LEMMA CalmBack == TypeOK /\ [Next]_vars /\ Calm' => Calm
<1> SUFFICES ASSUME TypeOK, [Next]_vars, Calm'
             PROVE  Calm
  OBVIOUS
<1> USE DEF poolVars, netVars, exitVars
<1>1. trouble' = trouble \/ trouble' = trouble + 1
  BY DEF Next, vars, AccepterThread, WorkerThread, Sender, Accept, Leave, Complete, CompleteSend,
         GetEmptyClient, Refuse, Connect, FirstRecv, CountClient, Close, Initialize, BindRecv,
         Receive, CloseCompletion, RecvAgain, CloseClient, ReturnSlot, Exits, SendMsg, SendClose,
         Fails, Trouble
<1> QED  BY <1>1, TypeParts, Constants DEF Calm

\* A send that does not fail disturbs nothing.
LEMMA InvStays ==
  ASSUME Inv, UNCHANGED <<poolVars, m_socketClient, key, link, posted, done, exitVars, at, newSocket>>
  PROVE  Inv'
BY DEF poolVars, exitVars, Inv, NoExits, QueueExact, AccepterOK, SlotOK, SocketOK,
       WorkerOK, Accounted, IsConnected, InQueue, Tokens, Handling, Returning, Binding, Connecting

LEMMA SenderInv ==
  ASSUME TypeOK, Inv, Calm, Calm', Sender \/ \E s \in Sockets : CompleteSend(s)
  PROVE  Inv'
<1>1. CASE \E s \in Sockets : CompleteSend(s)
  <2>1. UNCHANGED <<poolVars, m_socketClient, key, link, posted, done, exitVars, at, newSocket>>
    BY <1>1 DEF CompleteSend, Trouble, Calm, exitVars
  <2> QED  BY <2>1, InvStays
<1>2. CASE SendMsg
  <2>1. \A i \in Slots : ~Fails(i)
    BY DEF Fails, Trouble, Calm
  <2>2. UNCHANGED <<poolVars, m_socketClient, key, link, posted, done, exitVars, at, newSocket>>
    BY <1>2, <2>1 DEF SendMsg, exitVars
  <2> QED  BY <2>2, InvStays
<1>3. ~(Exits \/ SendClose \/ Close(PacketThread) \/ Initialize(PacketThread))
  BY DEF Exits, SendClose, Close, Initialize, Inv, NoExits
<1> QED  BY <1>1, <1>2, <1>3 DEF Sender

LEMMA AccepterInv ==
  ASSUME TypeOK, Inv, Calm, Calm',
         AccepterThread \/ \E s \in Sockets : Accept(s) \/ Leave(s) \/ Complete(s)
  PROVE  Inv'
<1>1. ~(Close(Accepter) \/ Initialize(Accepter))
  BY DEF Close, Initialize, Inv, AccepterOK
<1> QED  BY <1>1, AcceptInv, NetworkInv, GetEmptyClientInv, RefuseInv, ConnectInv, FirstRecvInv,
            CountClientInv DEF AccepterThread

LEMMA WorkerInv ==
  ASSUME TypeOK, Inv, Calm, Calm', NEW w \in Workers, WorkerThread(w)
  PROVE  Inv'
<1>1. ASSUME NEW s \in Sockets, Receive(w, s)
      PROVE  Inv'
  <2>1. UNCHANGED exitVars
    BY <1>1 DEF Receive, Trouble, Calm
  <2> QED  BY <1>1, <2>1, DequeueInv DEF Receive
<1>2. ASSUME NEW s \in Sockets, CloseCompletion(w, s)
      PROVE  Inv'
  <2>1. ~Dequeue(w, s, "CLOSE", "closeClient")
    BY DEF Dequeue, Inv, NoExits
  <2> QED  BY <1>2, <2>1, DequeueInv DEF CloseCompletion
<1> QED  BY <1>1, <1>2, RecvAgainInv, CloseClientInv, InitializeInv, ReturnSlotInv DEF WorkerThread

\* The accepter loses a slot only by a call that failed.
CalmOK == Calm => Inv /\ refused = 0

LEMMA NextOK == TypeOK /\ CalmOK /\ [Next]_vars => CalmOK'
<1> SUFFICES ASSUME TypeOK, CalmOK, [Next]_vars, Calm'
             PROVE  Inv' /\ refused' = 0
  BY DEF CalmOK
<1>1. Calm /\ Inv /\ refused = 0
  BY CalmBack DEF CalmOK
<1>2. Inv'
  <2>1. CASE UNCHANGED vars
    <3>1. UNCHANGED <<poolVars, m_socketClient, key, link, posted, done, exitVars, at, newSocket>>
      BY <2>1 DEF vars, netVars
    <3> QED  BY <1>1, <3>1, InvStays
  <2> QED  BY <1>1, <2>1, AccepterInv, WorkerInv, SenderInv DEF Next
<1>3. refused' = refused
  <2>1. Refuse => refused' = refused
    BY <1>1 DEF Refuse, Inv, AccepterOK
  <2> QED  BY <2>1 DEF Next, vars, AccepterThread, WorkerThread, Sender, Accept, Leave, Complete,
         CompleteSend, GetEmptyClient, Connect, FirstRecv, CountClient, Close, Initialize,
         Receive, CloseCompletion, Dequeue, RecvAgain, CloseClient, ReturnSlot, Exits, SendMsg,
         SendClose
<1> QED  BY <1>1, <1>2, <1>3

LEMMA InvHolds == Spec => [](TypeOK /\ CalmOK)
<1>1. Init => CalmOK
  BY InitInv DEF CalmOK, Init
<1> QED  BY <1>1, InitType, NextType, NextOK, PTL DEF Spec

-----------------------------------------------------------------------------
(* What follows.                                                            *)

\* A set of one thing at most is counted by asking whether there is one.
LEMMA CountAtMostOne ==
  ASSUME NEW S, \A a, b \in S : a = b
  PROVE  Cardinality(S) = IF S = {} THEN 0 ELSE 1
<1>1. CASE S = {}
  BY <1>1, FS_EmptySet
<1>2. CASE S # {}
  <2>1. PICK a \in S : TRUE
    BY <1>2
  <2>2. S = {a}
    BY <2>1
  <2> QED  BY <1>2, <2>2, FS_Singleton
<1> QED  BY <1>1, <1>2

LEMMA SlotsFollow == TypeOK /\ CalmOK => SlotsExact
<1> SUFFICES ASSUME TypeOK, Inv, NEW i \in 0..(mCurrentCapacity - 1)
             PROVE  1 = Cardinality({k \in DOMAIN mEmptyClients : mEmptyClients[k] = i})
                          + Cardinality({w \in Workers : at[w].step = "push" /\ at[w].slot = i})
                          + (IF at[Accepter].step = "connect" /\ at[Accepter].slot = i THEN 1 ELSE 0)
                          + (IF IsConnected(i) THEN 1 ELSE 0)
  BY DEF CalmOK, SlotsExact
<1> DEFINE queued == {k \in DOMAIN mEmptyClients : mEmptyClients[k] = i}
           pushing == {w \in Workers : at[w].step = "push" /\ at[w].slot = i}
<1>1. i \in Slots /\ i < mCurrentCapacity
  BY TypeParts, Constants DEF Slots
<1>2. SlotOK(i) /\ Accounted(i) /\ AccepterOK /\ QueueExact /\ \A w \in Workers : WorkerOK(w)
  BY <1>1 DEF Inv
<1>3. Cardinality(queued) = IF queued = {} THEN 0 ELSE 1
  <2>1. \A k, l \in queued : k = l
    BY <1>2 DEF QueueExact
  <2> HIDE DEF queued
  <2> QED  BY <2>1, CountAtMostOne
<1>4. Cardinality(pushing) = IF pushing = {} THEN 0 ELSE 1
  <2>1. \A v, w \in pushing : v = w
    BY <1>2 DEF WorkerOK, Returning
  <2> HIDE DEF pushing
  <2> QED  BY <2>1, CountAtMostOne
<1>5. queued # {} <=> InQueue(i)
  BY DEF InQueue
<1>6. pushing # {} <=> \E w \in Workers : Returning(w) /\ at[w].slot = i
  BY DEF Returning
<1> HIDE DEF queued, pushing
<1>7. CASE InQueue(i)
  <2>1. ~IsConnected(i) /\ ~(Connecting /\ at[Accepter].slot = i) /\ pushing = {}
    BY <1>2, <1>6, <1>7 DEF SlotOK, AccepterOK, WorkerOK
  <2> QED  BY <1>3, <1>4, <1>5, <1>7, <2>1 DEF queued, pushing, Connecting
<1>8. CASE IsConnected(i)
  <2>1. ~InQueue(i) /\ ~(Connecting /\ at[Accepter].slot = i) /\ pushing = {}
    BY <1>2, <1>6, <1>8 DEF SlotOK, AccepterOK, WorkerOK
  <2> QED  BY <1>3, <1>4, <1>5, <1>8, <2>1 DEF queued, pushing, Connecting
<1>9. CASE Connecting /\ at[Accepter].slot = i
  <2>1. ~InQueue(i) /\ ~IsConnected(i) /\ pushing = {}
    BY <1>2, <1>6, <1>9 DEF AccepterOK, WorkerOK
  <2> QED  BY <1>3, <1>4, <1>5, <1>9, <2>1 DEF queued, pushing, Connecting
<1>10. CASE pushing # {}
  <2>1. ~InQueue(i) /\ ~IsConnected(i) /\ ~(Connecting /\ at[Accepter].slot = i)
    BY <1>2, <1>6, <1>10 DEF AccepterOK, WorkerOK
  <2> QED  BY <1>3, <1>4, <1>5, <1>10, <2>1 DEF queued, pushing, Connecting
<1> QED  BY <1>1, <1>2, <1>6, <1>7, <1>8, <1>9, <1>10 DEF Accounted

LEMMA CountFollows == Counted => CountExact
BY DEF CountExact, Counted, Uncounting

LEMMA FrontFollows == TypeOK /\ Counted => FrontExists
<1> SUFFICES ASSUME TypeOK, Counted, refused = 0, at[Accepter].step = "getEmpty", ~Full,
                    WithNewSlots = <<>>
             PROVE  FALSE
  BY DEF FrontExists
<1>1. /\ NewCapacity \in Nat /\ NewCapacity >= mCurrentCapacity
      /\ mClientCount = mCurrentCapacity => NewCapacity > mCurrentCapacity
      /\ Len(WithNewSlots) = Len(mEmptyClients) + NewCapacity - mCurrentCapacity
      /\ Len(WithNewSlots) = 0
  BY NewSlotsFact, EmptySeq
<1>2. InHand = 0
  BY DEF InHand
<1>3. /\ Len(mEmptyClients) \in Nat /\ Cardinality(Uncounting) \in Nat
      /\ mClientCount \in Int /\ mCurrentCapacity \in Nat /\ refused \in Nat
  BY NumberTypes
<1> QED  BY <1>1, <1>2, <1>3 DEF Counted, CountFits

LEMMA ReceiveFollows == TypeOK /\ CalmOK => OneReceive
<1> SUFFICES ASSUME TypeOK, Inv, NEW s \in Sockets
             PROVE  posted[s] <= 1
  BY DEF CalmOK, OneReceive
<1>1. posted[s] \in Nat /\ done[s]["RECV"] \in Nat /\ done[s]["FAIL"] \in Nat
  BY TokenType DEF Kinds
<1>2. Tokens(s) \in {0, 1}
  BY TokenFact
<1> QED  BY <1>1, <1>2 DEF Tokens

LEMMA IntervalSize ==
  \A n \in Nat : Cardinality(1..n) = n /\ IsFiniteSet(1..n) /\ Cardinality(0..(n - 1)) = n
<1> SUFFICES ASSUME NEW n \in Nat
             PROVE  Cardinality(1..n) = n /\ IsFiniteSet(1..n) /\ Cardinality(0..(n - 1)) = n
  OBVIOUS
<1>1. Cardinality(1..n) = (IF 1 > n THEN 0 ELSE n - 1 + 1) /\ IsFiniteSet(1..n)
  BY FS_Interval
<1>2. n - 1 \in Int /\ 0 \in Int
  OBVIOUS
<1>3. Cardinality(0..(n - 1)) = (IF 0 > n - 1 THEN 0 ELSE (n - 1) - 0 + 1)
  BY <1>2, FS_Interval
<1> QED  BY <1>1, <1>3

\* With nothing under way no slot is connected, so all of them are in the queue.
LEMMA ReturnedFollows == TypeOK /\ CalmOK /\ Counted => AllReturned
<1> SUFFICES ASSUME TypeOK, Inv, refused = 0, Counted, \A t \in Threads : at[t] = Idle,
                    \A s \in Sockets : posted[s] = 0 /\ \A k \in Kinds : done[s][k] = 0
             PROVE  mClientCount = 0 /\ Len(mEmptyClients) = mCurrentCapacity
  BY DEF CalmOK, AllReturned
<1>1. /\ \A t \in Threads : at[t].step = "idle"
      /\ \A s \in Sockets : Tokens(s) = 0
  BY DEF Idle, Tokens, Kinds
<1>2. \A i \in Slots : ~IsConnected(i)
  <2>1. \A i \in Slots : SlotOK(i) /\ (IsConnected(i) => m_socketClient[i] \in Sockets)
    BY TypeParts DEF Inv, IsConnected
  <2>2. /\ \A w \in Workers : ~Handling(w)
        /\ ~Binding
    BY <1>1, Constants DEF Handling, Binding
  <2>3. ASSUME NEW i \in Slots, IsConnected(i)
        PROVE  FALSE
    <3>1. Tokens(m_socketClient[i]) = 0
      BY <1>1, <2>1, <2>3
    <3> QED  BY <2>1, <2>2, <2>3, <3>1 DEF SlotOK
  <2> QED  BY <2>3
<1>3. /\ Len(mEmptyClients) \in Nat /\ mCurrentCapacity \in Nat
      /\ mCurrentCapacity <= MaxClientCount
      /\ mEmptyClients \in [1..Len(mEmptyClients) -> Slots]
  BY TypeParts, LenProperties, Constants
<1> DEFINE held == 0..(mCurrentCapacity - 1)
           places == 1..Len(mEmptyClients)
<1>4. \A i \in held : \E k \in places : mEmptyClients[k] = i
  <2>1. \A i \in held : i \in Slots /\ i < mCurrentCapacity
    BY <1>3, Constants DEF Slots
  <2>2. \A i \in held : Accounted(i)
    BY <2>1 DEF Inv
  <2> QED  BY <1>1, <1>2, <1>3, <2>1, <2>2, Constants DEF Accounted, InQueue, Returning, Connecting
<1>5. mEmptyClients \in [places -> held]
  <2>1. \A k \in places : mEmptyClients[k] \in Slots /\ mEmptyClients[k] < mCurrentCapacity
    BY <1>3 DEF Inv, QueueExact
  <2>2. \A i \in Slots : i < mCurrentCapacity => i \in held
    BY <1>3, Constants DEF Slots
  <2>3. \A k \in places : mEmptyClients[k] \in held
    BY <2>1, <2>2
  <2> QED  BY <1>3, <2>3
<1>6. \A k, l \in places : mEmptyClients[k] = mEmptyClients[l] => k = l
  BY <1>3 DEF Inv, QueueExact
<1>7. Cardinality(places) = Len(mEmptyClients) /\ Cardinality(held) = mCurrentCapacity
      /\ IsFiniteSet(places)
  BY <1>3, IntervalSize
<1> HIDE DEF held, places
<1>8. ExistsBijection(places, held)
  <2>1. mEmptyClients \in Bijection(places, held)
    BY <1>4, <1>5, <1>6, Fun_IsBij
  <2> QED  BY <2>1, Fun_ExistsBij
<1>9. Len(mEmptyClients) = mCurrentCapacity
  BY <1>7, <1>8, FS_Bijection
<1>10. Uncounting = {} /\ InHand = 0
  BY <1>1, Constants DEF Uncounting, InHand
<1>11. Cardinality(Uncounting) = 0 /\ mClientCount \in Int
  BY <1>10, TypeParts, FS_EmptySet
<1> QED  BY <1>3, <1>9, <1>10, <1>11 DEF Counted

\* GetEmptyClient, CreateClient and CloseClient: until trouble comes a slot has one
\* owner at a time, however the threads that pass it on interleave.
THEOREM OneOwner == Spec => []SlotsExact
BY InvHolds, SlotsFollow, PTL

\* The count and the queue, each under its own lock, differ by what is in hand and
\* what the accepter lost; also where sends fail and slots are returned twice.
THEOREM CountFollowsQueue == Spec => []CountExact
BY CountedHolds, CountFollows, PTL

\* Unless it has lost a slot the accepter's front() is never that of an empty queue;
\* also where sends fail and slots are returned twice.
THEOREM QueueHasFront == Spec => []FrontExists
BY CountedHolds, FrontFollows, PTL

\* Until trouble comes a socket never has two receives waiting.
THEOREM ReceivesOnce == Spec => []OneReceive
BY InvHolds, ReceiveFollows, PTL

\* Until trouble comes, when everything is at rest the pool is full again and nobody
\* counted.
THEOREM PoolRefills == Spec => []AllReturned
BY InvHolds, CountedHolds, ReturnedFollows, PTL
=============================================================================

------------------------ MODULE ServerShutdownProofs ------------------------
(***************************************************************************)
(* Proof that DestroyThreads posts enough null completions, for any number *)
(* of workers.  The argument counts: a worker that is not waiting once the *)
(* flag is down never waits again, so each null completion taken makes one *)
(* more worker that needs none.                                            *)
(***************************************************************************)
EXTENDS ServerShutdown, FiniteSetTheorems, TLAPS

Awake == {w \in Workers : worker[w] # "waiting"}
Waiting == {w \in Workers : worker[w] = "waiting"}

\* The null completions posted are those that wait in the port and those that
\* were taken, each by a worker that no longer waits.
Counted ==
  /\ main \notin Opening \cup {"exited"} => "workers" \notin running
  /\ main \in Opening => posted = 0
  /\ release = "v1.1" /\ main = "joinWorkers" => posted >= Cardinality(Workers)
  /\ main \in Opening \cup {"posting", "joinWorkers"} =>
       posted <= wakeups + Cardinality(Awake)

Inv == TypeOK /\ Counted

\* The workers are those that wait and those that do not.
LEMMA Partition ==
  /\ Cardinality(Workers) \in Nat
  /\ Cardinality(Awake) \in Nat /\ Cardinality(Waiting) \in Nat
  /\ Cardinality(Workers) = Cardinality(Awake) + Cardinality(Waiting)
<1>1. Awake \subseteq Workers /\ Waiting = Workers \ Awake
  BY DEF Awake, Waiting
<1>2. IsFiniteSet(Workers)
  BY WorkersAssumption
<1>3. IsFiniteSet(Awake) /\ IsFiniteSet(Waiting)
  BY <1>1, <1>2, FS_Subset
<1>4. Cardinality(Workers \ Awake) = Cardinality(Workers) - Cardinality(Awake)
  <2>1. Workers \cap Awake = Awake
    BY <1>1
  <2>2. Cardinality(Workers \ Awake) = Cardinality(Workers) - Cardinality(Workers \cap Awake)
    BY <1>2, FS_Difference
  <2> QED  BY <2>1, <2>2
<1> QED  BY <1>1, <1>2, <1>3, <1>4, FS_CardinalityType

\* One worker more, or none, is awake when worker w stops waiting.
LEMMA WakingUp ==
  ASSUME NEW A, NEW w, IsFiniteSet(A)
  PROVE  /\ Cardinality(A) \in Nat /\ Cardinality(A \cup {w}) \in Nat
         /\ Cardinality(A \cup {w}) >= Cardinality(A)
         /\ w \notin A => Cardinality(A \cup {w}) = Cardinality(A) + 1
  BY FS_AddElement, FS_CardinalityType

LEMMA InitInv == Init => Inv
<1> SUFFICES ASSUME Init PROVE Inv
  OBVIOUS
<1>1. Cardinality(Awake) \in Nat
  BY Partition
<1>2. TypeOK
  BY DEF Init, TypeOK, Steps, Opening, Flags
<1> QED  BY <1>1, <1>2 DEF Init, Inv, Counted, Opening

-----------------------------------------------------------------------------
(* Types.                                                                   *)

LEMMA WorkerType ==
  ASSUME TypeOK, NEW w \in Workers, WorkerThread(w)
  PROVE  TypeOK'
<1> USE DEF TypeOK, mainVars, portVars, queueVars
<1>1. CASE CheckWorker(w)  BY <1>1 DEF CheckWorker
<1>2. CASE TakeWakeup(w)   BY <1>2 DEF TakeWakeup
<1>3. CASE TakeIo(w)       BY <1>3 DEF TakeIo
<1>4. CASE Handle(w)       BY <1>4 DEF Handle
<1> QED  BY <1>1, <1>2, <1>3, <1>4 DEF WorkerThread

LEMMA MainType ==
  ASSUME TypeOK, Quit \/ MainThread
  PROVE  TypeOK'
<1> USE DEF TypeOK, portVars, queueVars, Steps, Opening, Flags, Advance, Unmoved
<1>1. CASE Quit             BY <1>1 DEF Quit
<1>2. CASE Initialize       BY <1>2 DEF Initialize, ErrorExit
<1>3. CASE RunQueueThreads  BY <1>3 DEF RunQueueThreads
<1>4. CASE StartServer      BY <1>4 DEF StartServer, ErrorExit
<1>5. CASE PostWakeup       BY <1>5 DEF PostWakeup
<1>6. CASE JoinWorkers      BY <1>6 DEF JoinWorkers
<1>7. CASE CloseListener    BY <1>7 DEF CloseListener
<1>8. CASE ClearAccepter    BY <1>8 DEF ClearAccepter
<1>9. CASE JoinAccepter     BY <1>9 DEF JoinAccepter
<1>10. CASE JoinSender      BY <1>10 DEF JoinSender
<1>11. CASE StopLogic       BY <1>11 DEF StopLogic
<1>12. CASE JoinLogic       BY <1>12 DEF JoinLogic
<1> QED
  BY <1>1, <1>2, <1>3, <1>4, <1>5, <1>6, <1>7, <1>8, <1>9, <1>10, <1>11, <1>12 DEF MainThread

LEMMA TypeInv == TypeOK /\ [Next]_vars => TypeOK'
<1> SUFFICES ASSUME TypeOK, [Next]_vars PROVE TypeOK'
  OBVIOUS
<1> USE DEF TypeOK, mainVars, portVars, queueVars
<1>1. CASE Quit \/ MainThread
  BY <1>1, MainType
<1>2. ASSUME NEW w \in Workers, WorkerThread(w) PROVE TypeOK'
  BY <1>2, WorkerType
<1>3. CASE AccepterThread  BY <1>3 DEF AccepterThread
<1>4. CASE ClientConnects  BY <1>4 DEF ClientConnects
<1>5. CASE IoCompletes     BY <1>5 DEF IoCompletes
<1>6. CASE LogicThread     BY <1>6 DEF LogicThread
<1>7. CASE SendThread      BY <1>7 DEF SendThread
<1>8. CASE Terminated \/ UNCHANGED vars
  BY <1>8 DEF Terminated, vars
<1> QED  BY <1>1, <1>2, <1>3, <1>4, <1>5, <1>6, <1>7, <1>8 DEF Next

-----------------------------------------------------------------------------
(* Counting.                                                                *)

\* The worker's steps are the ones that matter.
LEMMA WorkerCounted ==
  ASSUME Inv, NEW w \in Workers, WorkerThread(w)
  PROVE  Counted'
<1> USE DEF Inv, Counted, mainVars, portVars, queueVars
<1>1. IsFiniteSet(Awake)
  BY WorkersAssumption, FS_Subset DEF Awake
<1>2. CASE CheckWorker(w)
  <2>1. CASE "workers" \in running
    <3>1. main \in Opening \cup {"exited"} /\ UNCHANGED <<main, posted, running, release, wakeups>>
      BY <1>2, <2>1 DEF CheckWorker
    <3>2. IsFiniteSet(Awake')
      BY WorkersAssumption, FS_Subset DEF Awake
    <3>3. Cardinality(Awake') \in Nat
      BY <3>2, FS_CardinalityType
    <3> QED  BY <3>1, <3>3 DEF TypeOK, Opening
  <2>2. CASE "workers" \notin running
    <3>1. Awake' = Awake
      BY <1>2, <2>2 DEF CheckWorker, Awake, TypeOK
    <3> QED  BY <1>2, <2>2, <3>1 DEF CheckWorker
  <2> QED  BY <2>1, <2>2
<1>3. CASE TakeWakeup(w)
  <2>1. w \notin Awake /\ Awake' = Awake \cup {w}
    BY <1>3 DEF TakeWakeup, Awake, TypeOK
  <2>2. Cardinality(Awake') = Cardinality(Awake) + 1 /\ Cardinality(Awake) \in Nat
    BY <1>1, <2>1, WakingUp
  <2> QED  BY <1>3, <2>2 DEF TakeWakeup, TypeOK
<1>4. CASE TakeIo(w)
  <2>1. Awake' = Awake \cup {w}
    BY <1>4 DEF TakeIo, Awake, TypeOK
  <2>2. /\ Cardinality(Awake) \in Nat /\ Cardinality(Awake') \in Nat
        /\ Cardinality(Awake') >= Cardinality(Awake)
    BY <1>1, <2>1, WakingUp
  <2> QED  BY <1>4, <2>2 DEF TakeIo, TypeOK
<1>5. CASE Handle(w)
  <2>1. Awake' = Awake
    BY <1>5 DEF Handle, Awake, TypeOK
  <2> QED  BY <1>5, <2>1 DEF Handle
<1> QED  BY <1>2, <1>3, <1>4, <1>5 DEF WorkerThread

\* Up to quit nothing has been posted, whoever is awake.
LEMMA OpeningCounted ==
  ASSUME Inv, Initialize \/ RunQueueThreads \/ StartServer
  PROVE  Counted'
<1>1. IsFiniteSet(Awake')
  BY WorkersAssumption, FS_Subset DEF Awake
<1>2. Cardinality(Awake') \in Nat
  BY <1>1, FS_CardinalityType
<1>3. main \in Opening /\ main' \in Opening \cup {"exited"}
  BY DEF Initialize, RunQueueThreads, StartServer, ErrorExit, Advance, Opening
<1>4. UNCHANGED <<posted, release, wakeups>>
  BY DEF Initialize, RunQueueThreads, StartServer, ErrorExit, portVars
<1> QED  BY <1>2, <1>3, <1>4 DEF Inv, Counted, TypeOK, Opening

\* Behind the join of the workers nothing is counted any more.
LEMMA ClosingCounted ==
  ASSUME Inv, \/ JoinWorkers \/ CloseListener \/ ClearAccepter \/ JoinAccepter
              \/ JoinSender \/ StopLogic \/ JoinLogic
  PROVE  Counted'
<1>1. main' \notin Opening \cup {"posting", "joinWorkers"}
  BY DEF JoinWorkers, CloseListener, ClearAccepter, JoinAccepter, JoinSender, StopLogic,
         JoinLogic, Advance, Opening
<1>2. main \notin Opening \cup {"exited"} /\ running' \subseteq running
  BY DEF JoinWorkers, CloseListener, ClearAccepter, JoinAccepter, JoinSender, StopLogic,
         JoinLogic, Advance, Opening
<1> QED  BY <1>1, <1>2 DEF Inv, Counted

LEMMA NextInv == Inv /\ [Next]_vars => Inv'
<1> SUFFICES ASSUME Inv, [Next]_vars PROVE Counted'
  BY TypeInv DEF Inv
<1>0. Cardinality(Awake) \in Nat /\ Cardinality(Workers) \in Nat
  BY Partition
<1>1. CASE Quit
  <2>1. Awake' = Awake  BY <1>1 DEF Quit, Unmoved, Awake
  <2>2. main = "serving" /\ main' \in {"posting", "joinWorkers"} /\ "workers" \notin running'
    BY <1>1 DEF Quit, Advance
  <2>3. release = "v1.1" => main' # "joinWorkers"
    BY <1>1 DEF Quit, Advance
  <2>4. UNCHANGED <<posted, release, wakeups>>
    BY <1>1 DEF Quit, Unmoved, portVars
  <2> QED  BY <1>0, <2>1, <2>2, <2>3, <2>4 DEF Inv, Counted, TypeOK, Opening
<1>2. CASE PostWakeup
  <2>1. Awake' = Awake  BY <1>2 DEF PostWakeup, Awake
  <2> QED  BY <1>0, <1>2, <2>1 DEF PostWakeup, Inv, Counted, TypeOK, Opening
<1>3. CASE Initialize \/ RunQueueThreads \/ StartServer
  BY <1>3, OpeningCounted
<1>4. CASE \/ JoinWorkers \/ CloseListener \/ ClearAccepter \/ JoinAccepter
           \/ JoinSender \/ StopLogic \/ JoinLogic
  BY <1>4, ClosingCounted
<1>5. ASSUME NEW w \in Workers, WorkerThread(w) PROVE Counted'
  BY <1>5, WorkerCounted
<1>6. CASE AccepterThread \/ ClientConnects \/ IoCompletes \/ LogicThread \/ SendThread
           \/ Terminated \/ UNCHANGED vars
  <2>1. UNCHANGED <<release, main, posted, running, wakeups, worker>>
    BY <1>6 DEF AccepterThread, ClientConnects, IoCompletes, LogicThread, SendThread,
                Terminated, vars, mainVars, portVars
  <2>2. Awake' = Awake  BY <2>1 DEF Awake
  <2> QED  BY <2>1, <2>2 DEF Inv, Counted
<1> QED  BY <1>1, <1>2, <1>3, <1>4, <1>5, <1>6 DEF Next, MainThread

LEMMA Invariance == Spec => []Inv
  BY InitInv, NextInv, PTL DEF Spec

\* The state is well typed throughout, the counters of the port and of the queues
\* included: no thread takes from what is empty.
THEOREM TypeCorrect == Spec => []TypeOK
<1>1. Inv => TypeOK
  BY DEF Inv
<1> QED  BY <1>1, Invariance, PTL

\* Whatever the number of workers and however the completions are shared out,
\* no worker is left waiting without a null completion to wake it.
THEOREM NoWorkerStranded == Spec => []WakeupsSuffice
<1>1. Inv => WakeupsSuffice
  <2> SUFFICES ASSUME Inv, release = "v1.1", main = "joinWorkers" PROVE wakeups >= Cardinality(Waiting)
    BY DEF WakeupsSuffice, Waiting
  <2>1. Cardinality(Workers) <= wakeups + Cardinality(Awake)
    BY Partition DEF Inv, Counted, TypeOK
  <2> QED  BY <2>1, Partition DEF Inv, TypeOK
<1> QED  BY <1>1, Invariance, PTL
=============================================================================

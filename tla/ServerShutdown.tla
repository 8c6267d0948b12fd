--------------------------- MODULE ServerShutdown ---------------------------
(***************************************************************************)
(* How the server starts and stops.  v1.1: main reads "quit", closes the   *)
(* ChatServer (workers, then the listening socket and the port, then the   *)
(* accepter) and the LogicProcess (the send thread, then the logic         *)
(* thread).  Every thread is a loop that reads its run flag and then does  *)
(* something that may block; the workers block in                          *)
(* GetQueuedCompletionStatus with no timeout, so that clearing their flag  *)
(* is not enough: DestroyThreads posts a null completion for each of them. *)
(* v1.0 posts none, closes the listening socket before it clears the       *)
(* accepter's flag, and has one packet thread in place of the two threads  *)
(* of the LogicProcess; here it is the sender, and the logic thread is not *)
(* there.                                                                  *)
(***************************************************************************)
EXTENDS Integers, FiniteSets

CONSTANTS
  Workers,  \* the worker threads (kMaxWorkerThread of them)
  MaxIo,    \* bound on the I/O completions in the port
  MaxWork   \* bound on the jobs and on the packages queued

ASSUME WorkersAssumption == IsFiniteSet(Workers)
ASSUME BoundsAssumption == MaxIo \in Nat /\ MaxWork \in Nat

VARIABLES
  release,      \* "v1.0" or "v1.1"
  main,         \* the call main is about to make
  posted,       \* null completions posted so far
  running,      \* the threads whose run flag is up
  listening,    \* listenSocket_ is open
  wakeups, io,  \* null and I/O completions waiting in the port
  traffic,      \* clients are connected: I/O may complete
  worker,       \* what each worker is doing
  accepter, logic, sender,  \* what the other threads are doing
  jobs, packages  \* Len(jobQueue_), Len(packages_)

mainVars == <<release, main, posted, running, listening>>
portVars == <<wakeups, io, traffic>>
queueVars == <<jobs, packages>>
vars == <<mainVars, portVars, worker, accepter, logic, sender, queueVars>>

Opening == {"initializing", "starting", "opening", "serving"}
Steps == Opening \cup {"exited", "posting", "joinWorkers", "closeListener", "clearAccepter",
                      "joinAccepter", "joinSender", "stopLogic", "joinLogic", "closed"}
Flags == {"workers", "accepter", "sender", "logic"}

TypeOK ==
  /\ release \in {"v1.0", "v1.1"}
  /\ main \in Steps /\ posted \in Nat
  /\ running \subseteq Flags /\ listening \in BOOLEAN
  /\ wakeups \in Nat /\ io \in Nat /\ traffic \in BOOLEAN
  /\ worker \in [Workers -> {"check", "waiting", "handling", "stopped", "absent"}]
  /\ accepter \in {"check", "accepting", "creating", "stopped", "absent"}
  /\ logic \in {"check", "handling", "stopped", "absent"}
  /\ sender \in {"check", "sending", "stopped", "absent"}
  /\ jobs \in Nat /\ packages \in Nat

Init ==
  /\ release \in {"v1.0", "v1.1"}
  /\ main = "initializing" /\ posted = 0 /\ running = Flags /\ listening = FALSE
  /\ wakeups = 0 /\ io = 0 /\ traffic = FALSE
  /\ worker = [w \in Workers |-> "absent"]
  /\ accepter = "absent" /\ logic = "absent" /\ sender = "absent"
  /\ jobs = 0 /\ packages = 0

-----------------------------------------------------------------------------
(* main, until it waits for quit: Initialize, then RunServer (v1.0: Run).   *)

Advance(from, to) == main = from /\ main' = to

\* ErrorExit: the process ends, and with it its threads.
ErrorExit ==
  /\ main' = "exited"
  /\ logic' = "stopped" /\ sender' = "stopped"
  /\ UNCHANGED <<release, posted, running, listening, portVars, worker, accepter, queueVars>>

\* InitSocket and BindAndListen: the listening socket, or an error.
Initialize ==
  \/ main = "initializing" /\ ErrorExit
  \/ /\ Advance("initializing", "starting")
     /\ listening' = TRUE
     /\ UNCHANGED <<release, posted, running, portVars, worker, accepter, logic, sender, queueVars>>

\* LogicProcess::Run (v1.0: PacketManager::PacketThread).
RunQueueThreads ==
  /\ Advance("starting", "opening")
  /\ logic' = IF release = "v1.1" THEN "check" ELSE logic
  /\ sender' = "check"
  /\ UNCHANGED <<release, posted, running, listening, portVars, worker, accepter, queueVars>>

\* The port, or an error; then the accepter and the workers.
StartServer ==
  \/ main = "opening" /\ ErrorExit
  \/ /\ Advance("opening", "serving")
     /\ accepter' = "check" /\ worker' = [w \in Workers |-> "check"]
     /\ UNCHANGED <<release, posted, running, listening, portVars, logic, sender, queueVars>>

-----------------------------------------------------------------------------
(* main, after quit: CloseServer (DestroyThreads), then LogicProcess::Close *)
(* (v1.0: PacketManager::Close).                                            *)

Unmoved == UNCHANGED <<release, portVars, worker, accepter, logic, sender, queueVars>>

\* The user types quit; DestroyThreads clears the workers' flag.
Quit ==
  /\ Advance("serving", IF release = "v1.1" THEN "posting" ELSE "joinWorkers")
  /\ running' = running \ {"workers"}
  /\ UNCHANGED <<posted, listening>> /\ Unmoved

\* Mutation: one null completion too few.
PostWakeup_OneLess ==
  /\ main = "posting"
  /\ IF posted < Cardinality(Workers) - 1
     THEN posted' = posted + 1 /\ wakeups' = wakeups + 1 /\ main' = main
     ELSE main' = "joinWorkers" /\ UNCHANGED <<posted, wakeups>>
  /\ UNCHANGED <<release, running, listening, io, traffic, worker, accepter, logic, sender, queueVars>>

\* One null completion for each worker.
PostWakeup ==
  /\ main = "posting"
  /\ IF posted < Cardinality(Workers)
     THEN posted' = posted + 1 /\ wakeups' = wakeups + 1 /\ main' = main
     ELSE main' = "joinWorkers" /\ UNCHANGED <<posted, wakeups>>
  /\ UNCHANGED <<release, running, listening, io, traffic, worker, accepter, logic, sender, queueVars>>

\* The accepter's flag is cleared next; in v1.0 not yet.
JoinWorkers ==
  /\ Advance("joinWorkers", "closeListener")
  /\ \A w \in Workers : worker[w] = "stopped"
  /\ running' = IF release = "v1.1" THEN running \ {"accepter"} ELSE running
  /\ UNCHANGED <<posted, listening>> /\ Unmoved

\* Mutation: the listening socket stays open.
CloseListener_PortOnly ==
  /\ Advance("closeListener", IF release = "v1.1" THEN "joinAccepter" ELSE "clearAccepter")
  /\ wakeups' = 0 /\ io' = 0 /\ traffic' = FALSE
  /\ UNCHANGED <<release, posted, running, listening, worker, accepter, logic, sender, queueVars>>

\* closesocket(listenSocket_), CloseHandle(IOCPHandle_): nobody is left to
\* take the completions of the port.
CloseListener ==
  /\ Advance("closeListener", IF release = "v1.1" THEN "joinAccepter" ELSE "clearAccepter")
  /\ listening' = FALSE
  /\ wakeups' = 0 /\ io' = 0 /\ traffic' = FALSE
  /\ UNCHANGED <<release, posted, running, worker, accepter, logic, sender, queueVars>>

\* v1.0: until now the accepter has gone round and round a failing accept.
ClearAccepter ==
  /\ Advance("clearAccepter", "joinAccepter")
  /\ running' = running \ {"accepter"}
  /\ UNCHANGED <<posted, listening>> /\ Unmoved

\* The accepter has stopped; Close stops the send thread or packet thread.
JoinAccepter ==
  /\ Advance("joinAccepter", "joinSender")
  /\ accepter = "stopped"
  /\ running' = running \ {"sender"}
  /\ UNCHANGED <<posted, listening>> /\ Unmoved

JoinSender ==
  /\ Advance("joinSender", IF release = "v1.1" THEN "stopLogic" ELSE "closed")
  /\ sender = "stopped"
  /\ UNCHANGED <<posted, running, listening>> /\ Unmoved

StopLogic ==
  /\ Advance("stopLogic", "joinLogic")
  /\ running' = running \ {"logic"}
  /\ UNCHANGED <<posted, listening>> /\ Unmoved

\* The managers and their queues are destroyed.
JoinLogic ==
  /\ Advance("joinLogic", "closed")
  /\ logic = "stopped"
  /\ UNCHANGED <<posted, running, listening>> /\ Unmoved

MainThread ==
  \/ Initialize \/ RunQueueThreads \/ StartServer
  \/ PostWakeup \/ JoinWorkers \/ CloseListener \/ ClearAccepter \/ JoinAccepter
  \/ JoinSender \/ StopLogic \/ JoinLogic

-----------------------------------------------------------------------------
(* The threads.                                                             *)

\* while (bIsWorkerRun_): either the loop ends or the worker waits.
CheckWorker(w) ==
  /\ worker[w] = "check"
  /\ worker' = [worker EXCEPT ![w] = IF "workers" \in running THEN "waiting" ELSE "stopped"]
  /\ UNCHANGED <<mainVars, portVars, accepter, logic, sender, queueVars>>

\* The null completion clears the flag (again) and goes round the loop.
TakeWakeup(w) ==
  /\ worker[w] = "waiting" /\ wakeups > 0
  /\ wakeups' = wakeups - 1
  /\ worker' = [worker EXCEPT ![w] = "check"]
  /\ running' = running \ {"workers"}
  /\ UNCHANGED <<release, main, posted, listening, io, traffic, accepter, logic, sender, queueVars>>

TakeIo(w) ==
  /\ worker[w] = "waiting" /\ io > 0
  /\ io' = io - 1
  /\ worker' = [worker EXCEPT ![w] = "handling"]
  /\ UNCHANGED <<mainVars, wakeups, traffic, accepter, logic, sender, queueVars>>

\* A packet becomes a job (in v1.0: what is to be sent) and the next receive is
\* posted; a failed completion removes its user, and in v1.1 tells the room; a
\* completed send is only released.
Handle(w) ==
  /\ worker[w] = "handling"
  /\ worker' = [worker EXCEPT ![w] = "check"]
  /\ \/ release = "v1.1" /\ jobs < MaxWork /\ jobs' = jobs + 1 /\ UNCHANGED packages
     \/ packages < MaxWork /\ packages' = packages + 1 /\ UNCHANGED jobs
     \/ UNCHANGED queueVars
  /\ UNCHANGED <<mainVars, portVars, accepter, logic, sender>>

WorkerThread(w) == CheckWorker(w) \/ TakeWakeup(w) \/ TakeIo(w) \/ Handle(w)

\* while (bIsAccepterRun_): accept blocks until a client connects or the
\* socket is closed; then the loop goes round.
AccepterThread ==
  /\ \/ /\ accepter = "check"
        /\ accepter' = IF "accepter" \in running THEN "accepting" ELSE "stopped"
        /\ UNCHANGED traffic
     \/ /\ accepter = "accepting" /\ ~listening
        /\ accepter' = "check"
        /\ UNCHANGED traffic
     \/ /\ accepter = "creating"
        /\ accepter' = "check"
        /\ traffic' \in {traffic, listening}   \* no user once the port is closed
  /\ UNCHANGED <<mainVars, wakeups, io, worker, logic, sender, queueVars>>

\* A client connects, or one of those connected sends or receives.
ClientConnects ==
  /\ accepter = "accepting" /\ listening
  /\ accepter' = "creating"
  /\ UNCHANGED <<mainVars, portVars, worker, logic, sender, queueVars>>

IoCompletes ==
  /\ traffic /\ io < MaxIo
  /\ io' = io + 1
  /\ UNCHANGED <<mainVars, wakeups, traffic, worker, accepter, logic, sender, queueVars>>

\* RunProcess: a job is handled, or there is none and the thread sleeps.
LogicThread ==
  /\ \/ /\ logic = "check"
        /\ IF "logic" \notin running
           THEN logic' = "stopped" /\ UNCHANGED jobs
           ELSE /\ jobs > 0 /\ jobs' = jobs - 1
                /\ logic' = "handling"
        /\ UNCHANGED packages
     \/ /\ logic = "handling"
        /\ logic' = "check"
        /\ packages' \in {packages, packages + 1} \cap 0..MaxWork
        /\ UNCHANGED jobs
  /\ UNCHANGED <<mainVars, portVars, worker, accepter, sender>>

SendThread ==
  /\ \/ /\ sender = "check"
        /\ IF "sender" \notin running
           THEN sender' = "stopped" /\ UNCHANGED packages
           ELSE /\ packages > 0 /\ packages' = packages - 1
                /\ sender' = "sending"
     \/ /\ sender = "sending"
        /\ sender' = "check"
        /\ UNCHANGED packages
  /\ UNCHANGED <<mainVars, portVars, worker, accepter, logic, jobs>>

Terminated == main \in {"closed", "exited"} /\ UNCHANGED vars

Next ==
  \/ Quit \/ MainThread
  \/ \E w \in Workers : WorkerThread(w)
  \/ AccepterThread \/ ClientConnects \/ IoCompletes
  \/ LogicThread \/ SendThread
  \/ Terminated

Spec == Init /\ [][Next]_vars

\* Threads run; a thread waiting in the port gets its turn when it is not
\* empty.  Nobody has to connect, send or quit.
Fairness ==
  /\ WF_vars(MainThread)
  /\ \A w \in Workers : WF_vars(WorkerThread(w))
  /\ WF_vars(AccepterThread) /\ WF_vars(LogicThread) /\ WF_vars(SendThread)

FairSpec == Spec /\ Fairness

-----------------------------------------------------------------------------
(* Properties.                                                              *)

\* Once v1.1's main waits for the workers, every worker that waits in the port
\* has a null completion waiting for it, however the I/O completions were shared
\* out: no worker takes two.
WakeupsSuffice ==
  release = "v1.1" /\ main = "joinWorkers" =>
    wakeups >= Cardinality({w \in Workers : worker[w] = "waiting"})

\* v1.0's main waits for its workers, which nothing has been posted for.
JoinsUnwoken == release = "v1.0" /\ main = "joinWorkers"

\* After quit the server stops: no join waits for a thread that is blocked.  In
\* v1.0 the first may wait for workers that wait in an empty port, and for
\* nothing else; when they are through, the rest follows.
QuitStopsServer ==
  /\ main \notin Opening \cup {"exited"} /\ ~JoinsUnwoken ~> main = "closed"
  /\ JoinsUnwoken ~>
       ~JoinsUnwoken \/ (io = 0 /\ \E w \in Workers : worker[w] = "waiting")
=============================================================================

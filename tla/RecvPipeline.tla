---------------------------- MODULE RecvPipeline ----------------------------
(***************************************************************************)
(* How packets travel from the sockets to the logic thread in the v1.1     *)
(* server: one outstanding receive per session, a completion port served   *)
(* by several workers, and the job queue between the workers and the logic *)
(* thread.  A worker's turn is split where another thread can come in      *)
(* between: taking the completion, decoding the buffer, pushing the job    *)
(* (which takes time: the queue has no lock) and posting the next receive. *)
(* Packets of a session are numbered in the order the client sent them.    *)
(***************************************************************************)
EXTENDS Integers, Sequences, FiniteSets

CONSTANTS
  Sessions,   \* the connected sessions
  Workers,    \* the worker threads (kMaxWorkerThread of them)
  MaxPackets  \* bound on the packets a client sends

ASSUME MaxPacketsAssumption == MaxPackets \in Nat

VARIABLES
  sent,         \* the last packet each client has sent
  arrived,      \* the last packet a receive has taken out of the stream
  recvPending,  \* sessions with a WSARecv outstanding
  ioBuffer,     \* IoData_[IO_RECV].buffer_: the packet at its start, 0: none
  completions,  \* sessions whose completion waits in the port
  open,         \* sessions whose socket is open
  worker,       \* what each worker is doing, for which session and packet
  jobQueue,     \* LogicProcess::jobQueue_
  logic,        \* "idle", or "popping" while the logic thread is in PopPackage
  handled,      \* the last packet of each session that was processed
  raced         \* two threads are in the queue's code at once: undefined
                \* behaviour, and the model stops

netVars == <<sent, arrived, recvPending, ioBuffer, completions, open>>
queueVars == <<jobQueue, logic, handled, raced>>
vars == <<netVars, worker, queueVars>>

Numbers == 0..MaxPackets
Idle == [pc |-> "idle"]
Busy == [pc : {"recv", "push", "pushing", "bind"}, session : Sessions, packet : Numbers]
Jobs == [session : Sessions, packet : Numbers]

TypeOK ==
  /\ sent \in [Sessions -> Numbers] /\ arrived \in [Sessions -> Numbers]
  /\ recvPending \subseteq Sessions /\ completions \subseteq Sessions
  /\ open \subseteq Sessions
  /\ ioBuffer \in [Sessions -> Numbers]
  /\ worker \in [Workers -> Busy \cup {Idle}]
  /\ jobQueue \in Seq(Jobs)
  /\ logic \in {"idle", "popping"}
  /\ handled \in [Sessions -> Numbers]
  /\ raced \in BOOLEAN

\* Session::Connect has posted the first receive of every session.
Init ==
  /\ sent = [s \in Sessions |-> 0] /\ arrived = sent
  /\ recvPending = Sessions /\ completions = {} /\ open = Sessions
  /\ ioBuffer = [s \in Sessions |-> 0]
  /\ worker = [w \in Workers |-> Idle]
  /\ jobQueue = <<>> /\ logic = "idle"
  /\ handled = [s \in Sessions |-> 0]
  /\ raced = FALSE

-----------------------------------------------------------------------------
(* The network.                                                             *)

ClientSend(s) ==
  /\ ~raced
  /\ sent[s] < MaxPackets
  /\ sent' = [sent EXCEPT ![s] = @ + 1]
  /\ UNCHANGED <<arrived, recvPending, ioBuffer, completions, open, worker, queueVars>>

\* The outstanding receive completes with the bytes there are: one packet or
\* several, of which the factory will decode the first.
Complete(s) ==
  /\ ~raced
  /\ s \in recvPending
  /\ arrived[s] < sent[s]
  /\ \E last \in (arrived[s] + 1)..sent[s] : arrived' = [arrived EXCEPT ![s] = last]
  /\ ioBuffer' = [ioBuffer EXCEPT ![s] = arrived[s] + 1]
  /\ recvPending' = recvPending \ {s}
  /\ completions' = completions \cup {s}
  /\ UNCHANGED <<sent, open, worker, queueVars>>

-----------------------------------------------------------------------------
(* A worker's turn (ChatServer::WorkerThread).                              *)

At(w, pc) == ~raced /\ worker[w].pc = pc

Goto(w, pc) == worker' = [worker EXCEPT ![w].pc = pc]

\* GetQueuedCompletionStatus hands the completion to any waiting worker.
TakeCompletion(w) ==
  /\ At(w, "idle")
  /\ \E s \in completions :
       /\ completions' = completions \ {s}
       /\ worker' = [worker EXCEPT ![w] = [pc |-> "recv", session |-> s, packet |-> 0]]
  /\ UNCHANGED <<sent, arrived, recvPending, ioBuffer, open, queueVars>>

\* Mutation: the next receive is posted before the packet is pushed.
OnRecv_BindsFirst(w) ==
  /\ At(w, "recv")
  /\ worker' = [worker EXCEPT ![w].pc = "push", ![w].packet = ioBuffer[worker[w].session]]
  /\ recvPending' = recvPending \cup {worker[w].session}
  /\ UNCHANGED <<sent, arrived, ioBuffer, completions, open, queueVars>>

\* Session::OnRecv copies the session's one buffer and decodes a packet.
OnRecv(w) ==
  /\ At(w, "recv")
  /\ worker' = [worker EXCEPT ![w].pc = "push", ![w].packet = ioBuffer[worker[w].session]]
  /\ UNCHANGED <<netVars, queueVars>>

\* Somebody is between the first and the last access of a push or a pop.
QueueInUse == logic = "popping" \/ \E w \in Workers : At(w, "pushing")

BeginPush(w) ==
  /\ At(w, "push")
  /\ raced' = QueueInUse
  /\ Goto(w, "pushing")
  /\ UNCHANGED <<netVars, jobQueue, logic, handled>>

\* LogicProcess::PushPackage.
EndPush(w) ==
  /\ At(w, "pushing")
  /\ jobQueue' = Append(jobQueue, [session |-> worker[w].session, packet |-> worker[w].packet])
  /\ Goto(w, "bind")
  /\ UNCHANGED <<netVars, logic, handled, raced>>

\* Session::BindRecv posts the next receive, or fails and closes the socket;
\* the worker does not look at the result.
BindRecv(w) ==
  /\ At(w, "bind")
  /\ LET s == worker[w].session
     IN  \/ /\ s \in open
            /\ recvPending' = recvPending \cup {s}
            /\ UNCHANGED open
         \/ /\ open' = open \ {s}
            /\ UNCHANGED recvPending
  /\ worker' = [worker EXCEPT ![w] = Idle]
  /\ UNCHANGED <<sent, arrived, ioBuffer, completions, queueVars>>

-----------------------------------------------------------------------------
(* The logic thread (LogicProcess::RunProcess).                             *)

BeginPop ==
  /\ ~raced
  /\ logic = "idle"
  /\ logic' = "popping"
  /\ raced' = QueueInUse
  /\ UNCHANGED <<netVars, worker, jobQueue, handled>>

\* Mutation: the last job in the queue is left there.
EndPop_LeavesLast ==
  /\ ~raced
  /\ logic = "popping"
  /\ logic' = "idle"
  /\ \/ /\ Len(jobQueue) <= 1
        /\ UNCHANGED <<jobQueue, handled>>
     \/ /\ Len(jobQueue) > 1
        /\ jobQueue' = Tail(jobQueue)
        /\ handled' = [handled EXCEPT ![Head(jobQueue).session] = Head(jobQueue).packet]
  /\ UNCHANGED <<netVars, worker, raced>>

\* An empty queue makes the thread sleep and look again.
EndPop ==
  /\ ~raced
  /\ logic = "popping"
  /\ logic' = "idle"
  /\ \/ /\ jobQueue = <<>>
        /\ UNCHANGED <<jobQueue, handled>>
     \/ /\ jobQueue # <<>>
        /\ jobQueue' = Tail(jobQueue)
        /\ handled' = [handled EXCEPT ![Head(jobQueue).session] = Head(jobQueue).packet]
  /\ UNCHANGED <<netVars, worker, raced>>

WorkerThread(w) ==
  TakeCompletion(w) \/ OnRecv(w) \/ BeginPush(w) \/ EndPush(w) \/ BindRecv(w)

RunProcess == BeginPop \/ EndPop

Next ==
  \/ \E s \in Sessions : ClientSend(s) \/ Complete(s)
  \/ \E w \in Workers : WorkerThread(w)
  \/ RunProcess

Spec == Init /\ [][Next]_vars

\* Every thread runs, and the network delivers; only the client may stop.
Fairness ==
  /\ \A s \in Sessions : WF_vars(Complete(s))
  /\ \A w \in Workers : WF_vars(WorkerThread(w))
  /\ WF_vars(RunProcess)

FairSpec == Spec /\ Fairness

-----------------------------------------------------------------------------
(* Properties.                                                              *)

Holds(w, s) == worker[w] # Idle /\ worker[w].session = s

\* A session is in one place: waiting for a packet, in the port, or with one
\* worker.  Its single receive buffer is never filled while it is read.
OneRecvPerSocket ==
  \A s \in Sessions :
    /\ s \in recvPending => s \notin completions
    /\ \A w \in Workers : Holds(w, s) =>
         /\ s \notin recvPending \cup completions
         /\ \A v \in Workers : Holds(v, s) => v = w

\* Whichever workers carry them, a session's packets are processed in the
\* order they were sent, and none twice.
Inbox == INSTANCE OrderedInbox WITH sent <- sent, handled <- handled
DeliversInOrder == Inbox!Spec

\* A packet that a receive brings to the front of the buffer is processed,
\* unless the unlocked queue was raced.
ReceivedIsHandled ==
  \A s \in Sessions : \A n \in 1..MaxPackets :
    (s \in completions /\ ioBuffer[s] = n) ~> (handled[s] >= n \/ raced)
=============================================================================

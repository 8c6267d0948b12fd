------------------------- MODULE RecvPipelineProofs -------------------------
(***************************************************************************)
(* What RecvPipeline guarantees for any number of sessions, workers and    *)
(* packets: a session is in one place, and RecvPipeline implements         *)
(* OrderedInbox.                                                           *)
(***************************************************************************)
EXTENDS RecvPipeline, SequenceTheorems, TLAPS

\* The packets of a session along its way: those handled, those queued in
\* rising order, the one in the buffer, those taken out of the stream, those
\* sent.
PacketsInLine ==
  \A s \in Sessions :
    handled[s] <= ioBuffer[s] /\ ioBuffer[s] <= arrived[s] /\ arrived[s] <= sent[s]

QueueInLine ==
  /\ \A i \in DOMAIN jobQueue :
       /\ handled[jobQueue[i].session] < jobQueue[i].packet
       /\ jobQueue[i].packet <= ioBuffer[jobQueue[i].session]
  /\ \A i, j \in DOMAIN jobQueue :
       i < j /\ jobQueue[i].session = jobQueue[j].session
         => jobQueue[i].packet < jobQueue[j].packet

\* The packet in the buffer of s is not queued yet.
Carrying(w, s) == Holds(w, s) /\ worker[w].pc \in {"recv", "push", "pushing"}

Unqueued(s) ==
  /\ handled[s] < ioBuffer[s]
  /\ \A i \in DOMAIN jobQueue : jobQueue[i].session = s => jobQueue[i].packet < ioBuffer[s]

BufferIsNew ==
  /\ \A s \in completions : Unqueued(s)
  /\ \A w \in Workers, s \in Sessions : Carrying(w, s) => Unqueued(s)

WorkerHasBuffer ==
  \A w \in Workers, s \in Sessions :
    Holds(w, s) /\ worker[w].pc \in {"push", "pushing"} => worker[w].packet = ioBuffer[s]

IInv ==
  /\ TypeOK
  /\ OneRecvPerSocket
  /\ PacketsInLine
  /\ QueueInLine
  /\ BufferIsNew
  /\ WorkerHasBuffer

-----------------------------------------------------------------------------

\* What a worker that is not idle looks like.
LEMMA BusyWorker ==
  ASSUME TypeOK, NEW w \in Workers, worker[w].pc # "idle"
  PROVE  worker[w] \in Busy /\ worker[w] # Idle
BY DEF TypeOK, Busy, Idle

\* A worker that moves on keeps its session.
LEMMA GotoType ==
  ASSUME TypeOK, NEW w \in Workers, worker[w].pc # "idle",
         NEW pc \in {"recv", "push", "pushing", "bind"}, Goto(w, pc)
  PROVE  /\ worker' \in [Workers -> Busy \cup {Idle}]
         /\ \A v \in Workers : v # w => worker'[v] = worker[v]
         /\ worker'[w] # Idle
         /\ worker'[w].session = worker[w].session
         /\ worker'[w].packet = worker[w].packet
         /\ worker'[w].pc = pc
<1>1. worker[w] \in Busy  BY BusyWorker
<1>2. worker'[w] = [worker[w] EXCEPT !.pc = pc]  BY DEF Goto, TypeOK
<1>3. worker'[w] \in Busy  BY <1>1, <1>2 DEF Busy
<1>4. worker'[w].pc = pc /\ worker'[w].session = worker[w].session
        /\ worker'[w].packet = worker[w].packet
  BY <1>1, <1>2 DEF Busy
<1>5. \A v \in Workers : v # w => worker'[v] = worker[v]  BY DEF Goto, TypeOK
<1>6. worker' \in [Workers -> Busy \cup {Idle}]  BY <1>3 DEF Goto, TypeOK
<1>7. worker'[w] # Idle  BY <1>4 DEF Idle
<1> QED  BY <1>4, <1>5, <1>6, <1>7

\* Initially nothing has been sent and every session waits for a packet.
LEMMA InitInv == Init => IInv
<1> SUFFICES ASSUME Init PROVE IInv  OBVIOUS
<1> USE MaxPacketsAssumption
<1>1. 0 \in Numbers  BY DEF Numbers
<1>2. jobQueue \in Seq(Jobs) /\ DOMAIN jobQueue = {}  BY DEF Init
<1>3. TypeOK  BY <1>1, <1>2 DEF Init, TypeOK
<1>4. \A w \in Workers, s \in Sessions : ~Holds(w, s)  BY DEF Init, Holds
<1>5. OneRecvPerSocket /\ WorkerHasBuffer /\ BufferIsNew
  BY <1>4 DEF Init, OneRecvPerSocket, WorkerHasBuffer, BufferIsNew, Carrying
<1>6. PacketsInLine  BY DEF Init, PacketsInLine
<1>7. QueueInLine  BY <1>2 DEF QueueInLine
<1> QED  BY <1>3, <1>5, <1>6, <1>7 DEF IInv

-----------------------------------------------------------------------------
(* The network's steps.                                                     *)

LEMMA ClientSendInv ==
  ASSUME IInv, NEW s \in Sessions, ClientSend(s)
  PROVE  IInv'
BY MaxPacketsAssumption
   DEF ClientSend, IInv, TypeOK, OneRecvPerSocket, PacketsInLine, QueueInLine, BufferIsNew,
       WorkerHasBuffer, Carrying, Unqueued, Holds, Numbers, queueVars

LEMMA CompleteInv ==
  ASSUME IInv, NEW s \in Sessions, Complete(s)
  PROVE  IInv'
<1> USE MaxPacketsAssumption DEF IInv
<1>1. TypeOK'
  BY DEF Complete, TypeOK, Numbers, queueVars, PacketsInLine
<1>2. OneRecvPerSocket'
  BY DEF Complete, OneRecvPerSocket, Holds, queueVars, TypeOK
<1>3. /\ ioBuffer'[s] = arrived[s] + 1
      /\ arrived'[s] >= ioBuffer'[s] /\ arrived'[s] <= sent[s]
      /\ ioBuffer[s] < ioBuffer'[s]
      /\ \A t \in Sessions \ {s} : ioBuffer'[t] = ioBuffer[t] /\ arrived'[t] = arrived[t]
  BY DEF Complete, TypeOK, Numbers, PacketsInLine
<1>4. UNCHANGED <<sent, worker, handled, jobQueue>>  BY DEF Complete, queueVars
<1>5. PacketsInLine'
  <2>1. ASSUME NEW t \in Sessions
        PROVE  handled[t] <= ioBuffer'[t] /\ ioBuffer'[t] <= arrived'[t] /\ arrived'[t] <= sent[t]
    <3>1. CASE t = s
      <4>1. handled[s] \in Nat /\ ioBuffer[s] \in Nat /\ arrived[s] \in Nat
        BY DEF TypeOK, Numbers
      <4>2. handled[s] <= ioBuffer[s]  BY DEF PacketsInLine
      <4> QED  BY <1>3, <3>1, <4>1, <4>2
    <3>2. CASE t # s
      BY <1>3, <3>2 DEF PacketsInLine
    <3> QED  BY <3>1, <3>2
  <2> QED  BY <1>4, <2>1 DEF PacketsInLine
<1>6. QueueInLine'
  <2>1. ASSUME NEW i \in DOMAIN jobQueue
        PROVE  jobQueue[i].packet <= ioBuffer'[jobQueue[i].session]
    <3>1. jobQueue[i] \in Jobs  BY DEF TypeOK
    <3>2. jobQueue[i].packet \in Nat /\ jobQueue[i].session \in Sessions
      BY <3>1 DEF Jobs, Numbers
    <3>3. jobQueue[i].packet <= ioBuffer[jobQueue[i].session]  BY DEF QueueInLine
    <3>4. CASE jobQueue[i].session = s
      <4>1. ioBuffer[s] \in Nat /\ arrived[s] \in Nat  BY DEF TypeOK, Numbers
      <4> QED  BY <1>3, <3>2, <3>3, <3>4, <4>1
    <3>5. CASE jobQueue[i].session # s
      BY <1>3, <3>2, <3>3, <3>5
    <3> QED  BY <3>4, <3>5
  <2> QED  BY <2>1, <1>4 DEF QueueInLine
<1>7. Unqueued(s)'
  <2>1. handled'[s] < ioBuffer'[s]
    BY <1>3, <1>4 DEF PacketsInLine, TypeOK, Numbers
  <2>2. ASSUME NEW i \in DOMAIN jobQueue, jobQueue[i].session = s
        PROVE  jobQueue[i].packet < ioBuffer'[s]
    <3>1. jobQueue[i] \in Jobs  BY DEF TypeOK
    <3>2. jobQueue[i].packet \in Nat  BY <3>1 DEF Jobs, Numbers
    <3> QED  BY <1>3, <2>2, <3>2 DEF QueueInLine, TypeOK, Numbers
  <2> QED  BY <2>1, <2>2, <1>4 DEF Unqueued
<1>8. \A t \in Sessions \ {s} : Unqueued(t) => Unqueued(t)'
  BY <1>3, <1>4 DEF Unqueued
<1>9. BufferIsNew'
  BY <1>4, <1>7, <1>8 DEF BufferIsNew, Complete, Carrying, Holds, TypeOK
<1>10. \A w \in Workers : ~Holds(w, s)
  BY DEF OneRecvPerSocket, Complete
<1>11. WorkerHasBuffer'
  BY <1>3, <1>4, <1>10 DEF WorkerHasBuffer, Holds
<1> QED  BY <1>1, <1>2, <1>5, <1>6, <1>9, <1>11

-----------------------------------------------------------------------------
(* A worker's turn.                                                         *)

LEMMA TakeCompletionInv ==
  ASSUME IInv, NEW w \in Workers, TakeCompletion(w)
  PROVE  IInv'
<1> USE MaxPacketsAssumption DEF IInv
<1>1. PICK s \in completions :
        /\ completions' = completions \ {s}
        /\ worker' = [worker EXCEPT ![w] = [pc |-> "recv", session |-> s, packet |-> 0]]
  BY DEF TakeCompletion
<1>2. UNCHANGED <<sent, arrived, recvPending, ioBuffer, open, jobQueue, logic, handled, raced>>
  BY DEF TakeCompletion, queueVars
<1>3. s \in Sessions  BY DEF TypeOK
<1>4. [pc |-> "recv", session |-> s, packet |-> 0] \in Busy
  BY <1>3 DEF Busy, Numbers
<1>5. worker'[w] = [pc |-> "recv", session |-> s, packet |-> 0]
        /\ \A v \in Workers : v # w => worker'[v] = worker[v]
  BY <1>1 DEF TypeOK
<1>6. TypeOK'  BY <1>1, <1>2, <1>4 DEF TypeOK
<1>7. worker'[w] # Idle /\ worker'[w].session = s /\ worker'[w].pc = "recv"
  BY <1>5 DEF Idle
<1>8. OneRecvPerSocket'
  BY <1>1, <1>2, <1>5, <1>7 DEF OneRecvPerSocket, Holds, TypeOK
<1>9. BufferIsNew'
  BY <1>1, <1>2, <1>5, <1>7 DEF BufferIsNew, Carrying, Holds, Unqueued, TypeOK
<1>10. WorkerHasBuffer'
  BY <1>2, <1>5, <1>7 DEF WorkerHasBuffer, Holds
<1>11. PacketsInLine' /\ QueueInLine'
  BY <1>2 DEF PacketsInLine, QueueInLine
<1> QED  BY <1>6, <1>8, <1>9, <1>10, <1>11

\* OnRecv: the worker copies the packet at the front of the buffer.
LEMMA OnRecvInv ==
  ASSUME IInv, NEW w \in Workers, OnRecv(w)
  PROVE  IInv'
<1> USE MaxPacketsAssumption DEF IInv
<1> DEFINE s == worker[w].session
<1>1. worker[w].pc = "recv" /\ worker[w] \in Busy /\ worker[w] # Idle
  BY BusyWorker DEF OnRecv, At
<1>2. s \in Sessions  BY <1>1 DEF Busy
<1>3. worker'[w] = [worker[w] EXCEPT !.pc = "push", !.packet = ioBuffer[s]]
        /\ \A v \in Workers : v # w => worker'[v] = worker[v]
  BY DEF OnRecv, TypeOK
<1>4. /\ worker'[w].pc = "push" /\ worker'[w].session = s
      /\ worker'[w].packet = ioBuffer[s] /\ worker'[w] \in Busy
  BY <1>1, <1>2, <1>3 DEF Busy, TypeOK
<1>5. worker'[w] # Idle  BY <1>4 DEF Idle
<1>6. UNCHANGED <<netVars, queueVars>>  BY DEF OnRecv
<1>7. TypeOK'
  BY <1>4, <1>6 DEF OnRecv, TypeOK, netVars, queueVars
<1>8. \A v \in Workers, t \in Sessions : Holds(v, t)' <=> Holds(v, t)
  BY <1>1, <1>3, <1>4, <1>5 DEF Holds
<1>9. OneRecvPerSocket'
  BY <1>6, <1>8 DEF OneRecvPerSocket, netVars
<1>10. \A v \in Workers, t \in Sessions : Carrying(v, t)' => Carrying(v, t)
  BY <1>1, <1>3, <1>4, <1>8 DEF Carrying
<1>11. BufferIsNew'
  BY <1>6, <1>10 DEF BufferIsNew, Unqueued, netVars, queueVars
<1>12. WorkerHasBuffer'
  <2>1. SUFFICES ASSUME NEW v \in Workers, NEW t \in Sessions, worker'[v] # Idle,
                        worker'[v].session = t, worker'[v].pc \in {"push", "pushing"}
                 PROVE  worker'[v].packet = ioBuffer[t]
    BY <1>6 DEF WorkerHasBuffer, Holds, netVars
  <2>2. CASE v = w  BY <1>4, <2>1, <2>2
  <2>3. CASE v # w  BY <1>3, <2>1, <2>3 DEF WorkerHasBuffer, Holds
  <2> QED  BY <2>2, <2>3
<1>13. PacketsInLine' /\ QueueInLine'
  BY <1>6 DEF PacketsInLine, QueueInLine, netVars, queueVars
<1> QED  BY <1>7, <1>9, <1>11, <1>12, <1>13

LEMMA BeginPushInv ==
  ASSUME IInv, NEW w \in Workers, BeginPush(w)
  PROVE  IInv'
<1> USE DEF IInv
<1>1. worker[w].pc = "push" /\ Goto(w, "pushing")  BY DEF BeginPush, At
<1>2. UNCHANGED <<netVars, jobQueue, logic, handled>> /\ raced' \in BOOLEAN
  BY DEF BeginPush, QueueInUse, At
<1>3. worker[w] # Idle  BY <1>1, BusyWorker
<1>4. /\ worker' \in [Workers -> Busy \cup {Idle}]
      /\ \A v \in Workers : v # w => worker'[v] = worker[v]
      /\ worker'[w] # Idle
      /\ worker'[w].session = worker[w].session
      /\ worker'[w].packet = worker[w].packet
      /\ worker'[w].pc = "pushing"
  BY <1>1, GotoType
<1>5. TypeOK'  BY <1>2, <1>4 DEF TypeOK, netVars
<1>6. \A v \in Workers, t \in Sessions : Holds(v, t)' <=> Holds(v, t)
  BY <1>3, <1>4 DEF Holds
<1>7. OneRecvPerSocket'
  BY <1>2, <1>6 DEF OneRecvPerSocket, netVars
<1>8. \A v \in Workers, t \in Sessions : Carrying(v, t)' => Carrying(v, t)
  BY <1>1, <1>4, <1>6 DEF Carrying
<1>9. BufferIsNew'
  BY <1>2, <1>8 DEF BufferIsNew, Unqueued, netVars
<1>10. WorkerHasBuffer'
  <2>1. SUFFICES ASSUME NEW v \in Workers, NEW t \in Sessions, Holds(v, t),
                        worker'[v].pc \in {"push", "pushing"}
                 PROVE  worker'[v].packet = ioBuffer[t]
    BY <1>2, <1>6 DEF WorkerHasBuffer, netVars, Holds
  <2>2. worker[v].pc \in {"push", "pushing"} /\ worker'[v].packet = worker[v].packet
    BY <1>1, <1>4, <2>1
  <2> QED  BY <2>1, <2>2 DEF WorkerHasBuffer
<1>11. PacketsInLine' /\ QueueInLine'
  BY <1>2 DEF PacketsInLine, QueueInLine, netVars
<1> QED  BY <1>5, <1>7, <1>9, <1>10, <1>11

\* EndPush: the packet in the buffer goes to the end of the queue.
LEMMA EndPushInv ==
  ASSUME IInv, NEW w \in Workers, EndPush(w)
  PROVE  IInv'
<1> USE MaxPacketsAssumption DEF IInv
<1> DEFINE s   == worker[w].session
           job == [session |-> s, packet |-> worker[w].packet]
           n   == Len(jobQueue)
<1>1. worker[w].pc = "pushing" /\ Goto(w, "bind")  BY DEF EndPush, At
<1>2. UNCHANGED <<netVars, logic, handled, raced>> /\ jobQueue' = Append(jobQueue, job)
  BY DEF EndPush
<1>3. worker[w] # Idle /\ worker[w] \in Busy  BY <1>1, BusyWorker
<1>4. /\ worker' \in [Workers -> Busy \cup {Idle}]
      /\ \A v \in Workers : v # w => worker'[v] = worker[v]
      /\ worker'[w] # Idle
      /\ worker'[w].session = s
      /\ worker'[w].pc = "bind"
  BY <1>1, GotoType
<1>5. s \in Sessions /\ job \in Jobs  BY <1>3 DEF Busy, Jobs
<1>6. jobQueue \in Seq(Jobs)  BY DEF TypeOK
<1>7. /\ jobQueue' \in Seq(Jobs) /\ n \in Nat
      /\ DOMAIN jobQueue = 1..n /\ DOMAIN jobQueue' = 1..(n + 1)
      /\ \A i \in 1..n : jobQueue'[i] = jobQueue[i]
      /\ jobQueue'[n + 1] = job
  BY <1>2, <1>5, <1>6
<1>8. TypeOK'  BY <1>2, <1>4, <1>7 DEF TypeOK, netVars
<1>9. \A v \in Workers, t \in Sessions : Holds(v, t)' <=> Holds(v, t)
  BY <1>3, <1>4 DEF Holds
<1>10. OneRecvPerSocket'
  BY <1>2, <1>9 DEF OneRecvPerSocket, netVars
<1>11. Holds(w, s) /\ Carrying(w, s)  BY <1>1, <1>3 DEF Holds, Carrying
<1>12. worker[w].packet = ioBuffer[s] /\ Unqueued(s)
  BY <1>1, <1>5, <1>11 DEF WorkerHasBuffer, BufferIsNew
<1>13. QueueInLine'
  <2>1. ASSUME NEW i \in 1..n
        PROVE  jobQueue[i].session = s => jobQueue[i].packet < ioBuffer[s]
    BY <1>7, <1>12 DEF Unqueued
  <2>2. \A i \in DOMAIN jobQueue' :
          /\ handled[jobQueue'[i].session] < jobQueue'[i].packet
          /\ jobQueue'[i].packet <= ioBuffer[jobQueue'[i].session]
    <3>1. ASSUME NEW i \in 1..n
          PROVE  /\ handled[jobQueue'[i].session] < jobQueue'[i].packet
                 /\ jobQueue'[i].packet <= ioBuffer[jobQueue'[i].session]
      BY <1>7 DEF QueueInLine
    <3>2. /\ handled[jobQueue'[n + 1].session] < jobQueue'[n + 1].packet
          /\ jobQueue'[n + 1].packet <= ioBuffer[jobQueue'[n + 1].session]
      BY <1>5, <1>7, <1>12 DEF Unqueued, TypeOK, Numbers
    <3> QED  BY <1>7, <3>1, <3>2
  <2>3. ASSUME NEW i \in DOMAIN jobQueue', NEW j \in DOMAIN jobQueue', i < j,
               jobQueue'[i].session = jobQueue'[j].session
        PROVE  jobQueue'[i].packet < jobQueue'[j].packet
    <3>1. CASE j \in 1..n
      BY <1>7, <2>3, <3>1 DEF QueueInLine
    <3>2. CASE j = n + 1
      <4>1. i \in 1..n  BY <1>7, <2>3, <3>2
      <4>2. jobQueue[i].session = s  BY <1>7, <2>3, <3>2, <4>1
      <4> QED  BY <1>7, <1>12, <2>1, <3>2, <4>1, <4>2
    <3> QED  BY <1>7, <3>1, <3>2
  <2> QED  BY <1>2, <2>2, <2>3 DEF QueueInLine, netVars
<1>14. \A t \in Sessions : t # s /\ Unqueued(t) => Unqueued(t)'
  <2>1. SUFFICES ASSUME NEW t \in Sessions, t # s, Unqueued(t),
                        NEW i \in DOMAIN jobQueue', jobQueue'[i].session = t
                 PROVE  jobQueue'[i].packet < ioBuffer[t]
    BY <1>2 DEF Unqueued, netVars
  <2>2. i \in 1..n  BY <1>7, <2>1
  <2> QED  BY <1>7, <2>1, <2>2 DEF Unqueued
<1>15. s \notin completions /\ \A v \in Workers, t \in Sessions : Carrying(v, t)' => t # s
  BY <1>4, <1>9, <1>11, <1>5 DEF Carrying, OneRecvPerSocket
<1>16. \A v \in Workers, t \in Sessions : Carrying(v, t)' => Carrying(v, t)
  BY <1>1, <1>4, <1>9 DEF Carrying
<1>17. BufferIsNew'
  <2>1. completions' = completions /\ completions \subseteq Sessions
    BY <1>2 DEF netVars, TypeOK
  <2>2. \A t \in completions : Unqueued(t)'
    BY <1>14, <1>15, <2>1 DEF BufferIsNew
  <2>3. ASSUME NEW v \in Workers, NEW t \in Sessions, Carrying(v, t)'
        PROVE  Unqueued(t)'
    <3>1. Carrying(v, t)  BY <1>16, <2>3
    <3>2. Unqueued(t)  BY <3>1 DEF BufferIsNew
    <3>3. t # s  BY <1>15, <2>3
    <3> QED  BY <1>14, <3>2, <3>3
  <2> QED  BY <2>1, <2>2, <2>3 DEF BufferIsNew
<1>18. WorkerHasBuffer'
  BY <1>2, <1>4, <1>9 DEF WorkerHasBuffer, netVars
<1>19. PacketsInLine'
  BY <1>2 DEF PacketsInLine, netVars
<1> QED  BY <1>8, <1>10, <1>13, <1>17, <1>18, <1>19

LEMMA BindRecvInv ==
  ASSUME IInv, NEW w \in Workers, BindRecv(w)
  PROVE  IInv'
<1> USE DEF IInv
<1> DEFINE s == worker[w].session
<1>1. worker[w].pc = "bind" /\ worker[w] # Idle /\ worker[w] \in Busy
  BY BusyWorker DEF BindRecv, At
<1>2. s \in Sessions /\ Holds(w, s)  BY <1>1 DEF Busy, Holds
<1>3. worker'[w] = Idle /\ \A v \in Workers : v # w => worker'[v] = worker[v]
  BY DEF BindRecv, TypeOK
<1>4. UNCHANGED <<sent, arrived, ioBuffer, completions, queueVars>>  BY DEF BindRecv
<1>5. recvPending' \subseteq recvPending \cup {s} /\ open' \subseteq open
  BY DEF BindRecv
<1>6. TypeOK'
  BY <1>2, <1>4, <1>5 DEF TypeOK, BindRecv, queueVars
<1>7. \A v \in Workers, t \in Sessions : Holds(v, t)' => Holds(v, t) /\ t # s
  BY <1>2, <1>3 DEF Holds, OneRecvPerSocket
<1>8. OneRecvPerSocket'
  BY <1>2, <1>4, <1>5, <1>7 DEF OneRecvPerSocket
<1>9. \A v \in Workers, t \in Sessions : Holds(v, t)' => worker'[v] = worker[v]
  BY <1>3 DEF Holds
<1>10. BufferIsNew' /\ WorkerHasBuffer'
  BY <1>4, <1>7, <1>9 DEF BufferIsNew, WorkerHasBuffer, Carrying, Unqueued, queueVars
<1>11. PacketsInLine' /\ QueueInLine'
  BY <1>4 DEF PacketsInLine, QueueInLine, queueVars
<1> QED  BY <1>6, <1>8, <1>10, <1>11

-----------------------------------------------------------------------------
(* The logic thread.                                                        *)

LEMMA BeginPopInv ==
  ASSUME IInv, BeginPop
  PROVE  IInv'
BY DEF BeginPop, QueueInUse, At, IInv, TypeOK, OneRecvPerSocket, PacketsInLine, QueueInLine,
       BufferIsNew, WorkerHasBuffer, Carrying, Unqueued, Holds, netVars

\* A packet that is popped has been sent, and is later than those handled.
LEMMA HeadIsNext ==
  ASSUME IInv, jobQueue # <<>>
  PROVE  LET job == Head(jobQueue)
         IN  /\ job \in Jobs /\ job = jobQueue[1] /\ 1 \in DOMAIN jobQueue
             /\ handled[job.session] < job.packet
             /\ job.packet <= ioBuffer[job.session]
             /\ job.packet <= sent[job.session]
<1> USE MaxPacketsAssumption DEF IInv
<1>1. jobQueue \in Seq(Jobs)  BY DEF TypeOK
<1>2. Head(jobQueue) = jobQueue[1] /\ 1 \in DOMAIN jobQueue /\ jobQueue[1] \in Jobs
  BY <1>1
<1>3. jobQueue[1].session \in Sessions /\ jobQueue[1].packet \in Nat
  BY <1>2 DEF Jobs, Numbers
<1> QED  BY <1>2, <1>3 DEF QueueInLine, PacketsInLine, TypeOK, Numbers

LEMMA EndPopInv ==
  ASSUME IInv, EndPop
  PROVE  IInv'
<1> USE MaxPacketsAssumption DEF IInv
<1>1. UNCHANGED <<netVars, worker, raced>> /\ logic' = "idle"  BY DEF EndPop
<1>2. CASE jobQueue = <<>> /\ UNCHANGED <<jobQueue, handled>>
  BY <1>1, <1>2 DEF TypeOK, OneRecvPerSocket, PacketsInLine, QueueInLine,
       BufferIsNew, WorkerHasBuffer, Carrying, Unqueued, Holds, netVars
<1>3. CASE /\ jobQueue # <<>>
           /\ jobQueue' = Tail(jobQueue)
           /\ handled' = [handled EXCEPT ![Head(jobQueue).session] = Head(jobQueue).packet]
  <2> DEFINE job == Head(jobQueue)
             n   == Len(jobQueue)
  <2>1. /\ job \in Jobs /\ job = jobQueue[1] /\ 1 \in DOMAIN jobQueue
        /\ handled[job.session] < job.packet
        /\ job.packet <= ioBuffer[job.session]
    BY <1>3, HeadIsNext
  <2>2. job.session \in Sessions /\ job.packet \in Numbers  BY <2>1 DEF Jobs
  <2>3. jobQueue \in Seq(Jobs)  BY DEF TypeOK
  <2>4. /\ jobQueue' \in Seq(Jobs) /\ n \in Nat /\ DOMAIN jobQueue = 1..n
        /\ DOMAIN jobQueue' = 1..(n - 1)
        /\ \A i \in 1..(n - 1) : jobQueue'[i] = jobQueue[i + 1]
    BY <1>3, <2>3
  <2>5. /\ handled' \in [Sessions -> Numbers]
        /\ handled'[job.session] = job.packet
        /\ \A t \in Sessions : t # job.session => handled'[t] = handled[t]
    BY <1>3, <2>2 DEF TypeOK
  <2>6. TypeOK'  BY <1>1, <2>4, <2>5 DEF TypeOK, netVars
  <2>7. OneRecvPerSocket' /\ WorkerHasBuffer'
    BY <1>1 DEF OneRecvPerSocket, WorkerHasBuffer, Holds, netVars
  <2>8. PacketsInLine'
    BY <1>1, <2>1, <2>5 DEF PacketsInLine, netVars
  <2>9. QueueInLine'
    <3>1. ASSUME NEW i \in 1..(n - 1)
          PROVE  /\ handled'[jobQueue[i + 1].session] < jobQueue[i + 1].packet
                 /\ jobQueue[i + 1].packet <= ioBuffer[jobQueue[i + 1].session]
      <4>1. i + 1 \in DOMAIN jobQueue /\ 1 < i + 1  BY <2>4
      <4>2. jobQueue[i + 1] \in Jobs  BY <2>3, <4>1
      <4>3. jobQueue[i + 1].session \in Sessions  BY <4>2 DEF Jobs
      <4> QED  BY <2>1, <2>5, <4>1, <4>3 DEF QueueInLine
    <3>2. ASSUME NEW i \in 1..(n - 1), NEW j \in 1..(n - 1), i < j,
                 jobQueue[i + 1].session = jobQueue[j + 1].session
          PROVE  jobQueue[i + 1].packet < jobQueue[j + 1].packet
      <4>1. i + 1 \in DOMAIN jobQueue /\ j + 1 \in DOMAIN jobQueue /\ i + 1 < j + 1
        BY <2>4, <3>2
      <4> QED  BY <3>2, <4>1 DEF QueueInLine
    <3> QED  BY <1>1, <2>4, <3>1, <3>2 DEF QueueInLine, netVars
  <2>10. ASSUME NEW t \in Sessions, Unqueued(t)
         PROVE  Unqueued(t)'
    <3>1. handled'[t] < ioBuffer[t]
      BY <2>1, <2>5, <2>10 DEF Unqueued
    <3>2. ASSUME NEW i \in 1..(n - 1), jobQueue[i + 1].session = t
          PROVE  jobQueue[i + 1].packet < ioBuffer[t]
      <4>1. i + 1 \in DOMAIN jobQueue  BY <2>4
      <4> QED  BY <2>10, <3>2, <4>1 DEF Unqueued
    <3> QED  BY <1>1, <2>4, <3>1, <3>2 DEF Unqueued, netVars
  <2>11. BufferIsNew'
    BY <1>1, <2>10 DEF BufferIsNew, Carrying, Holds, netVars, TypeOK
  <2> QED  BY <2>6, <2>7, <2>8, <2>9, <2>11
<1> QED  BY <1>2, <1>3 DEF EndPop

-----------------------------------------------------------------------------
(* The theorems.                                                            *)

LEMMA InvStep == IInv /\ [Next]_vars => IInv'
<1> SUFFICES ASSUME IInv, [Next]_vars PROVE IInv'  OBVIOUS
<1>1. CASE UNCHANGED vars
  BY <1>1 DEF vars, netVars, queueVars, IInv, TypeOK, OneRecvPerSocket, PacketsInLine,
       QueueInLine, BufferIsNew, WorkerHasBuffer, Carrying, Unqueued, Holds
<1>2. ASSUME NEW s \in Sessions, ClientSend(s) \/ Complete(s) PROVE IInv'
  BY <1>2, ClientSendInv, CompleteInv
<1>3. ASSUME NEW w \in Workers, WorkerThread(w) PROVE IInv'
  BY <1>3, TakeCompletionInv, OnRecvInv, BeginPushInv, EndPushInv, BindRecvInv
     DEF WorkerThread
<1>4. CASE RunProcess
  BY <1>4, BeginPopInv, EndPopInv DEF RunProcess
<1> QED  BY <1>1, <1>2, <1>3, <1>4 DEF Next

\* The invariant holds in every behaviour, fair or not.
THEOREM Invariance == Spec => []IInv
<1>1. Init => IInv  BY InitInv
<1>2. IInv /\ [Next]_vars => IInv'  BY InvStep
<1> QED  BY <1>1, <1>2, PTL DEF Spec

\* The receives, the queue and the workers are typed, whatever is interleaved.
THEOREM TypeCorrect == Spec => []TypeOK
<1>1. IInv => TypeOK  BY DEF IInv
<1> QED  BY <1>1, Invariance, PTL

\* However many workers serve the port, a session is never in two places: its
\* one receive buffer (Session.cpp) is not filled while OnRecv reads it, and
\* no two workers process it at once.
THEOREM SessionsInOnePlace == Spec => []OneRecvPerSocket
<1>1. IInv => OneRecvPerSocket  BY DEF IInv
<1> QED  BY <1>1, Invariance, PTL

\* Every step of the pipeline is a step of OrderedInbox or leaves it alone.
LEMMA InboxStep == IInv /\ [Next]_vars => [Inbox!Next]_<<sent, handled>>
<1> SUFFICES ASSUME IInv, [Next]_vars PROVE [Inbox!Next]_<<sent, handled>>  OBVIOUS
<1> USE DEF Inbox!Next
<1>1. CASE UNCHANGED vars
  BY <1>1 DEF vars, netVars, queueVars
<1>2. ASSUME NEW s \in Sessions, ClientSend(s) PROVE [Inbox!Next]_<<sent, handled>>
  BY <1>2 DEF ClientSend, Inbox!Send, queueVars
<1>3. ASSUME NEW s \in Sessions, Complete(s) PROVE UNCHANGED <<sent, handled>>
  BY <1>3 DEF Complete, queueVars
<1>4. ASSUME NEW w \in Workers, WorkerThread(w) PROVE UNCHANGED <<sent, handled>>
  BY <1>4 DEF WorkerThread, TakeCompletion, OnRecv, BeginPush, EndPush, BindRecv,
       netVars, queueVars
<1>5. CASE BeginPop
  BY <1>5 DEF BeginPop, netVars
<1>6. CASE EndPop
  <2>1. CASE jobQueue = <<>> /\ UNCHANGED <<jobQueue, handled>>
    BY <1>6, <2>1 DEF EndPop, netVars
  <2>2. CASE /\ jobQueue # <<>>
             /\ handled' = [handled EXCEPT ![Head(jobQueue).session] = Head(jobQueue).packet]
    <3> DEFINE job == Head(jobQueue)
    <3>1. /\ job \in Jobs /\ handled[job.session] < job.packet
          /\ job.packet <= sent[job.session]
      BY <2>2, HeadIsNext
    <3>2. job.session \in Sessions /\ job.packet \in Nat  BY <3>1 DEF Jobs, Numbers
    <3>3. handled[job.session] \in Nat /\ sent[job.session] \in Nat
      BY <3>2, MaxPacketsAssumption DEF IInv, TypeOK, Numbers
    <3>4. job.packet \in (handled[job.session] + 1)..sent[job.session]
      BY <3>1, <3>2, <3>3
    <3>5. UNCHANGED sent  BY <1>6 DEF EndPop, netVars
    <3> QED  BY <2>2, <3>2, <3>4, <3>5 DEF Inbox!Handle
  <2> QED  BY <1>6, <2>1, <2>2 DEF EndPop
<1> QED  BY <1>1, <1>2, <1>3, <1>4, <1>5, <1>6 DEF Next, RunProcess

\* The receiving half of the server implements OrderedInbox: packets of one
\* client are processed in the order they were sent, each at most once.
THEOREM PipelineDeliversInOrder == Spec => DeliversInOrder
<1>1. Init => Inbox!Init  BY DEF Init, Inbox!Init
<1>2. IInv /\ [Next]_vars => [Inbox!Next]_<<sent, handled>>  BY InboxStep
<1> QED  BY <1>1, <1>2, Invariance, PTL DEF Spec, DeliversInOrder, Inbox!Spec
=============================================================================

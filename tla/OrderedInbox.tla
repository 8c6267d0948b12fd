---------------------------- MODULE OrderedInbox ----------------------------
(***************************************************************************)
(* What the receiving half of the server promises: the packets of a client *)
(* are processed in the order they were sent, each at most once and none   *)
(* before it was sent.  Packets may be lost: this is no promise to process *)
(* every one.                                                              *)
(***************************************************************************)
EXTENDS Integers

CONSTANTS Sessions, MaxPackets

VARIABLES
  sent,    \* the last packet each client has sent
  handled  \* the last packet of each client that was processed

Init == sent = [s \in Sessions |-> 0] /\ handled = [s \in Sessions |-> 0]

Send(s) ==
  /\ sent[s] < MaxPackets
  /\ sent' = [sent EXCEPT ![s] = @ + 1]
  /\ UNCHANGED handled

Handle(s) ==
  /\ \E n \in (handled[s] + 1)..sent[s] : handled' = [handled EXCEPT ![s] = n]
  /\ UNCHANGED sent

Next == \E s \in Sessions : Send(s) \/ Handle(s)

Spec == Init /\ [][Next]_<<sent, handled>>
=============================================================================

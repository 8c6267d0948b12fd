------------------------------ MODULE RoomTalk ------------------------------
(***************************************************************************)
(* What the chat promises its users, with no queues, threads or pages in   *)
(* it: whoever sits in a room is told of everything that happens there, at *)
(* the moment it happens and in the order it happens, and nobody else is;  *)
(* users look at what they were told in their own time, and with MayMiss   *)
(* they may overlook some of it, though never see it again or in disorder. *)
(***************************************************************************)
EXTENDS Integers, Sequences

CONSTANTS
  Users, Rooms,
  MayMiss, \* users may miss some of what they were told
  Lobby,   \* where users are that sit in no room
  Outside  \* where users are before they come and after they leave

VARIABLES
  present,  \* users at their screens
  seat,     \* the room a user sits in, Lobby or Outside
  inbox,    \* what a user was told and has not looked at
  shown     \* the members of the room a user's screen lists

\* Who speaks goes by a name that others may have as well: talk is talk.
Nobody == 0
News == [kind : {"enter", "exit"}, who : Users] \cup [kind : {"say"}, who : {Nobody}]

TypeOK ==
  /\ present \subseteq Users
  /\ seat \in [Users -> Rooms \cup {Lobby, Outside}]
  /\ inbox \in [Users -> Seq(News)]
  /\ shown \in [Users -> SUBSET Users]

Init ==
  /\ present = {}
  /\ seat = [u \in Users |-> Outside]
  /\ inbox = [u \in Users |-> <<>>]
  /\ shown = [u \in Users |-> {}]

Members(r) == {u \in Users : seat[u] = r}

\* Those of S that are at their screens are told.
Tell(S, kind, who) ==
  inbox' = [v \in Users |-> IF v \in S \cap present
                            THEN Append(inbox[v], [kind |-> kind, who |-> who])
                            ELSE inbox[v]]

\* Who comes is new: an id is given once.
Arrive(u) ==
  /\ seat[u] = Outside /\ u \notin present
  /\ seat' = [seat EXCEPT ![u] = Lobby]
  /\ present' = present \cup {u}
  /\ UNCHANGED <<inbox, shown>>

\* A user walks away from the screen; the seat is taken back later, by Leave.
Close(u) ==
  /\ u \in present
  /\ present' = present \ {u}
  /\ inbox' = [inbox EXCEPT ![u] = <<>>]
  /\ shown' = [shown EXCEPT ![u] = {}]
  /\ UNCHANGED seat

Enter(u, r) ==
  /\ seat[u] = Lobby
  /\ seat' = [seat EXCEPT ![u] = r]
  /\ Tell(Members(r) \cup {u}, "enter", u)
  /\ UNCHANGED <<present, shown>>

\* Who goes back to the lobby is told like everybody else.
Exit(u) ==
  /\ seat[u] \in Rooms
  /\ seat' = [seat EXCEPT ![u] = Lobby]
  /\ Tell(Members(seat[u]), "exit", u)
  /\ UNCHANGED <<present, shown>>

\* Who leaves the chat is not.
Leave(u) ==
  /\ seat[u] # Outside
  /\ seat' = [seat EXCEPT ![u] = Outside]
  /\ Tell(IF seat[u] = Lobby THEN {} ELSE Members(seat[u]) \ {u}, "exit", u)
  /\ UNCHANGED <<present, shown>>

Say(u) ==
  /\ seat[u] \in Rooms
  /\ Tell(Members(seat[u]), "say", Nobody)
  /\ UNCHANGED <<present, seat, shown>>

\* What u's screen shows after news e.
After(u, s, e) ==
  IF e.kind = "enter" THEN s \cup {e.who}
  ELSE IF e.kind = "say" THEN s
  ELSE IF e.who = u THEN {} ELSE s \ {e.who}

Look(u) ==
  /\ inbox[u] # <<>>
  /\ inbox' = [inbox EXCEPT ![u] = Tail(@)]
  /\ shown' = [shown EXCEPT ![u] = After(u, @, Head(inbox[u]))]
  /\ UNCHANGED <<present, seat>>

\* The next items are lost on the user, or all of them but the first.
Glance(u) ==
  /\ MayMiss
  /\ \E k \in 1..Len(inbox[u]) :
       inbox' = [inbox EXCEPT ![u] = SubSeq(@, k + 1, Len(@))]
  /\ \/ shown' = shown
     \/ shown' = [shown EXCEPT ![u] = After(u, @, Head(inbox[u]))]
  /\ UNCHANGED <<present, seat>>

Next ==
  \E u \in Users :
    \/ Arrive(u) \/ Close(u) \/ Exit(u) \/ Leave(u) \/ Say(u)
    \/ Look(u) \/ Glance(u)
    \/ \E r \in Rooms : Enter(u, r)

vars == <<present, seat, inbox, shown>>

Spec == Init /\ [][Next]_vars

-----------------------------------------------------------------------------
\* What u's screen shows of s after the news in box, one after another: who was
\* there, or enters in item i, and does not leave, nor u with it, in a later one.
Seen(u, s, box) ==
  {w \in Users :
     \E i \in 0..Len(box) :
       /\ IF i = 0 THEN w \in s ELSE box[i] = [kind |-> "enter", who |-> w]
       /\ \A j \in (i + 1)..Len(box) : ~(box[j].kind = "exit" /\ box[j].who \in {u, w})}

\* What u will have on the screen after looking at everything.
View(u) == Seen(u, shown[u], inbox[u])
=============================================================================

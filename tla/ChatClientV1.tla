---------------------------- MODULE ChatClientV1 ----------------------------
(***************************************************************************)
(* The v1.0 client: main logs in, starts RecvThread and SendThread, picks  *)
(* a room in Lobby and waits for the two.  All three share the socket, the *)
(* console and mRoom, which is 0 in the lobby and makes RecvThread and     *)
(* SendThread sleep.  ChatServerV1 joins these clients to the server.      *)
(*                                                                         *)
(* A line is one packet: splitContent only makes several packets of it.    *)
(* What is received is drawn and changes nothing else, so that of what is  *)
(* on its way to a client only whether there is any is kept.               *)
(***************************************************************************)
EXTENDS Integers, SequencesExt

CONSTANTS
  Slots,        \* how many slots the server has, each for one client
  Rooms,        \* the rooms, numbered from 1
  Leavers       \* the slots whose users leave a room, quit or vanish

ASSUME RoomsAssumption == Slots \in Nat \ {0} /\ Rooms \subseteq Nat \ {0}
ASSUME LeaversAssumption == Leavers \subseteq 1..Slots

VARIABLES
  link,      \* away, open, closing (the server's close
             \* is queued), closed, or reset
  client,    \* the client program of a slot, Outside if there is none
  unread,    \* something the server sent can be read
  toServer   \* packets on their way

clientVars == <<link, client, unread, toServer>>

Clients == 1..Slots
LOBBY == 0

\* main, SendThread and RecvThread; mbIsWorkerRun and mRoom; the room picked in
\* Lobby; whether /quit has been typed.
Outside == [main |-> "none", sender |-> "none", recver |-> "none",
            run |-> TRUE, mRoom |-> LOBBY, roomNo |-> LOBBY, quit |-> FALSE]

ClientInit ==
  /\ link = [c \in Clients |-> "away"]
  /\ client = [c \in Clients |-> Outside]
  /\ unread = [c \in Clients |-> FALSE]
  /\ toServer = [c \in Clients |-> <<>>]

LinkStates == {"away", "open", "closing", "closed", "reset"}
MainStates == {"none", "nickname", "waiting", "lobby", "entering", "joining"}
SenderStates == {"none", "asleep", "typing", "leaving", "lobby", "entering", "done"}
RecverStates == {"none", "asleep", "receiving", "done"}

Types == {"SERVER_ENTER", "SERVER_EXIT", "ROOM_ENTER", "ROOM_EXIT",
          "CHAT_BROADCAST", "CHAT_MULTICAST", "CHAT_UNICAST"}

Programs ==
  [main : MainStates, sender : SenderStates, recver : RecverStates, run : BOOLEAN,
   mRoom : Rooms \cup {LOBBY}, roomNo : Rooms \cup {LOBBY}, quit : BOOLEAN]
Messages == [type : Types, arg : Rooms \cup {LOBBY}]

-----------------------------------------------------------------------------
(* The connection.                                                          *)

\* InitSocket and ConnectServer; when they fail, there is no client.
Start(c) ==
  /\ link[c] = "away"
  /\ link' = [link EXCEPT ![c] = "open"]
  /\ client' = [client EXCEPT ![c] = [Outside EXCEPT !.main = "nickname"]]
  /\ UNCHANGED <<unread, toServer>>

\* The program ends: ErrorExit, the end of main, or its window is closed.
Ends(c) ==
  /\ link' = [link EXCEPT ![c] = "away"]
  /\ client' = [client EXCEPT ![c] = Outside]
  /\ unread' = [unread EXCEPT ![c] = FALSE]
  /\ toServer' = [toServer EXCEPT ![c] = <<>>]

\* The connection is closed by the server, or breaks.
Disconnect(c) ==
  /\ link' = [link EXCEPT ![c] = "closed"]
  /\ toServer' = [toServer EXCEPT ![c] = <<>>]
  /\ UNCHANGED <<client, unread>>

Continues(c, program) == client' = [client EXCEPT ![c] = program]

IsDown(c) == link[c] \in {"closed", "reset"}

\* send: the first packet sent after the connection was closed is lost, and the
\* answer to it is a reset; send fails then, or did at once.
Send(c, type, arg) ==
  /\ link[c] # "reset"
  /\ IF link[c] = "closed"
     THEN link' = [link EXCEPT ![c] = "reset"] /\ UNCHANGED toServer
     ELSE /\ toServer' = [toServer EXCEPT ![c] = Append(@, [type |-> type, arg |-> arg])]
          /\ UNCHANGED link
  /\ UNCHANGED unread

SendFails(c) == IsDown(c) /\ UNCHANGED <<link, unread, toServer>>

\* recv: what there is to read, or a part of it; or the end of the connection.
Recv(c) ==
  /\ unread[c]
  /\ \E more \in BOOLEAN : unread' = [unread EXCEPT ![c] = more]
  /\ UNCHANGED <<link, toServer>>

RecvFails(c) == IsDown(c) /\ UNCHANGED <<link, unread, toServer>>

-----------------------------------------------------------------------------
(* main.                                                                    *)

\* SetNickname has read a nickname that NicknameCheck does not refuse.
SetNickname(c) ==
  /\ client[c].main = "nickname"
  /\ \/ Send(c, "SERVER_ENTER", 0) /\ Continues(c, [client[c] EXCEPT !.main = "waiting"])
     \/ IsDown(c) /\ Ends(c)

\* NicknameCheck: whatever is read first is taken for the answer, and only
\* NICKNAME_ALREADY_EXIST, which is never sent, for a refusal.  CreateThreads
\* starts the threads; mRoom is 0, so they sleep.
NicknameCheck(c) ==
  /\ client[c].main = "waiting"
  /\ \/ /\ Recv(c)
        /\ Continues(c, [client[c] EXCEPT !.main = "lobby", !.sender = "asleep",
                                          !.recver = "asleep"])
     \/ IsDown(c) /\ ~unread[c] /\ Ends(c)

\* Mutation: the flag stays up when Lobby cannot send.
Lobby_KeepsRunning(c, thread) ==
  /\ client[c][thread] = "lobby"
  /\ \/ \E r \in Rooms :
          /\ Send(c, "ROOM_ENTER", r)
          /\ Continues(c, [client[c] EXCEPT ![thread] = "entering", !.roomNo = r])
     \/ thread = "main" /\ IsDown(c) /\ Ends(c)
     \/ /\ thread = "sender" /\ SendFails(c)
        /\ Continues(c, [client[c] EXCEPT !.sender = "asleep"])

\* Mutation: mRoom is set before the room is drawn.
Lobby_RoomFirst(c, thread) ==
  /\ client[c][thread] = "lobby"
  /\ \/ \E r \in Rooms :
          /\ Send(c, "ROOM_ENTER", r)
          /\ Continues(c, [client[c] EXCEPT ![thread] = "entering", !.roomNo = r, !.mRoom = r])
     \/ thread = "main" /\ IsDown(c) /\ Ends(c)
     \/ /\ thread = "sender" /\ SendFails(c)
        /\ Continues(c, [client[c] EXCEPT !.sender = "done", !.run = FALSE])

\* Lobby, run by main first and by SendThread after "/lobby": ENTER picks a
\* room.  A failure ends the program when it is main's, and else SendThread.
Lobby(c, thread) ==
  /\ client[c][thread] = "lobby"
  /\ \/ \E r \in Rooms :
          /\ Send(c, "ROOM_ENTER", r)
          /\ Continues(c, [client[c] EXCEPT ![thread] = "entering", !.roomNo = r])
     \/ thread = "main" /\ IsDown(c) /\ Ends(c)
     \/ /\ thread = "sender" /\ SendFails(c)
        /\ Continues(c, [client[c] EXCEPT !.sender = "done", !.run = FALSE])

\* The room is drawn and mRoom set; main goes on to wait for the threads.
EnterRoom(c, thread) ==
  /\ client[c][thread] = "entering"
  /\ Continues(c, [client[c] EXCEPT
       ![thread] = IF thread = "main" THEN "joining"
                   ELSE IF client[c].run THEN "typing" ELSE "done",
       !.mRoom = client[c].roomNo, !.roomNo = LOBBY])
  /\ UNCHANGED <<link, unread, toServer>>

\* Both threads have returned: Close, and the end of main.
JoinThreads(c) ==
  /\ client[c].main = "joining" /\ client[c].sender = "done" /\ client[c].recver = "done"
  /\ Ends(c)

-----------------------------------------------------------------------------
(* SendThread and RecvThread.                                               *)

\* while (mRoom == 0) Sleep(500), in either thread.
Wake(c, thread, to) ==
  /\ client[c][thread] = "asleep" /\ client[c].mRoom # LOBBY
  /\ Continues(c, [client[c] EXCEPT ![thread] = to])
  /\ UNCHANGED <<link, unread, toServer>>

\* processSendMsg has failed: Close, and SendThread returns.
GivesUp(c) ==
  /\ SendFails(c)
  /\ Continues(c, [client[c] EXCEPT !.sender = "done", !.run = FALSE])

\* A line has been typed, which SendThread hands to processSendMsg unless it may
\* not run any more: a whisper or talk,
Talk(c) ==
  /\ client[c].sender = "typing" /\ client[c].run
  /\ \E type \in {"CHAT_BROADCAST", "CHAT_MULTICAST", "CHAT_UNICAST"} : Send(c, type, 0)
  /\ Continues(c, client[c])

\* "/quit" or "/lobby"; or any line that cannot be sent.
TypeLine(c) ==
  /\ client[c].sender = "typing"
  /\ \/ /\ ~client[c].run
        /\ Continues(c, [client[c] EXCEPT !.sender = "done"])
        /\ UNCHANGED <<link, unread, toServer>>
     \/ /\ client[c].run
        /\ Send(c, "SERVER_EXIT", 0) /\ Continues(c, [client[c] EXCEPT !.quit = TRUE])
     \/ /\ client[c].run
        /\ Continues(c, [client[c] EXCEPT !.sender = "leaving", !.mRoom = LOBBY])
        /\ UNCHANGED <<link, unread, toServer>>
     \/ client[c].run /\ GivesUp(c)

\* The rest of "/lobby": mRoom is 0 before the server is told.
LeaveRoom(c) ==
  /\ client[c].sender = "leaving"
  /\ \/ Send(c, "ROOM_EXIT", 0) /\ Continues(c, [client[c] EXCEPT !.sender = "lobby"])
     \/ GivesUp(c)

\* A message is drawn, whatever page is shown by now; or Close, and the end.
Receive(c) ==
  /\ client[c].recver = "receiving"
  /\ \/ /\ Recv(c)
        /\ Continues(c, [client[c] EXCEPT
             !.recver = IF ~client[c].run THEN "done"
                        ELSE IF client[c].mRoom = LOBBY THEN "asleep" ELSE "receiving"])
     \/ /\ RecvFails(c)
        /\ Continues(c, [client[c] EXCEPT !.recver = "done", !.run = FALSE])

\* What waits for the user, and what the threads do of themselves.
UserActs(c) ==
  \/ SetNickname(c) \/ Lobby(c, "main") \/ Talk(c)
  \/ c \in Leavers /\ (TypeLine(c) \/ Lobby(c, "sender"))

MainThread(c) == NicknameCheck(c) \/ EnterRoom(c, "main") \/ JoinThreads(c)
SendThread(c) == Wake(c, "sender", "typing") \/ LeaveRoom(c) \/ EnterRoom(c, "sender")
RecvThread(c) == Wake(c, "recver", "receiving") \/ Receive(c)

-----------------------------------------------------------------------------
(* Properties.                                                              *)

AtConsole(c) ==
  client[c].main \in {"nickname", "lobby"} \/ client[c].sender \in {"typing", "lobby"}

\* main and SendThread never use the console at the same time: Lobby, which both
\* run, lets SendThread prompt only when it is done.
ConsoleHasOneUser ==
  \A c \in Clients :
    client[c].main \in {"nickname", "lobby", "entering"} =>
      client[c].sender \in {"none", "asleep"}

\* RecvThread sleeps for good: mRoom is 0 and nobody is left to set it.
Stranded(c) ==
  client[c].recver = "asleep" /\ client[c].mRoom = LOBBY /\ client[c].sender = "done"

\* Once the connection is closed the program ends, unless it waits for its user
\* for ever, or has left RecvThread asleep in the lobby: that is the one way in
\* which it hangs.  Only the connections of Leavers are closed.
ClosedClientEnds ==
  \A c \in Leavers :
    IsDown(c) ~> link[c] = "away" \/ []AtConsole(c) \/ []Stranded(c)
=============================================================================

# Verification of the TCP socket chat server

TLA+ models of the chat server in this repository, both of its versions, with
TLC runs on small instances and TLAPS proofs of the central invariants for every
value of the constants. Version 1.1 (`src/ChattingServer_v1.1`) is the program;
version 1.0 (`src/ChattingServer_v1.0`) is its predecessor and is kept in the
repository. Paths below are relative to those directories.

Contents: 1 the system, 2 the modules, 3 what each run shows, 4 bounds,
5 fairness, 6 proofs, 7 where code and intentions part, 8 what is not modelled,
9 plan.

## 1. The system

### Version 1.1: components, state, operations

| Part | Code | State | Operations | Talks to |
|---|---|---|---|---|
| accepter thread | `ChatServer.cpp` 20-45 | listening socket | accept, `CreateUser` | users, completion port |
| worker threads (10) | `ChatServer.cpp` 48-120, `Session.cpp` | completion port; one socket and one receive buffer per session | take a completion, decode, push a job, post the next receive, remove a user whose completion failed | users, job queue |
| logic thread (1) | `LogicProcess*.{h,cpp}` | `jobQueue_` | nine handlers, one per client packet | users, rooms, package queue |
| send thread (1) | `SendServer.h` | `packages_` | encode and `WSASend` one package | sessions |
| users | `UserManager.*`, `ChatUser.h` | `userList_`, `userId_`, nickname, `currRoom_` | create, remove, find | rooms, sessions |
| lobby and rooms | `RoomManager.*`, `Room.*` | `userInLobby_`, `roomList_`, `roomId_`, `users_` | create a room, enter, exit, cast, list the rooms | package queue |
| wire format | `NetworkLib/*` | stream buffer and position | encode, decode, packet factory | both ends |
| client | `ChattingClient/*` | `state_`, `display_`, `sendQueue_`, `recvQueue_` | pages (login, lobby, room), a handler per server packet; page, logic, sending and receiving thread | server |
| start and stop | `main.cpp`, `IOCPServer.cpp`, `LogicProcess.cpp` 33-60 | run flags, listening socket, completion port | open them, create and join threads | every thread |

No thread of the server takes a lock: the two definitions that would compile the
locks of the queues in stand inside a comment (`LogicProcess.h` 6-15), and those of
the user list are commented out. The user list, the rooms and both queues are shared
by the accepter, ten workers, the logic thread and the send thread. The client locks `sendQueue_` on one of its
two ways in, and nothing else.

A packet's way: the user types; the page thread queues; the client's sending
thread writes to the socket; a worker of the server gets the completion, decodes
one packet and pushes a job; the logic thread runs the handler, which changes
users and rooms and pushes packages; the send thread writes them; the client's
receiving thread decodes one packet and queues it; its logic thread runs the
handler, which changes the page.

### Version 1.0

| Part | Code | State | Operations |
|---|---|---|---|
| slots | `ClientManager.h`, `ClientInfo.cpp` | slots with their sockets, queue of empty slots, capacity, count | take, connect, receive, send, close, return |
| chat | `PacketManager.hpp`, `ChatClientManager.h`, `UserInfo.h` | a nickname, a room and a previous room per slot; packet queue | seven packets, unicast, cast by room |
| threads | `IOCPServer.cpp`, `ChatServer.cpp` | run flags | accepter, workers, packet thread; shutdown |
| client | `ChattingClient/*` | `mRoom`, `mbIsWorkerRun`, the console; main, `SendThread`, `RecvThread` | login, lobby, room, `/lobby`, `/quit` |

### What is hard here, and what correct means

* **Users** are created, found and removed by three kinds of threads at once. A
  user that is found must be alive; one whose connection is lost must leave; no
  one is released twice.
* **Rooms** hold raw pointers to users, users a raw pointer to their room. The two
  must agree; handlers use the pointers unchecked and rely on clients to send
  only what fits.
* **Receiving**: any worker may serve any completion, and a session has one
  buffer. Packets must be handled in order, none twice.
* **Client and server** each keep a picture of the other that a dozen packets in
  two queues and two streams separate. At rest they must agree; what a user asks
  for must come; what arrives must fit the display it is handed to.
* **The client's pages** block for input while the logic thread deletes their
  display and changes the state.
* **Shutdown** must wake whatever each thread waits in; so must the end of a
  connection in the v1.0 client, whose three threads share the console.
* **The wire format** has no lengths: what is written must be what is read.
* **Slots** of v1.0 are taken and returned under two locks, their sockets used
  under none: none may be given out twice, none lost.

`PROJECT.json` lists each hazard at its line, with the properties about it.

## 2. The modules

| Module | What | Extends or uses |
|---|---|---|
| `ChatServer` | v1.1 above the sockets: users, lobby, rooms, handlers, queues; any client may send anything | |
| `ChatSystem` | `ChatServer` with v1.1 clients and two streams per connection | `ChatServer`; implements `RoomTalk` |
| `RoomTalk` | what the chat promises: who sits in a room is told of everything in it, in order, and nobody else is | |
| `RecvPipeline` | completions, workers, receive buffer, job queue | implements `OrderedInbox` |
| `OrderedInbox` | what receiving promises: in order, at most once, none made up | |
| `RoomSteps` | v1.1 rooms line by line: entrances, exits and casts of the logic thread against removals by workers | implements `RoomTalk` |
| `UserLifetime` | creation and removal of users, split into the threads' steps | |
| `ServerShutdown` | both releases, from the start of main to its end: sockets, port, threads, flags, joins | |
| `WireFormat` | encode, send, receive, decode: the bytes | |
| `ChatClient` | the four threads of one v1.1 client, step by step | |
| `ClientPool` | v1.0 slots, sockets and counters, step by step | |
| `ChatClientV1` | v1.0 clients: main, `SendThread` and `RecvThread` of each, step by step, and its connection | |
| `ChatServerV1` | v1.0 chat: those clients, workers, packet thread | `ChatClientV1` |
| `*Proofs` | theorems about the module they are named for | that module, `TLAPS` |
| `MC*` | values for TLC | the module they are named for |

Definitions keep the names of the functions they translate: an action
`C_ROOM_ENTER` is `LogicProcess::C_ROOM_ENTER`, `ExitRoom(u, e)` is
`Room::ExitRoom`, `recvPending` is a receive that has been posted and has not
completed. A definition with a suffix and the comment *Mutation* is not part of
the model: it is the same function with a mistake, kept to show which property
notices it.

**`ChatServer`.** One action per handler, whole: `C_ROOM_ENTER` moves the user,
tells every member (in the order of `std::set<User*>`, that is of addresses, a
constant) and queues the room's name. `RecvCompletion` is a worker that decodes
and pushes a job and posts the next receive or fails to; `FailedCompletion` one
that removes its user; `StaleCompletion` one whose user has gone. What the code
leaves undefined is a step to a `fault` where the behaviour stops: a job of a
deleted user (`staleJob`), a package for one (`stalePackage`), a room that is not
there (`nullRoom`), a member that has been deleted (`staleMember`). Workers remove
users without a lock while the logic thread is in a handler. Taking both as one step
is right as long as they are not with the same user or in the same room at once, which
is what `RoomSteps` is about; where they may be (`Overlap`: the handler's user, a member
of a room it visits, the receiver of its whisper, or a room another worker removes a
user from) a behaviour may also stop, with the fault `overlap`. So all that is said of
`ChatServer` and `ChatSystem`, in runs and theorems, is said of executions until a
removal overlaps a handler. Two accesses to one container of different users
(`userInLobby_`, `userList_`) at the same moment are left out, see 8. The id of a
room is a number that wraps, as `uint16_t` does: when it comes to an id in use
the room is not inserted. An empty nickname decodes to `Garbled`, see
`WireFormat`.

**`ChatSystem`** replaces "any packet" by what the client's pages let a user do.
A client is its `state_`, the rooms and users its display shows, and whether its
user waits. Handlers of the client are one action each; a handler that would cast
its display to another class records the packet in `miscast`. With `Coalescing`
one receive returns several packets of which all but the first are lost, on both
sides.

**`RoomTalk`** has no queues, threads, streams or pages. A user sits in a room, in
the lobby or outside; entering, leaving and speaking tell every member present, at
that moment; users look at what they were told in their own time. `ChatSystem`
maps to it: `seat` is `currRoom` of listed users, `present` the connected clients,
`shown` the display's members, and a user's `inbox` the news of rooms (`NewsOf`)
among the packets on the way to it (`OnTheWay`): those in its stream, followed by
those for it in the package queue.
The room's name, room lists and broadcasts are no news of a room and map to
nothing. So a handler's step, which moves a user and queues a package per member,
is one `Enter`, `Exit`, `Leave` or `Say`; sending is a stutter; a client's handler
is `Look`. `MayMiss` is `Coalescing`: a receive that drops what follows the first packet
is a `Glance`, which loses the next items on its user, or all of them but the first.
What a screen shows after some news is written in one formula (`Seen`),
so that it can be reasoned about; an assumption of `MCChatSystem`, which TLC
evaluates, compares it with looking at one item after another.

**`RecvPipeline`** follows packet numbers through socket, buffer, worker and
queue. Push and pop are two steps; when two threads are in the queue at once the
variable `raced` becomes true and nothing is said of what follows. Under
`Inbox == INSTANCE OrderedInbox` the variables `sent` and `handled` are those of
the abstract specification: the refinement mapping is by name.

**`RoomSteps`** has no queues. The logic thread is at a line of `EnterRoom`, `ExitRoom`
or `RoomCast`, with the members its loop has not come to; each worker at a line of
`RemoveUser`. A user that is told lists what it was told (`shown`), reading being one
step with the push, since the one queue keeps the order of the pushes. Deleted objects
that are used, a room that is not there and two threads in one container are faults.
`met` records whether two threads have been with one user, or in one room, at once:
the properties say which harm takes which meeting, and the model stops once there have
been both. It is here that `IsInLobby` is read before another thread lets the user in,
and that an exit is told between the lines of an entrance. `Seat` says where a user is
while a thread is moving it, and `Inbox` holds the one piece of news a thread is in the
middle of telling: with them each operation is one step of `RoomTalk`, at its first
line. A broadcast is `RoomCast` room by room and is not there of its own.

**`UserLifetime`** splits `CreateUser` into initialize (which posts the first
receive), insert, push into the lobby, and `RemoveUser` into leave the room,
release the socket, erase, delete. A connection may be lost at any time (`lost`), upon
which the receive fails, and so may a send; posting the next receive may fail at once,
after which the socket is closed and there is no further completion. `overlooked` are
the users whose loss some thread noticed without removing anybody. Using a deleted user
is a `fault`.

**`ServerShutdown`** has main's calls in order, from `Initialize` with its errors to
the last join, and for each other thread the loop "read the flag, block, work".
`GetQueuedCompletionStatus` blocks while the port is empty, `accept` while nobody
connects and the socket is open. `release` says whose main it is: v1.0 posts no null
completions, closes the port before it clears the accepter's flag, and has a packet
thread (`sender`) and no logic thread.

**`ChatClient`** has one variable for what the page thread is doing and with which
display, and for the logic thread the steps left of its handler: `F_ROOM_EXIT` is
`<<"delete", "lobby", "LOBBY", "draw">>`, display before state, `F_ROOM_ENTER` and
`F_SERVER_ENTER_OK` the other way round, as in the code. `_getch` and `getline`
are places where only the user's typing goes on. The room list is three numbers:
how many ids and how many names the display has, which `SetRoomList` assigns one
after the other, and the line the cursor is on, which the page thread moves by the
names and `GetSelection` looks up in the ids.

**`ClientPool`** has a place for every access to a slot, to the queue of empty
slots and to the count. A completion carries the slot it was posted for, which may
by then have another socket. The packet thread sends to any slot at any time
(`SendMsg`: whom it sends to is the business of `ChatServerV1`), and a send that fails
completes like a failed receive, so that two workers may close the client. `trouble`
counts what ownership does not survive in this code: such a failed send, a SERVER_EXIT,
whose answer closes the client when it completes, and a call that fails at once, which
closes the slot without returning it.

**`ChatClientV1`** has a record per client program: the places of its three threads,
`mbIsWorkerRun` and `mRoom`, which 0 makes `SendThread` and `RecvThread` sleep.
`Lobby` is run by main after the login and by `SendThread` after `/lobby`, and fails
differently in the two. What is received is only drawn, so that of what is on its way
to a client the model keeps whether there is any. The first packet sent after the
connection has closed is lost without an error, the next one fails. **`ChatServerV1`**
names these clients by their slots and adds the workers, `stUserInfo` and the packet
thread; a cast goes from slot to slot. A packet carries `where`, the room it is
about, which the code does not have: `CastWhereSent` compares it with the room the
packet thread finds. A client acts again once the server has *read* what it sent; the
packet thread may still have all of it before it.

**`WireFormat`** is functions on sequences of bytes: `Stream`'s `operator<<` with
its bound, strings that end at a zero, `operator>>` with the bound it checks, and
`PacketFactory`, for a packet of each layout that is ever sent. (Packets that differ
in their type only have the same layout; `S_LOBBY_USER_INFO`, the longest, is sent by
nothing.)

## 3. What each run shows

| Run | Instance | Properties | Shows |
|---|---|---|---|
| `server_any` | 2 users, 2 room ids | `TypeOK`, `CurrentRoomHasMember`, `RoomListsGrow` | Users and rooms agree whatever clients send, room ids wrapping included; a client that picks from the list it shows picks a room that exists, even if another list is under way. |
| `system_rooms` | 2 clients, 3 room ids (room 0 cannot be picked) | `SysTypeOK`, `PagesMatchRooms`, `ViewsAgree`, `HandlersFindTheirRooms`, `MembershipExact`, `ImplementsRoomTalk` | Until a removal overlaps a handler, and of users that wait for the page they asked for: the two queues, the handlers of rooms, two streams and the displays lose, repeat, reorder and misdirect no news of rooms, with two rooms to be in; they implement `RoomTalk`. Nothing in a handler checks that a room is there, but the pages do it for them. Whatever is under way, what a member is going to see is members of its room, itself included, and of two members the one that was there first sees the other. At rest a page is the room's exactly when the server thinks so, also of a user that has asked for another. |
| `room_steps` | 3 users, 2 rooms, the logic thread and 2 workers | `MembersExact`, `FaultsExplained`, `StepsImplementTalk` | What entitles `ChatServer` to whole steps. Threads with different users in different rooms, at whatever lines, do each other no harm, and each operation is one step of `RoomTalk`. Where a removal falls into another user's handler in the same room, news may come in the wrong order and a loop over `users_` may break, but a room never keeps a deleted user: that, a null room and a deleted member visited take two threads with the *same* user at once. |
| `system_answers` | 2 clients, broadcasts | `DisplaysFit`, `RequestsAnswered` | Who asks to enter or leave a room gets the page; no packet meets a display of another class. |
| `recv_pipeline` | 2 sessions, 2 workers, 3 packets each | `OneRecvPerSocket`, `DeliversInOrder`, `ReceivedIsHandled` | The order "push, then post the next receive" is what keeps a buffer from being refilled while it is read, and packets in order. |
| `user_lifetime` | 1 user, 3 workers, a send | `ListedIsAllocated`, `LostUsersLeave` | Without locks, still: found means alive. A listed user whose connection is lost leaves the list, but for the two ways to overlook the loss: it is noticed between the first receive and the insert, or `BindRecv` fails, at whose result nobody looks. |
| `user_released_twice` | 1 user, 2 workers | `NotReleasedTwice` (violated) | Answers the question the refactoring notes leave open, see 7. |
| `server_shutdown` | 3 workers, both releases | `WakeupsSuffice`, `QuitStopsServer` | v1.1: every join returns, whatever the threads were doing, with clients that talk on. v1.0: the one place it hangs is the join of a worker that waits in an empty port; after it, all goes well. Deadlock is checked: apart from the end, nothing stops. |
| `wire_format` | 128 byte buffer | `RoundTrip` | What fits arrives as it was sent, to the last byte of the buffer and without a look behind what was received, but for the empty string, which is never decoded as one. |
| `chat_client` | 3 kinds of lines, 3 packets under way, 2 rooms | `TypeOK`, `PageUsesItsDisplay`, `SelectionHasId`, `HandlersFitDisplay`, `AnswersShown`, `FailedSendEnds` | The order in which display, state, list and queue are changed is right where it matters: no page uses a deleted display, the cursor never points behind the ids, login is not lost to a late assignment, what was asked for is drawn. |
| `client_pool` | 4 slots (1 at first), 2 workers, 5 connections, a send under way | `TypeOK`, `SlotsExact`, `CountExact`, `FrontExists`, `OneReceive`, `AllReturned` | As long as only receives fail, whatever is sent meanwhile, no slot is lost or doubled and no socket has two receives. In trouble too, with slots doubled or lost, count and queue go together, and the accepter finds a slot whenever the count says so, unless it lost one itself. |
| `chat_v1` | 1 slot, 2 rooms | `TypeOK`, `RoomAgreement`, `CastWhereSent`, `ConsoleHasOneUser`, `QuitCloses`, `ClosedClientEnds` | A slot's old room does not carry over to its next client; talk is cast where it was said although the room is looked up late, unless the sender has entered another room, or the slot has a new user, before the packet thread comes to it; `/quit` disconnects who says nothing after it; main and `SendThread` never read the console at once; a client whose connection ends ends too, but for the one hang described in 7. |

Each property of a passing run has a mistake in the model, named in
`PROJECT.json` (`mutants`), for which TLC finds it violated. The type invariants of `RecvPipeline`,
`UserLifetime` and `ServerShutdown` are theorems (section 6) and no run checks
them again.

What the properties suppose is in their formulas or in the header of the module:

* `ChatSystem` and `RoomSteps`: users wait for the page they asked for. The client does
  not make them: `LobbyPage` and `ChatRoomPage` go on reading and sending until the
  answer comes. `ChatServer`, where any client may send anything, is about users that
  do not wait.
* `ChatServer` and `ChatSystem`: no removal overlaps a handler (section 2).
* `ChatClient`: users type what fits the page they see, wait likewise, and type no
  empty line and no cursor key in a room.
* `ClientPool`: `SlotsExact`, `OneReceive` and `AllReturned` are about `Calm`
  executions: no SERVER_EXIT has been sent, no send has failed and no call has failed
  at once. The model goes on after that (`Trouble`); `TypeOK`, `CountExact` and
  `FrontExists` are about all of it.
* `ChatServerV1`: what a user does next comes after the server has read what it did
  before (not after the packet thread has dealt with it), and connections break only
  then; and users say nothing after `/quit`. The client enforces neither.

## 4. Bounds

| Bound | Where | Why it is enough |
|---|---|---|
| `MaxUserId` = 2 | server, system | Handlers are about one user, the rest of its room, or another user. Ids are never used again, so a deleted user is followed by another one. |
| `MaxRoomId` = 1 or 2 | server, system | 1 (`server_any`, `system_answers`) makes ids wrap at once; 2 (`system_rooms`) leaves two rooms that can be picked, to be in the wrong one. |
| `Nicknames` = one | server, system | Two users with the same name is the case that tells; the name is only compared. |
| `MaxJobs` = 1, `MaxStream` = 1, `MaxSends` = 0 | server, system | A handler may start once the package queue is no longer than `MaxSends`, and pushes all it has to. A packet of each client may be in its stream while one is in the queue, and one on the way back. The theorems have no such bound. |
| `Coalescing` = FALSE | system | Several packets in one receive would take longer streams. Which of the properties survive them is proved, for any length (section 6). |
| `Speech` = {} or broadcasts | system | `system_rooms` has the entrances and exits, which change what is shown; talk in a room is one more cast to its members. The theorems have every kind of talk. |
| 3 users, 2 rooms, 2 workers | `RoomSteps` | A room's member to be told while two others come and go, in its room or the other; three threads, of which two can remove the same user. The model stops once two threads have met in both ways. |
| 1 user, 3 workers | `UserLifetime` | Users do not meet in the list. The user's exit, its failed receive and its failed send can be with three threads at once, the accepter being a fourth. |
| `MaxPackets` | `RecvPipeline` 3, `ChatClient` 3, `ChatServerV1` 3 (the packet queue) | Three packets of a session make one handled, one queued, one in the buffer. The client waits for one answer at a time; others add to it. |
| `MaxIo` = 2, `MaxWork` = 2, 3 workers | `ServerShutdown` | Fewer completions than workers, and more than none. |
| `Connections` = 5, `InTrouble` = 2, `MaxTrouble` = 1, `MaxSending` = 1 | `ClientPool` | One more than slots: the pool doubles twice, fills, refuses, and slots are used again. Sends, and trouble, are of the first two connections: a slot that was returned twice is used again by the second. One failure doubles or loses a slot. |
| `MaxWaiting` = 2 | `ClientPool` | Receives on one socket and completions of a kind: two is already wrong. |
| `Slots` = 1, `Leavers` = {1} | `ChatServerV1` | One slot whose clients come and go, with the packet thread as late as the queue allows; its casts go to the sender. Two such slots are thirty times as many states. The safety theorems are for any number of slots; liveness is checked of one. |
| `MaxRooms` = 2 | `ChatClient` | Lists of no room, of one and of two: one that is ignored, one that grows under the cursor. At two, a new room is not inserted. |
| `SOCKBUF_SIZE` = 128, `Strings`, `RoomLists` | `WireFormat` | An eighth of the real buffer; strings and lists on both sides of what fills it (at most eight rooms), ids of one byte and of two. The theorem has no such bound. |

## 5. Fairness

Threads of the operating system run: weak fairness of each thread's next step,
where it has one. A thread that waits in the port has one when the port is not
empty. The network delivers what was sent while the connection stands
(`Complete` in `RecvPipeline`). Nothing obliges a user to type, a client to
connect or leave, or an operator to quit.

`ChatSystem` has strong fairness of receiving: `MaxJobs` makes a worker wait for
room in the job queue, which the code's queue, without a bound, never does.
`ChatServerV1` asks for fairness of the workers by client, since every completion
is taken by some worker, and of each of a client's three threads by itself; a worker's
is strong, because `MaxPackets` makes it wait for room in the queue, which the code's
never does. What
`system_rooms` checks is a step refinement: `RoomTalk` promises nothing in time, and
`RequestsAnswered` is what does. `ClientPool` and `ChatServer` have safety properties
only; `AllReturned` is one, about states where nothing is under way.

## 6. Proofs

| Theorem | Module | States | For every |
|---|---|---|---|
| `TypeCorrect` | `ChatSystemProofs` | `[]TypeOK` | number of users and room ids, order of addresses, sequence of packets |
| `RoomsAgree` | `ChatSystemProofs` | `[]CurrentRoomHasMember` | the same |
| `ListsGrow` | `ChatSystemProofs` | `[]RoomListsGrow` | the same |
| `SessionsInOnePlace` | `RecvPipelineProofs` | `[]OneRecvPerSocket` | sessions, workers, packets |
| `TypeCorrect` | `RecvPipelineProofs` | `[]TypeOK` | the same |
| `PipelineDeliversInOrder` | `RecvPipelineProofs` | `DeliversInOrder`: the pipeline implements `OrderedInbox` | the same |
| `TypeCorrect` | `UserLifetimeProofs` | `[]TypeOK` | users, workers |
| `ListHoldsLiveUsers` | `UserLifetimeProofs` | `[]ListedIsAllocated` | the same |
| `TypeCorrect` | `ServerShutdownProofs` | `[]TypeOK` | finite set of workers, both releases |
| `NoWorkerStranded` | `ServerShutdownProofs` | `[]WakeupsSuffice` | the same |
| `SysTypeCorrect` | `ChatSystemProofs` | `[]SysTypeOK` | number of users, room ids, packets under way; kinds of chat; receives that lose packets or do not |
| `RoomsAreFound` | `ChatSystemProofs` | `[]HandlersFindTheirRooms` | the same |
| `MembersExact` | `ChatSystemProofs` | `[]MembershipExact` | the same |
| `PagesFit` | `ChatSystemProofs` | `[]PagesMatchRooms` | the same, if a receive returns one packet |
| `TalkImplemented` | `ChatSystemProofs` | `ImplementsRoomTalk`: the system implements `RoomTalk` | the same |
| `ViewsAlwaysAgree` | `ChatSystemProofs` | `[]ViewsAgree` | the same, if a receive returns one packet |
| `DisplaysAlwaysFit` | `ChatSystemProofs` | `[]DisplaysFit` | the same, if a receive returns one packet and nobody whispers |
| `TypeCorrect` | `ChatClientProofs` | `[]TypeOK` | number of rooms, of packets under way |
| `PagesAreSafe` | `ChatClientProofs` | `[]PageUsesItsDisplay` | the same |
| `CursorIsSafe` | `ChatClientProofs` | `[]SelectionHasId` | the same |
| `CastsAreSafe` | `ChatClientProofs` | `[]HandlersFitDisplay` | the same |
| `TypeCorrect` | `ChatServerV1Proofs` | `[]TypeOK` | number of slots, set of rooms, packets queued |
| `RoomsAgree` | `ChatServerV1Proofs` | `[]RoomAgreement` | the same |
| `CastsStayInTheirRoom` | `ChatServerV1Proofs` | `[]CastWhereSent` | the same |
| `OneThreadAtConsole` | `ChatServerV1Proofs` | `[]ConsoleHasOneUser` | the same |
| `TypeCorrect` | `ClientPoolProofs` | `[]TypeOK` | number of slots (four at least) and of connections, finite set of workers |
| `OneOwner` | `ClientPoolProofs` | `[]SlotsExact` | the same |
| `CountFollowsQueue` | `ClientPoolProofs` | `[]CountExact` | the same |
| `QueueHasFront` | `ClientPoolProofs` | `[]FrontExists` | the same |
| `ReceivesOnce` | `ClientPoolProofs` | `[]OneReceive` | the same |
| `PoolRefills` | `ClientPoolProofs` | `[]AllReturned` | the same |
| `RoundTripAlways` | `WireFormatProofs` | `[]RoundTrip` | buffer size (more than a header and an id), strings without a zero byte, lists of fewer than 65536 rooms |

They rest on the assumptions the modules state of their constants: ids and bounds
are natural numbers, addresses of users differ, the names that are not nicknames
are none, the workers are finitely many, v1.0 numbers its rooms from 1, the lines a
user types are of the three kinds `ChatClient` tells apart, ids fit the bytes they are
sent in. The suppositions of
section 3 (users wait for the page they asked for) are part of the specifications
and so of the theorems. `RoomsAreFound`, `MembersExact` and `TalkImplemented` are for
both values of `Coalescing`, receives of one packet or of several; no run has the second.
The theorems of `ChatSystemProofs` are about executions until a removal overlaps a
handler: that this is the limit, and no less would do, is what `room_steps` checks on
three users, and it is not proved.

**Rooms** (`ChatSystemProofs`, the server alone). `IInv` adds to types and agreement that users not
in the list are in no room: without it `CreateUser` could list a user that has one.
Lemmas say what `ExitRoom`, `RemoveUser` and `EnterRoom` leave well typed; then one
step per action. Room lists are about the queue alone: every handler pushes a
sequence of packages, so `PushKeepsLists` (pushed lists name what exists now, and
nothing is ever removed from `roomList`) carries each action, and the other
packages are shown to be no lists.

**Users in their rooms** (`ChatSystemProofs`). What the handlers do not check holds
because of the pages, so the invariant ties together, one user at a time (`UserInv`),
the page of the client, the room the server has the user in, what is on its way to the
server (`Going`: stream and job queue) and what is on its way back (`Coming`: package
queue and stream). Requests find what they need: on the way to the server is an entrance
only of a user in the lobby, an exit or talk only of one in a room, and nothing follows
a request for another page (`Requests`, `FinalLast`). A page that is not the room's when
the server has the user in one, or the other way round, is one whose user waits, with
nothing else on the way to the server (`Page`); nothing that turns a page follows an
answer that opens the lobby's (`ClosingLast`). Both streams may lose packets, and these
facts survive it: hence most of the theorems suppose nothing about receives. Only
that the answer is still to come (`Answered`) needs receives of one packet, and
`PagesFit` rests on it. The rest is what streams and queues do to `Going` and `Coming`,
a lemma for each way they move, and one lemma for each action; that each step is one
of `ChatServer` gives types and agreement of rooms for nothing (`StepOfServer`).

**The abstract chat** (`ChatSystemProofs`, second half). `TalkImplemented` goes step by
step. What is on the way to a user is a selection from two sequences (`Sift`), and the
first lemmas say what each of their moves does to it: packets pushed are selected and
come last (`WayPush`), the send thread takes the head of the package queue to the end of
a stream and changes nothing (`WaySend`), receiving takes the head away (`WayReceive`),
or some of the first items if packets are lost (`WayLoses`), and a handler that tells a set of users adds one item for each of them, and nothing for
anybody else (`TellWay`). `WaySend` is where the order of the queue that all handlers
share matters. With them each handler is one `Enter`, `Exit`, `Leave` or `Say`, or a
stutter, and each handler of the client a `Look` (`Taken`), a `Glance` if its receive
lost packets (`Skipped`), or a stutter. Two facts are needed beside the invariant of users and
rooms (`Screens`): only the room's page lists members, so that the first entrance, which
makes the client forget what it showed, forgets nothing; and a client whose user the
server has let go after `/quit` still has the room's page and is owed nothing.

`ViewsAlwaysAgree` is proved in the terms of `RoomTalk` (`TalkInv`) and carried
over, for receives of one packet, with which `RoomTalk` has no `Glance`: what one more
item does to `Seen`, then one lemma per abstract step. A user that
enters is told so together with all members, hence will see itself and be seen by all;
one that leaves takes itself out of every view. That two members see one another at
least in one direction is inductive because entering tells both sets.

`DisplaysAlwaysFit` says of every packet on the way to a client that it suits the page
the client will be on when it arrives, given those before it (`Suits`, `Ordered`): in the
lobby, an entrance comes before anything of the room; in a room, nothing of it comes
after the user's own exit; a room list comes to who is in the lobby by then. Pushing adds
to the end and must suit what is there, for which the invariant of users and rooms says
what the server may still be asked (`Orderly` adds that nothing on the way to the server
is a whisper); receiving takes the first and moves to the page it opens.

**Receiving** (`RecvPipelineProofs`). That a session is in one place does not
suffice for order. `IInv` puts its packets in line: handled, then queued in rising
order, then the buffer, then what arrived, then what was sent (`PacketsInLine`,
`QueueInLine`); the packet in the buffer is not queued while its completion waits
or a worker carries it (`BufferIsNew`), and a worker carries what the buffer holds
(`WorkerHasBuffer`). From it every step that changes `handled` takes a number above
the last and not above `sent`, which is a step of `OrderedInbox` (`InboxStep`).

**Users** (`UserLifetimeProofs`). Threads hold users that were created, one about
to delete has taken its user out of the list, and the user that the accepter has
yet to insert is known to no thread that removes (`NewUserIsUnknown`): this is why
no deleted user gets back into the list, although the first receive is posted
before the insert.

**Shutdown** (`ServerShutdownProofs`). A count: the completions posted are at most
those in the port plus the workers that are awake, for a worker that wakes after
the flag is down never waits again. When all are posted there are as many as
workers, hence one in the port for each that waits.

**The client** (`ChatClientProofs`). No lock protects the display, so the argument is
about order. A handler goes through a fixed sequence of stages, each with its state,
display and page shown (`Stages`); their end says which page the client is on its way
to (`Here`). What is under way to the server (`Requests`) and to the logic thread
(`News`) suits that page: one request and its answer before the login
(`LoginStream`), then lists, with the user's own entrance before any news of the room
(`LobbyStream`), then news with its own exit last (`RoomStream`). This holds because
the user that asked for a page types nothing before it comes, so that the answer finds
the streams empty of everything else. From it: while a page is replaced, the page
thread can only be where it looks at the state again before it uses a display
(`Whereabouts`, `Hands`). That the cursor finds an id takes no more than that lists
only grow and `SetRoomList` assigns the ids before the names (`Lists`).

**Version 1.0** (`ChatServerV1Proofs`). Client and server are never in step, but every
packet says what the server will think once it has read it: `RoomAfter` is the room
the server has the user in, were it to read what is under way, and agrees with the
room the client picked (`Agree`). It needs that one packet of a client is under way at
a time to be read (`Flight`). The packet thread looks a sender's room up late, with any
number of its packets still queued. That it finds the room a packet is about, or has been
overtaken, is an invariant of the queue: leaving a room keeps it as the previous one,
where the lookup falls back to it, and what moves the user on (an entrance, a new user)
queues a packet of its own behind the others. That main and `SendThread` never share the
console is about where the three threads can be at once (`Shape`).

**Slots** (`ClientPoolProofs`). No lock protects a slot, so the argument is about who may
touch it. A connection has one token (`Tokens`): its receive while that waits, then the
completion, then the worker that handles it (`Handling`), who posts the next receive or
closes the socket and returns the slot. The socket of a connected slot has exactly one
token, in or out of a thread's hands (`SlotOK`, `WorkerOK`), and one that is no slot's
has none (`SocketOK`): so no completion comes for a slot that was returned and given to
somebody else. No slot is lost on the way (`Accounted`), and the clients counted or
about to be never outnumber the slots (`CountFits`), which is why the queue has a front
when the accepter comes to it, or is about to grow. The tokens are about executions
without trouble; types, count and queue are about every execution, for which the slots
the accepter could not connect are counted too (`refused`).

**Bytes** (`WireFormatProofs`). Writing and reading are recursive functions over the
fields of a packet, and the library's theorems about recursion and induction cannot be
used with these provers, for they take an operator as a parameter. What is needed of
them is proved here for the functions at hand: a set of numbers that is not empty has a
least one, which the theorems on finite sets give, hence induction on sets of numbers,
hence that `Extent`, `Written` and `ReadFields` satisfy their recursive equations. Then
field by field: the value of an integer's bytes is the integer, the search for a string's
end stops at its zero and not before, because no byte of it is zero and it is not empty.
The stream of a packet that fits is the fields' bytes one behind the other
(what is written first stays), so a reader that is at the start of a field reads that
field and is then at the start of the next. The number of rooms comes first in its
packet and is read before the widths that depend on it.

`ChatSystemProofs` is the long one: it takes tlapm about a quarter of an hour from
nothing.

Model-checked only: liveness, which is beyond these provers (`QuitCloses`, `RequestsAnswered`,
`ReceivedIsHandled`, `LostUsersLeave`, `QuitStopsServer`, `AnswersShown`,
`FailedSendEnds`, `ClosedClientEnds`).

## 7. Where code and intentions part

**A user is released twice** (run `user_released_twice`). The refactoring notes
(`src/Documentation/v1.1`, first part) observe that users are released twice even
after the change meant to prevent it. `RemoveUser` closes the socket before it
erases the user: the outstanding receive fails, a worker finds the user still
listed and removes it as well. The counterexample has one client, the logic thread
in `C_SERVER_EXIT`, and one worker. `ListedIsAllocated` holds all the same.

Other things seen while modelling, which the formulas or the modules' headers
exclude:

* v1.1: a removal by a worker may fall into a handler. A user that is let into a room
  after the worker read that it is in the lobby stays in the room deleted; an exit told
  between the lines of the user's own entrance leaves it on the others' screens, and one
  told between the lines of another's entrance reaches a display of the lobby.
* v1.1: `BindRecv`'s failure, and a failed receive before the insert, leave a user in
  the list for ever.
* v1.1: the check in `User::EnterRoom` is empty. A user that picks two rooms before
  the first answer is in both and leaves one; `/lobby` typed twice makes
  `C_ROOM_EXIT` use a null room.
* v1.1: the notes expect no send to be left for a user after `C_SERVER_EXIT`;
  packages queued before it are, and the send thread uses the deleted session.
* v1.1: `jobQueue_` is used by workers and the logic thread at once, the lock being
  compiled in only for several logic threads.
* v1.1: several packets in one receive are decoded as one. A lost `S_ROOM_ENTER`
  leaves a client in the lobby that the server has in a room.
* v1.1: a whisper finds users in the lobby, whose client casts its display wrongly.
* v1.1: a room list that did not fit (60 rooms) is cut off, and its reader goes on
  behind the bytes it received; `checkReadBound` is never called. A packet that TCP
  splits over two receives is cut off in the same way, and its rest taken for a packet.
* v1.1 client: the first character of the first line typed in a room goes to the
  lobby's `_getch`; if that line is an Enter, the deleted lobby display is used.
* v1.1 client: after `/quit` the receiving thread waits for the sending thread for
  ever; after a failed send it joins itself and the program aborts.
* v1.0: DestroyThreads posts nothing to wake the workers; the server hangs on quit when
  a worker waits in an empty port. `QuitStopsServer` says that this is the only place.
* v1.0 client: when `Lobby`, run by `SendThread` after `/lobby`, cannot send, `SendThread`
  ends with `mRoom` at 0; `RecvThread` stays in its inner loop, which looks at `mRoom`
  only, and main waits for it for ever. `ClosedClientEnds` excepts this state
  (`Stranded`) and no other.
* v1.0: a failed send, or the close that answers SERVER_EXIT, closes a slot beside the
  failed receive, and slots are given out twice; a call that fails at once loses its
  slot. `SlotsExact`, `OneReceive` and `AllReturned` are false then.
* v1.0: MultiCast looks the sender's room up when the packet is sent. Who leaves a
  room and enters another before that is announced in the wrong one.
* v1.0: FindNickname returns -1 in the committed code, a line for stress tests.
  Nicknames are never refused, and every whisper is answered "not found".

## 8. Not modelled

* `StressServer`: a load generator, commented out in v1.1 from the first line to the
  last; v1.0's opens connections and sends, and keeps nothing the server relies on.
* Drawing and colours of the clients' displays, and logging. The v1.1 lobby's cursor is
  modelled, because it picks an id; of v1.0's `Position.h` only the choice is: any room
  may be picked.
* `ConnectServer` of the clients: it fails before a thread runs.
* `SendRoomListToAll` and the lobby's user list, which nothing calls or sends.
* The content of chat: who gets it is modelled, what it says is not.
* Packets split over two receives (`recv` returns at most 1024 bytes, and TCP may split
  anywhere), and a packet the server cannot decode.
* The reallocation of `mClientInfos` (v1.0, `ClientManager.h` 27 and 33), which workers
  and the packet thread index without a lock meanwhile: the slots are a function here.
* v1.1 sends that fail are in `UserLifetime`; in `ChatServer` a failed send is one more
  failed completion. `S_LOBBY_USER_INFO`, which nothing sends.
* Two threads inside one container of the standard library at the same moment, and
  reading a deleted object: they have no outcome to state. The models show where it
  happens (`raced`, `fault`) and stop there, but for the maps and sets all users share
  (`userList_`, `userInLobby_`), whose accesses are steps.

## 9. Plan

Done, in the order of importance: the server and its rooms (`ChatServer`), the system
with clients (`ChatSystem`), the abstract chat it implements (`RoomTalk`) and the lines
of its handlers against removals (`RoomSteps`), receiving with its refinement, users'
lifetime, start and shutdown of both releases, the wire format, the client's threads,
v1.0 slots, chat and client threads. Proved: the invariants of `ChatServer`,
`ChatSystem`, `RecvPipeline`, `UserLifetime`, `ServerShutdown`, `ChatClient`,
`ClientPool`, `ChatServerV1` and `WireFormat`, and the two refinements of `ChatSystem`
and `RecvPipeline`, the former also where receives lose packets: every safety property
that holds in a run, but for those of `RoomSteps`.

To come:

1. Proofs. The properties of `RoomSteps` for any number of users, rooms and workers;
   what members see of one another when receives lose packets.
2. Models. `RoomSteps` with users that do not wait, to tell what their impatience adds
   to the harm of overlaps; packets split over two receives; v1.0 clients that act
   before their login has been read.

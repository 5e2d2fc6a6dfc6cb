# A TLA+ development of MDChatServer-Select

MDChatServer-Select is a chat server for Windows: clients connect, log in, enter
one of a few lobbies, chat there, create rooms or enter them, and chat in them.
One *logic thread* does everything. It alternates between the network layer
(`TCPNetWork::Run`: one `select`, then accept, receive and send), the packet
processor (until `GetPacketInfo` returns an ID of 0, which it does for an empty
queue) and a periodic check of the sessions. The main thread starts it, waits
for a key, clears `m_IsRun` and joins.

The modules below model that program from its source. `PROJECT.json` maps each
definition to the lines it stands for.

## 1. Inventory

| Component | State | Operations | What makes it correct |
|---|---|---|---|
| `TCPNetWork` (network layer) | `clientSessionPool`, deque of free indices, `ReadFds`, `connectedSessionCount`, `connectSeq`, `packetQue` | `Run` (select, `NewSession`, poll each session: receive, frame, flush), `SendData`, `GetPacketInfo`, `ForcedClose` | an index is used by one connection at a time and never lost; the watched sockets are those of the open sessions; the logic sees whole connections although indices and handles are reused before it knows; no packet outlives the buffer it points into |
| Framing (`RecvSocket`, `RecvBufferProcess`) | receive buffer, `RemainingDataSize`, `PrevReadPosInRecvBuffer` | recv, cut into packets, keep the rest, clear | the packets queued are those sent on this connection, wherever recv cuts the stream; the rest leaves room for a recv, unless a body is announced that is too large for the buffer; a queued packet is still in the buffer when it is handled |
| Sending (`SendData`, `FlushSendBuff`) | send buffer, `SendSize` | append a message or drop it, send a part, clear | the client gets whole messages in order; the answers to its own echo requests are lost only behind bytes it did not read (or after an ID 0, section 4) |
| `LogicMain`, `main` | `m_IsRun` | `Run`, `Stop`, join | stopping ends the thread; a closed session is retired |
| `UserManager`, `User` | pool of users, deque of free ones, dictionaries by session and by ID | `AddUser`, `RemoveUser`, `GetUser` | a user object belongs to one session, is clean when given out, and IDs are unique |
| `LobbyManager`, `Lobby` | slots, dictionary by user index, rooms | enter, leave, find a room, notify, lists | dictionary, slots and users agree; capacity; pages and notifications together show a client the lobby |
| `Room` | `m_IsUsed`, members | create, enter, leave, notify | used exactly while somebody is in it; capacity |
| `PacketProcessor` | none of its own | a handler for each packet, CONNECT, CLOSE | after every handler, users, lobbies and rooms agree; those concerned are told |
| `ConnectedUserManager` | connect time and login per session, sweep index | connect, login, disconnect, `LoginCheck` | the sweep reaches everyone and closes whom it means |
| `Game` | none | none | a stub: never created |
| Configuration, logging, socket options, project files | none | | outside the models (section 8) |

The components interact by calls on the logic thread. The network layer talks
to the packet processor through `packetQue` only, in which the packets received
from clients and two system packets (CONNECT, CLOSE) are mixed; the packet
processor answers through `SendData`, by session index, and closes through
`ForcedClose`, by session index. These two index-based calls, against a pool
that may already have closed or reused the index, are where most of the
difficulty lies: the pool and the logic *disagree* about a session while events
about it are queued.

What is hard here: the order of events around reuse of session indices and of
socket handles; snapshots of the socket set taken before accept; pointers into
receive buffers; a stream cut anywhere; fields of a `User` that outlive what
they describe; two kinds of index in one parameter; keys that are addresses; the
limits of pools and rooms; the race on `m_IsRun`. `PROJECT.json` lists these as
hazards, each at its line, with the properties that guard it.

## 2. Modules

| Module | What it is |
|---|---|
| `TCPNetWork` | network layer and logic thread, in the steps of the code: one accepted connection, one polled session, one handled packet, one checked session per step |
| `SessionEvents` | abstract: what the network layer promises to the packet processor |
| `TCPNetWork_proofs` | theorems about `TCPNetWork` |
| `PoolDeque` | lemmas about the deque of free indices that both pools keep |
| `RecvBuffer` | receive buffer and framing, byte by byte, over several connections of an index |
| `RecvBuffer_proofs` | theorems about `RecvBuffer` |
| `SendBuffer` | send buffer, byte by byte |
| `Echo` | composition: one session from the bytes received to the bytes sent, with `DevEcho` as the handler |
| `Echo_proofs` | theorems about `SendBuffer` and `Echo` |
| `UserManager` | user pool and dictionaries |
| `UserDirectory` | abstract: the directory of users that `UserManager` promises |
| `Room`, `Lobby` | rooms as values; the tables of the lobbies, and the messages they send |
| `PacketProcessor` | all handlers over `UserManager`, `Lobby` and `Room` |
| `PacketProcessor_proofs` | theorems about `UserManager`, and about `PacketProcessor` with `Lobby` and `Room` |
| `Presence` | abstract: where each session is, and the capacities |
| `ChatServer` | composition: the network layer of `TCPNetWork` with the handlers of `PacketProcessor` |
| `ChatServer_proofs` | theorems about `ChatServer` |
| `LobbyLists` | the pages of the room and user lists, and a client that reads them while the lobby changes |
| `LobbyLists_proofs` | theorems about `LobbyLists` |
| `LoginCheck` | connected users and the sweep |
| `LoginCheck_proofs` | theorems about `LoginCheck` |

`PacketProcessor` extends `Lobby`, which extends `UserManager` and `Room`;
`ChatServer` and `LobbyLists` extend `PacketProcessor`, and `ChatServer`
instantiates `TCPNetWork`. `Echo` extends `RecvBuffer` and `SendBuffer`. The
abstract modules are instantiated by the modules that implement them
(`ImplementsSessionEvents`, `ImplementsUserDirectory`, `ImplementsPresence`).
`PacketProcessor` takes from `SessionEvents` that the packets of a session come
between its CONNECT and its CLOSE.

Some modules define, next to an operator, a variant in which the code has a
plausible bug: `NotPopped` beside `Popped`, `AnyQueue` beside `QueueEmpty`. The
comment calls it the fault. No specification uses one. Substituted for its
neighbour it makes TLC find a property violated, which shows what the property
would catch; the `mutants` of `PROJECT.json` list them.

### How state and actions correspond to the code

* **`TCPNetWork`.** The fields of `ClientSession` are functions of the session
  index (`SocketFD`, `SessionSeq`, `SendBuffer`); `clientSessionPoolIndex` and
  `packetQue` are the deques. `pc`, `cursor` and `tryCount` say where the logic
  thread is. `polled` is both snapshots that `select` fills: the sockets that
  were registered, any of which may or may not be reported ready. `announced` is
  what the logic knows (an index with its connection, 0 for none). `latest`,
  `prior` and the `seq` of a queued packet are history. A handler is abstracted
  to what the network layer sees of it: it writes to the sessions that the logic
  knows. A client's packet has the ID that the client gave it: `DATA` stands for
  all that reach a handler or are ignored for want of one, and `ZERO` for 0.
  `DrainDone` and `DrainCut` are the two ways in which the inner loop of
  `LogicMain::Run` sees an ID of 0, from an empty queue and from such a packet;
  `drained` is the history of which it was: whether every drain so far emptied
  the queue, the last one did, or the last one left packets. Handles come back
  from `accept` as soon as they are closed. A message is the number of the
  connection it is meant for.
* **`RecvBuffer`.** A byte names its packet, its place and the body size in the
  header of its packet. `sizes` and `packetQue` are histories: what was sent and
  what was queued on this connection. A recv that does not fit behind the rest
  is `RecvOverrun`: the server writes behind its buffer, what follows is
  undefined, and the model stays there (`Overrun`). Closing resets the sizes and
  leaves the bytes, as `ClientSession::Clear` does.
* **`SendBuffer`.** A message is a header and a body, each a sequence of bytes;
  `accepted` and `received` are histories that begin anew when the session is
  cleared.
* **`Echo`.** `turn` says whether the loop of the logic thread reads from the
  session, writes to it or drains the queue. A queued packet is what
  `AddPacketQue` makes of it: an offset into the receive buffer and a size. The
  answer is built from what the buffer holds when the handler runs. The ID of a
  packet is chosen when it is queued, since nothing looks at it earlier; one of
  0 at the front of the queue ends the drain (`NoPacketId`), and `cutShort` says
  whether the last drain left packets so. What the handler then finds in place
  of their bodies is any body (`Found`). Packets that were queued before a close
  are still answered, into the cleared send buffer.
* **`UserManager`.** A pointer to a user is its index. A key of `m_UserIDDic`
  is an address: the session whose receive buffer it lies in and the offset.
* **`Lobby`, `Room`.** A room is a record and an operation maps it to a record.
  Where an operation can fail, an operator gives its error code, in the order of
  the tests in the code.
* **`PacketProcessor`.** One action per handler, one for every refusal
  (`Refuse`). `sent` is the set of messages of the last handler, each built from
  the state at the moment of its call, so that a notification before a change
  and one after it differ. `StateView` leaves the history out of the
  fingerprint.
* **`ChatServer`.** Every step is a step of `TCPNetWork`. Where that module has
  an abstract handler, the step is the handler of `PacketProcessor` as well, and
  what it puts in `sent` goes to the send buffers. `loginSeq` is history: the
  connection on which the user of a session logged in. `StateCheck` may close a
  session only if the handlers have recorded a login (which is what the code
  tests, see section 4). Stop is left to `TCPNetWork`.
* **`LobbyLists`.** The client `Me` asks for the list from the start when it
  comes into sight in a lobby, then from the number it received last plus one
  (`Common/Packet.h:71`) until `IsEnd`, and applies the notifications. A user is
  known to it by the index of the user object, in place of the ID.
* **`LoginCheck`.** Time is the number of seconds since a session connected, up
  to the limit. Calls that come less than 60 ms after the last one do nothing
  and are stuttering steps.

## 3. Runs

| Run | Question | Result |
|---|---|---|
| `network` | are pool, sockets, queue and logic consistent; is `SessionEvents` implemented; does every close arrive; does Stop end the thread | holds |
| `network_own` | is a client sent only what was meant for it | **violated** |
| `users_duplicate` | is an ID in use refused | **violated** |
| `users_stale` | is only an ID in use refused as a duplicate | **violated** |
| `server` | with the real handlers: does nobody act as an earlier client's user, do users of cut connections always leave, do the handlers keep to what the network layer expects | holds |
| `handlers` | do user pool, dictionaries, lobbies and rooms agree, is `UserDirectory` implemented, and is everybody told | holds |
| `lists` | does a client that reads a list page by page show what is there; do sessions move along the protocol within the capacities | holds |
| `lobby_close` | is the lobby told of a cut connection | **violated** |
| `lobby_chat` | does a chat message skip its sender | **violated** |
| `logincheck` | does the sweep reach everyone but the skipped indices | holds |
| `logincheck_who` | are logged-in clients left alone | **violated** |
| `framing` | are the packets framed those that were sent, which announced bodies leave the buffer, are the packets still there when handled, the answers whole, and when is one lost | holds |

### Bounds

* `network`: two indices (the smallest pool in which one session closes while
  another is served), three handles (a new connection can take a fresh or a
  reused one), three connections in all, so that an index is used twice and a
  third time queued behind; two packets per recv, each with any ID (so an ID 0
  comes in front of a packet and behind one), two messages per send buffer (a
  full buffer and a dropped message occur), one message per handler and session,
  two accepts per Run. `MaxSeq` and `MaxQueue` are the bounds that the code does
  not have; the others have smaller values than in the code. `MaxQueue` is asked
  only of what a recv adds: connects and closes are queued without limit, and
  packets left by a cut drain stand in front of those of the next Run.
  `IsLoginCheck` is TRUE, which includes FALSE: the check may always skip.
* `server`: two indices and users, two handles (a new connection gets a reused
  one soon), three connections, one ID at two offsets, a lobby of two with one
  room; one accept and one packet per Run and session, received while at most
  one is queued. `ServerView` leaves out histories, the last answers and the
  contents of the send buffers, on which nothing that the run checks depends.
  Packets of both sessions stand behind each other in the queue, and the index
  is reused while its CLOSE is queued. Handles are symmetric: they are only
  compared.
* `users_duplicate`, `users_stale`: three sessions and two user objects, two IDs
  and two offsets, the fewest with which IDs and addresses can disagree.
* `handlers`: two sessions, two lobbies of two seats with one room of two each,
  two IDs at two offsets. The pool of users is as large as that of the sessions;
  a second login on a session uses it up, so `USER_MGR_MAX_USER_COUNT` occurs.
  Requests name indices from -1 to one past the end.
* `lists`: four sessions for three seats, three rooms of two, pages of one
  entry: a list takes several requests, gaps and refilled slots occur, and the
  lobby and a room fill up. Sessions arrive in the order of their indices, each
  once, and only those of `RoomGoers` enter rooms (`Me` does not); the handlers
  that change no lobby are left out.
* `logincheck`: four sessions and sweeps of two, so that a sweep ends inside the
  list and at its end and one index is skipped; two seconds of patience.
* `framing`: a header of two bytes, bodies of 1 to 4 bytes of which 3 and 4 are
  too large, recvs of up to 4 bytes, a receive buffer of 8: a body of 3 is
  refused when it has arrived, one of 4 makes recv leave the buffer, as bodies
  of 1025 to 6141 and from 6142 on do in the code. Three packets on each
  connection, three sent and not handled, any number of connections: a recv may
  end in a header, in a body, between packets or hold several packets, and send
  may take any part. The send buffer of 9 bytes is the smallest that holds the
  answers to all that one recv can complete; with 8, `LostOnlyBehind` fails. In
  the code one recv completes at most 3075 bytes of requests of at least 6 bytes
  each and the answers are 2 bytes longer: no more than 4100 bytes, where the
  configuration has 8192.

### Fairness

* `TCPNetWork!FairSpec` assumes weak fairness of the logic thread as a whole:
  the operating system runs it, `select` returns after a millisecond at the
  latest, and no other call blocks (the sockets do not block on accept; recv and
  send are called on sockets that select reported). Nothing is assumed of the
  clients or of Stop.
* `LoginCheck!FairSpec` assumes that closed sessions are disconnected and that
  the sweep runs again and again: the loop of `LogicMain::Run` handles the whole
  queue and then calls `StateCheck`, so both follow from the fairness of the
  thread. That a client stays, logs in or leaves is not assumed.

## 4. What the violated properties show

1. `DuplicateIdRefused`: a second login with an ID in use is accepted, because
   `m_UserIDDic` compares addresses (`UserManager.cpp:51`).
2. `OnlyDuplicateRefused`: the key of a user who has left is never erased
   (`UserManager.cpp:68`), so a later client on that session can be refused as a
   duplicate.
3. `ChatSkipsSender`: a lobby chat compares a session index with user indices
   (`Lobby.cpp:296`; `Room.cpp:138` does the same).
4. `LobbyToldOfClose`: a user who has been in a room disappears from the lobby
   without a notice when its connection is cut (`PacketProcssor.cpp:98,114`).
5. `LoggedInStays`: the login check closes the clients that *have* logged in
   (`ConnectedUserManager.h:98`).
6. `OnlyOwnMessages`: a message written to a session that is already closed
   goes to the next connection of the index (`TCPNetWork.cpp:51`).
   `SendBufferOwner`, which holds, says how far this can go: never further than
   one connection.

Seen while modelling, without a run of their own: the sweep skips the indices
100, 201, ... (`ConnectedUserManager.h:86`; `NeverSwept` in `LoginCheck` states
which, and `OverdueIsClosed` that it is only these); a second login on a session
costs a user object for good (`UserManager.cpp:50`; `UserPoolPartition` counts
it as in use); list requests for the last entry are dropped without an answer
(`Lobby.cpp:156,197`), so a client whose page ends at the last entry but one
asks once more and never gets `IsEnd` (`RoomsSeen` and `UsersSeen` are about the
part it was sent); a client may go on showing a user who was cut off after
having been in a room (4.); answers to the last packets of a closed connection
go to the next one of the index (6.), whole (`StreamWhole`); a user refused for
`USER_MGR_MAX_USER_COUNT` is told so but not cut off as `Define.h:11` has it; a
closing user who left the lobby before causes another leave notice, because
`m_LobbyIndex` still names it (`PacketProcssor.cpp:92`).

Two more concern what a client may put in a header.

* `BodySize` is compared with `MAX_PACKET_BODY_SIZE` only when all of the body
  has arrived (`TCPNetWork.cpp:523,530`). While a body of 6142 bytes or more is
  awaited, the rest in the buffer and the next recv do not fit in 8192 bytes,
  and recv writes behind them (`TCPNetWork.cpp:480`). `BufferFits` says that
  exactly these announcements do it: the model has the overrun, and no cut of
  the stream, no earlier packet and no earlier connection leads to it otherwise.
  In the configuration of the run this is the body of 4.
* An ID of 0 in a client's packet ends the drain (`LogicMain.cpp:80`), and what
  is queued behind it is handled in the next Run, after another recv has moved
  and overwritten the bytes that its `pData` points at. `NoDanglingData`,
  `CheckSeesCurrent`, `ConnectIsLast` and `DataHeld` fail then, until the queue
  has been emptied again, and so they are stated for a queue that has been
  emptied since (`drained`, `cutShort`). `SendBufferOwner` may fail from then
  on: two generations of an index can be queued at once, and its messages stay
  in the send buffers. `LostOnlyBehind` fails because the packets of two recvs
  may be answered in one drain. The order of events does not depend on it:
  `EventsBracketed`, the implementation of `SessionEvents` and `ClosedIsRetired`
  hold whatever the IDs.

## 5. What is proved

`TCPNetWork_proofs` proves, for every size of the pool and the buffers, any
handles and every `MaxSeq`, from `SizesAssumption` and `SocketsAssumption`:

| Theorem | Property |
|---|---|
| `TypeCorrect` | `TypeOK` |
| `PoolPartitionCorrect`, `CountMatchesCorrect`, `ReadFdsMatchCorrect` | the pool's fields agree |
| `EventsBracketedCorrect` | the queue leads from what the logic knows to what the pool holds |
| `NoDanglingDataCorrect` | no client packet is left when a Run starts, unless an ID 0 cut the drain |
| `CheckSeesCurrentCorrect` | StateCheck closes the connection it means, on the same condition |
| `Refinement` | `SessionEvents` is implemented |

The inductive invariant is `Inv == TypeOK /\ PoolMatches /\ QueueInv`.
`PoolMatches` is the agreement of the pool's fields. `QueueInv` is
`EventsBracketed` with `ConnectsAscend` (queued connections are later than all
announced ones and ascend) and `OnlyCloses` (between the end of a drain that was
not cut and the next select only CLOSE packets of sessions that are now closed
are queued). `EventsBracketed` is stated with neighbours in the queue, so
appending and removing an event each touch one neighbourhood; the lemmas
`BracketedExtend` and `BracketedTail` do that once for all actions. The deque of
free indices is handled the same way by `TailHolds` and `AppendHolds` of
`PoolDeque`.

It also proves, about the reuse of indices and handles:

| Theorem | Property |
|---|---|
| `PolledIsOldCorrect` | a session accepted after select is not touched in that Run |
| `ConnectIsLastCorrect` | two connections of an index never overlap in a drain, unless the one before was cut |
| `SendBufferOwnerCorrect` | a message goes at most one connection astray, while no drain has been cut |

None of the three is inductive; `Reuse` is, given `Inv`, as long as every drain
empties the queue. A drain that is cut ends it, the next one that is not
restores it: `Kept` says `Reuse` with the condition, and `Polls` the part of it
that needs none. While connections are accepted, the sockets that select
reported are all open (`PolledWatched`), so a new handle is none of them and
`PolledIsOld` holds for the new CONNECT. A session that is polled therefore has
no CONNECT in the queue, which keeps CONNECTs last and means that the logic
knows a session that closes (`Announcing`): it is then one connection behind,
never two (`KnownIsRecent`). That the logic does not take an old CLOSE for that
of the open connection needs `ClosedForGood` and, for it, that numbers are not
given twice (`Numbered`, `SeqsGiven`).

`RecvBuffer_proofs` proves, for every header and body size, every buffer and any
number of packets, from `BufferAssumption` and `FitsAssumption`:

| Theorem | Property |
|---|---|
| `TypeCorrect` | `TypeOK` |
| `BufferFitsCorrect` | recv leaves the buffer only for an announced body that is too large for it |
| `NothingHeldBackCorrect` | a complete packet is queued at once |
| `FramesExactCorrect` | the packets queued are those sent |
| `StreamKeptCorrect` | no byte is lost or doubled between two recvs |

`FramesExact` says nothing of bytes that are still waiting, so it is not
inductive. `Uncut` adds that what is not yet queued, the rest in the buffer
followed by the wire, is a row of whole packets of which the first is the next
to be queued. `Packets` says so without recursion: at every position where a
packet begins, all of it is there and the next one begins behind it. Sending
puts a packet behind the row (`PacketSent`), queueing takes the first one off
(`FirstPacket`), and recv and the move to the front leave it as it is.
`IncompleteRest` says that what waits for a recv is less than a packet;
`NothingHeldBack` follows from it. So does `BufferFits`, by a step of its own:
when a recv overruns the buffer, the rest is the beginning of the next packet to
be queued (`RestOfNext`), so it is that packet whose announced body is too
large. Nothing is assumed of the sizes that clients announce: `FitsAssumption`
is about the configuration, in which the rest of the largest packet that is
allowed and the largest recv fit in the buffer. A closed session has nothing
unqueued and sizes of zero (`Positions`), from which the next connection starts
whatever the buffer holds.

`StreamKept` compares the state with a value computed by recursion, `FlattenSeq`
of all packets sent. It speaks of the moments between two recvs only; `NoneLost`
says the same of the loop too, with what is not yet queued in place of the rest
and the wire, and is inductive together with the other parts of `Inv`. The proof
needs one fact about `FlattenSeq`, that a sequence put behind the others puts
its bytes behind theirs (`FlattenAppend`): sending does that to the packets sent
and the wire, queueing moves the first packet from what is not queued to the
queue. `FlattenSeq` is the last value of a recursive function, so the fact
itself needs that there is such a function (`FlatExists`) and that its first
values depend on the first sequences only (`FlatAgree`). Both are inductions
over an index. They are done by a least counterexample, which a nonempty set of
numbers has (`LeastNat`, from the well-foundedness of `<`): this takes no
operator as a parameter, as the induction theorems of the library do.

`Echo_proofs` proves, for every size of the buffers and packets, first of
`SendBuffer` with any set of messages, from `SendAssumption`:
`StreamWholeCorrect` (`StreamWhole`: what was received, followed by what waits,
is what was accepted) and `SendTypeCorrect` (send reads nothing that was not
written), which are inductive together; and then of `Echo`, from the assumptions
of both buffers, `BaseAssumption` and `AnswersFit`:

| Theorem | Property |
|---|---|
| `RecvBufferKept` | every step of `Echo` is one of `RecvBuffer` or leaves it alone |
| `EchoFramesCorrect` | `FramesExact`, `NothingHeldBack`, `BufferFits` |
| `EchoStreamKept` | `StreamKept` |
| `EchoStreamWhole` | `StreamWhole`, for the answers of `DevEcho` |
| `DataHeldCorrect` | `DataHeld` |
| `LostOnlyBehindCorrect` | `LostOnlyBehind` |

The inductive invariant is `EchoInv`: the invariant of `RecvBuffer`, `Phases`
(types, and what the turns allow whatever is queued) and, unless the last drain
was cut, `Fresh`. `DataHeld` holds because the loop takes turns, which `Turns`
says: recv comes to an empty queue only, the index is given away with an empty
queue only, and while packets are queued they are those in front of `readPos`.
`Stored` says that they lie in the buffer one behind the other, the oldest
first; appending and taking one keep that (`RowAppend`, `RowTail`), and a drain
that empties the queue restores all of `Fresh` (`NoPacketIdInv`).
`LostOnlyBehind` needs a bound on what one drain answers. The packets of a drain
fit in `HeaderSize + MaxBodySize - 1 + 2 * MaxBodySize` bytes: an incomplete
packet that is queued later is not too large, and a recv adds two bodies.
`Space` counts: what waits in the send buffer is no more than the packets
answered in this drain and as many error codes as packets of the smallest size
fit in there. `AnswersFit` asks for a send buffer that holds that much; TLC
evaluates it for the run, and the numbers of the configuration satisfy it with
room to spare (section 3, under the bounds).

`LoginCheck_proofs` proves, for every number of sessions, size of a sweep and
limit, from `LoginCheckAssumption`: `TypeCorrect` (`TypeOK`: the index of the
sweep stays within the list) and `LoginFreshCorrect` (`LoginFresh`).

`PacketProcessor_proofs` proves first of `UserManager` by itself, for every
number of sessions and users and any IDs, from `UserManagerAssumption`:

| Theorem | Property |
|---|---|
| `UserTypeCorrect` | `UserTypeOK` (part of `TypeOK` in the run `handlers`) |
| `UserPoolPartitionCorrect` | free user objects are cleared and in the deque once |
| `SessionDicSoundCorrect` | a session leads to its own user object |
| `UserManagerRefined` | `UserDirectory` is implemented |

These hold for the user manager under any calls; `UsersStaySound` and
`DirectoryRefined` below are the same for the calls that the handlers make,
where lobby and room indices of a user change too. The three invariants are
inductive together: releasing an object keeps the deque free of repetitions
because the object was in use (`SessionDicSound`), and keeps other sessions'
entries sound because an object knows its session. The refinement needs
`NamedUsers` as well: an object in use carries an ID.

It then proves of the handlers, for every number of sessions, users, lobbies,
slots and rooms, from the assumptions of `UserManager`, `Lobby` and `Room`:

| Theorem | Property |
|---|---|
| `TypeCorrect` | `TypeOK` |
| `LoginAgreesCorrect` | `LoginAgrees` |
| `MembershipAgreesCorrect`, `RoomsAgreeCorrect` | users, dictionaries, slots and rooms agree |
| `UsersStaySound` | `UserPoolPartition` and `SessionDicSound` under the handlers |
| `NoInconsistencyReportedCorrect` | no handler meets a contradiction between the tables |
| `DirectoryRefined` | `UserDirectory` is implemented by the handlers |
| `PresenceRefined` | `Presence` is implemented |
| `LobbyIsToldCorrect`, `RoomIsToldCorrect` | everybody concerned is told |

The inductive invariant is `StateInv`: the invariant of the user manager, the
types, `LoginAgrees`, `Placed`, and the agreement of dictionaries (`DicAgrees`),
slots (`SlotsAgree`) and rooms (`RoomLists`) with what the users say.
`MembershipAgrees` and `RoomsAgree` are not inductive. A second login of a
session takes another user object, to which no session leads, because `insert`
leaves the entry of the first. Were such an object a member of a lobby, nothing
would take it out when its session closes. `Placed` says that it never is: a
user in a lobby or a room is the one its session leads to, because the handlers
find the user they move by its session, and the entry stays until the close.
`RoomLists` holds the list of each room as a set without repetition of at most
`MaxRoomUserCount` users, `SlotsAgree` the slots as a one-to-one table; what
`EnterUser`, `LeaveUser`, `EnteredRoom` and `LeftRoom` do to these are lemmas.

`PresenceRefined` needs counting. `LobbyEnter` tests the size of a dictionary
of user objects and `RoomEnter` the length of a list, where `Presence` counts
sessions; `SessionsCounted` maps the sessions at a place one to one to the user
objects there. `NoInconsistencyReported` holds because every error of that kind
contradicts a conjunct of `StateInv`; that a lobby that is not full has an empty
slot is again a matter of counting (`SlotsHold` and the pigeonhole). The two
theorems about notices compare, for each handler, the sets of those in sight
before and after it with the receivers that `ToLobby` and `ToRoom` compute from
the tables at the moment of the call.

`ChatServer_proofs` proves, for every size of both halves, from their
assumptions and `NetworkAssumption` (which asks `Burst >= 2`: a handler sends a
session up to two messages):

| Theorem | Property |
|---|---|
| `NetworkRefined` | `ImplementsNetwork`: the whole server implements `TCPNetWork` |
| `OwnUserCorrect` | `OwnUser` |
| `GhostsLeaveCorrect` | `GhostsLeave` |
| `HandlersReadyCorrect` | `HandlersReady`: no packet is taken in a state its handler is not made for |
| `TablesAgree` | `LoginAgrees`, `MembershipAgrees`, `RoomsAgree` and `UserPoolPartition`, in the whole server |

The inductive invariant `ServerInv` is the invariant of `TCPNetWork`, `StateInv`
and `Links`: the logic knows a session exactly while its connect time is set,
and a user logged in on the connection that the logic holds. Neither half is
sound without the other. The packet processor is made for packets that come
between CONNECT and CLOSE, which `EventsBracketed` says of the queue
(`HeadFits`); the network layer expects handlers that write only to sessions
that the logic knows, and not too much, which follows from `StateInv`: every
member of a lobby or room is the user of its session (`Placements`), and nobody
is both in sight of a lobby and in a room, so of the notices of a handler at
most two go to one session (`Modest`, handler by handler). `NetworkRefined` then
makes the theorems of `TCPNetWork_proofs` theorems about the whole server.
`GhostsLeave` also takes a walk along the queue: the first event of a session
after which it is not what the logic holds is the CLOSE of that connection
(`CloseIsQueued`).

`LobbyLists_proofs` proves, for every number of sessions, lobbies, rooms and
slots, every page size and every set of sessions that enter rooms, from
`ListsAssumption` and the assumptions of `PacketProcessor`:

| Theorem | Property |
|---|---|
| `RoomsSeenCorrect` | `RoomsSeen` |
| `UsersSeenCorrect` | `UsersSeen` |
| `ListsRefinePresence` | `Presence` is implemented with list requests between the handlers |

The inductive invariant is `ListsInv == StateInv /\ Sight /\ RoomsSeen /\
UsersSeen`; `Sight` says that a client out of sight starts again from the
beginning, without which it would keep a `next` from another lobby. A request
keeps the invariant because of `PageWhole`: a page of at most n entries leaves
out nothing in front of where the next one starts, whether it ends the list,
is full or is empty. A handler keeps it because of the theorems about notices:
a room whose number of users changes has lost or gained somebody (`CountNow`),
which `RoomTold` says everybody in sight hears, and who comes into sight is
announced (`LobbyTold`). For the users three more facts are needed, each handler
by handler: who follows is the same user in the same lobby as long as it is in
sight (`UserStays`), who stays a member keeps the slot (`SlotStays`: otherwise
somebody could move behind the client's back into a slot it has read past), and
nobody who is still in sight is said to have left (`GoneIsOutOfSight`).

## 6. What is only model-checked

* Liveness (`ClosedIsRetired`, `StopEndsThread`, `OverdueIsClosed`): liveness
  under fairness and ENABLED are beyond the prover.
* That the system never stops: TLC's deadlock check, which every passing run but
  `lists` makes, is about ENABLED as well.

## 7. Plan

Done in this order: `SessionEvents`, `TCPNetWork` and its proofs; `UserManager`;
`Room`, `Lobby`, `PacketProcessor`; `Presence`; `LoginCheck`; `RecvBuffer`;
proofs of `RecvBuffer` and `UserManager`; `LobbyLists`; `ChatServer`; closing
and reconnecting in `RecvBuffer`; `SendBuffer`, its proofs, and `Echo`; proofs
of `LoginCheck` and of the reuse of indices in `TCPNetWork`; proofs of
`PacketProcessor`, `ChatServer`, `Echo` and `LobbyLists`.

Every invariant, safety property and refinement of the passing runs is proved;
what is left to TLC is liveness (section 6).

## 8. What is not modelled

* Configuration, logging, socket creation and options, the `Game` stub, project
  files: no state that the properties are about.
* The contents of messages, titles, texts and passwords; bytes are followed from
  place to place, not interpreted, except the header of a received packet.
* The size that an echo request gives of its own data
  (`PacketProcssor.cpp:139-141` does not compare it with the size of the body):
  clients are taken to give that of the body. Where the place of that size has
  been overwritten (after an ID 0, section 4), the model takes any of the sizes
  that clients send; the larger ones that may stand there, with which the
  handler copies from behind the body, are not modelled.
* Client packets with the IDs 2 and 3, which `Process` takes for its own CONNECT
  and CLOSE, with IDs that are no index of `PacketFuncArray` (negative, or 256
  and more), and headers with a negative body size. `AddPacketQue` lets all of
  them through, and with a forged CONNECT or CLOSE the order of events
  (`EventsBracketed`) and what rests on it would not hold. The other IDs are in
  the models: 0 as itself, those without a handler as packets that nobody
  answers.
* What the server does after a recv has written behind the receive buffer.
* `memcpy` on overlapping memory (`TCPNetWork.cpp:472`) is taken to copy as
  `memmove`, as the C runtime of the project's compiler does.
* The race on `m_IsRun` is modelled by letting Stop take effect at any time
  before some test of the loop; a compiler that never reads the variable again
  is not.
* A room for no users and a lobby list longer than its packet, which the
  configuration excludes.

# A TLA+ development of the IM server and client

The repository is a small instant-messaging system: a C++ server for Linux
(`server/`, one epoll loop and one heartbeat thread) and a Qt client
(`client/`). This directory holds TLA+ modules translated from that code, TLC
configurations that check them on small instances, and TLAPS proofs of the
properties that matter most. `PROJECT.json` maps every definition to the lines
it models, lists the runs, the mutated definitions each property catches, the
hazards of the code and the theorems.

## 1. Inventory

| Component | State | Operations | Modelled in |
|---|---|---|---|
| Server core (`server/src/server.cpp`) | `clientHandlers_`, `fileSessions_`, `pendingDisconnects_`, `running_`, each handler's `closing_` | accept, one handler per message, `queueDisconnect`, `processPendingDisconnects`, `handleClientDisconnect`, `broadcastUserList`, `heartbeatLoop`, `run`, `stop` | `Server` |
| Client table (`client_manager.cpp`) | `clients_` by descriptor: client id, nickname, `isOnline`, `lastHeartbeat` | add, remove, identify, look up, `checkTimeout` | `ClientManager` (operators), `Server` (state) |
| Reactor and epoll wrapper | `handlers_`, the epoll set | register, modify, remove, `poll` | `Server` (dispatch), `SendPath` (EPOLLOUT) |
| Write path of `ClientHandler` | `outbuf_`, `outOffset_`, `closing_` | `queueSend`, `flushOut`, `handleWrite` | `SendPath`, promise in `ByteStream`; with a parser in `Channel` |
| Parser of the server (`server/src/protocol.cpp`) | `recvBuffers_` by descriptor | `parseData`, `removeClient`, packing and unpacking | `StreamParser` (the loop), `Server` (whose bytes), `ServerProtocol` (contents) |
| Parser of the client (`client/network/protocol.cpp`) | none | packing and unpacking | `ClientProtocol` |
| Message layout (`message.h`) | none | field sizes and byte order | `MessageLayout` |
| Life cycle (`main.cpp`, `start`, `run`, `~Server`) | `listenFd_`, `reactor_`, `heartbeatThread_`, `running_` | start-up with all its failures, signals, join, clean-up | `Lifecycle` |
| Heartbeat timing | the client's timer, the heartbeat thread's sleep, the poll timeout | send, record, check, drop | `Heartbeat` |
| `TcpClient` | socket state, `recvBuffer_`, `sendSessions_`, `recvSessions_`, `pendingOffers_`, heartbeat timer | connect, disconnect, read, offer, answer, send and receive files, chat | `ClientSession` (connection, reading), `FileTransfer` (files), `Wire` (contents), `Heartbeat` (the timer's period) |
| `ChatWindow` | transfer rows, their buttons, the user list, the target box, the connection's label | choose a file, accept, decline, send, close | `ClientSession` (window, label), `FileTransfer` (rows and buttons), `Wire` (target, list); the rest is widgets |
| `LoginWindow` | the connect button, the chat window | connect, log in, answer boxes | `ClientSession` |

How they interact. The main thread owns the reactor, the handlers and the
sockets; it reaps queued disconnects, polls, dispatches, reaps again. A
`ClientHandler` passes received bytes to `parseData`, which calls
`Server::handleMessage`, which sends through other connections' handlers; a
failed send marks the handler `closing_` and queues its descriptor. The
heartbeat thread shares `clients_`, `pendingDisconnects_` and `running_` with
the main thread, each under a mutex or atomic. Nothing is destroyed but in
`handleClientDisconnect`, called only by the reaping and the final clean-up.

A client is one thread. `TcpClient` turns `QTcpSocket`'s signals into its own,
to which the two windows are connected; their slots call back into `TcpClient`,
open message boxes, and so run the event loop again before they return.

What is hard:

- *Descriptors outlive connections.* All tables, the queue and the heartbeat
  thread's list are indexed by descriptor, and `accept()` hands out the lowest
  free one at once.
- *Two threads, short locks.* Each lock covers one operation; what was looked
  up is used after it was released.
- *Calls from below.* A send fails, or a client logs out, while the reactor,
  the read loop and the parser are on the stack of the same handler.
- *Edges.* The sockets are edge-triggered: a wake-up that is missed is gone.
- *Time.* Four periods with independent phases decide when a silent client goes.
- *Boxes.* `QMessageBox` runs the event loop inside a slot: the connection may
  be lost, found lost by a write, or bring data while the slot that opened the
  box is half done.
- *Cut strings.* Every name goes through a field of fixed size, cut at a byte,
  and is compared, listed and looked up as what is left.
- *Start and stop.* A signal may arrive at any moment; start-up can fail at
  any of eight calls; three places close the listening socket.

`PROJECT.json`, "hazards", has each at its line, with the property that guards
it or the reason why none does.

## 2. The modules

**`ClientManager`** — the client table as a function from descriptors to
records (or `None`) and the operations of `client_manager.cpp` as operators on
it. The mutex of the class makes each operation one step. `lastHeartbeat` is
the boolean `silent`: more than `kHeartbeatTimeoutSec` ago, or not.

**`Server`** — the running server. One action per step of the code that another
actor can observe: the iterations of the reaping loop, `epoll_wait`, each
dispatched event, each `accept`, each message, `recv` returning nothing, the
steps of the heartbeat thread, the clean-up; and the environment (connect, FIN,
reset, silence, stop, failing calls). Correspondence:

| Code | Model |
|---|---|
| a connection | its peer; `sock[fd]` is the connection a descriptor stands for now |
| `Reactor::handlers_`, `clientHandlers_`, `clients_`, `recvBuffers_` | functions from descriptors, to the peer they were made for |
| `closing_` | membership of `closing` |
| `pendingDisconnects_` (vector, sorted and made unique when used) | a set |
| `pending` in `processPendingDisconnects` | `victims`, worked off in ascending order |
| what `epoll_wait` returned | `events`, dispatched in any order; `listenEdge` is the unreported edge of the listening socket |
| a file session | the two descriptors, and as history the two peers that agreed on it |
| a failed send | `SendOutcomes`: always on a `closing_` handler, possibly on a reset connection |
| handlers' early returns | the actions' guards; a message that fails them changes nothing |

`justified`, `queuedBefore`, `listedBefore`, `stranded` and `userLists` are
history variables: which open descriptors gave a cause to be closed, which were
accepted over an entry of the queue (in this iteration) or of the heartbeat
thread's list, whether a failing `accept()` left peers in the queue and nobody
came since, and the user list last sent on each connection. No action reads
them. The accept loop ends as in lines 65-74: on EAGAIN and for want of a
descriptor (`AcceptDone`), and on any other error at any moment (`AcceptFails`),
which may take the connection it is about out of the queue. Bytes, sequence numbers, texts and the output buffer are left out
here. One consequence is deliberate: with bytes queued in `outbuf_` a send
cannot fail, so on a reset connection failing is a choice, not a certainty.
`handleFileOffer` 688-705, for a session that exists without a receiver, has no
action: `receiverFd` is never -1. `kMaxOnlineClients` is a constant of the
model; with the default limit of 1024 open files, the real limit of 100 is
reached first, and what happens when descriptors run out is in the model too
(`AcceptDone`).

**`MCServer`** — descriptors and symmetry sets for TLC.

**`Room`** — what the users are promised, without descriptors, threads or
failing calls: people are in the room under names nobody else has, everyone
inside is told who is there after each coming and going, and whom the news does
not reach is leaving. `Server!TheRoom` is the refinement mapping: a person is a
peer, inside when it is logged in on the connection it has now; `lists` is what
its connection was sent last; `leaving` are the connections whose `closing_` is
set; the room is `open` while `running_`. The server takes a failed broadcast,
a batch of disconnects, an announcement during one of them, or the clean-up at
the end as one step of the room each, or as none.

**`SendPath`** and **`ByteStream`** — one connection's writing half, byte by
byte: each `send(2)` takes some bytes, none (EAGAIN) or fails; the kernel's
edge-triggered EPOLLOUT with its low-water mark; interest changed by
`modifyHandler`. `ByteStream` states the promise (bytes come out in order, once)
in three actions, and `SendPath` implements it: the accepted bytes are what was
given, the bytes the peer read are what was got.

**`StreamParser`** — `parseData` on one connection: frames, each right, with a
wrong magic, or too long, cut into reads at any byte. A byte is known by its
frame and place, so that "the middle of a frame is read as a header" is visible.

**`Channel`** — the two joined: the frames handed to `sendResponse` become the
bytes of `SendPath`, and what its peer reads is what `StreamParser` receives.
The reading side has its own wait between `read` and the parse loop, as
`onReadyRead` has. The same composition serves for both directions, for the two
parse loops differ in where the bytes are kept and in nothing else.

**`ClientSession`** — one client program against its socket and its server. The
variable `stack` is the call stack of the one thread, as far as something can
come in between: a slot that has begun, a message box that is open, the step
that follows when it is answered. Events of the socket and the heartbeat timer
are possible when the innermost thing is an event loop, the program's or a
box's; clicks only when no box is open, for the boxes are modal. `Send` is
`sendData` with its three outcomes: not connected, written, or written into a
connection that the flush finds dead, in which case `disconnected()` and all its
slots run before it returns. Data that comes while `onReadyRead` is on the stack
waits in `qtBuffer`, since QTcpSocket does not emit `readyRead` within itself.
`recvBuffer_` is its whole messages and, in `torn`, whether a part of one follows.

**`MessageLayout`**, **`ClientProtocol`**, **`ServerProtocol`**, **`Wire`** —
contents. A string is a head, of a length that fills its field or leaves one
byte, and a tail that fits, is cut between characters, inside one, or after a
blank; `strncpy`, `fromUtf8` and `trimmed` act on tails. A number is the
sequence of its bytes, four standing for eight, so that turning it is visible. The two protocol modules are
the packing and unpacking functions of the two programs and differ where those
do; `Wire` sends their messages from client to server to client through the
handlers that look at contents. Users act one at a time in `Wire`: what may
happen in between is the subject of the other modules. `MCWire` adds symmetry.

**`Lifecycle`** — `main`, `start`, `run`, `stop`, `~Server`, with every failing
call, the heartbeat thread as far as the life of the server object matters to
it, and a signal at any moment after the handler is installed. The event loop's
body is one step.

**`Heartbeat`** — one client and the server with a discrete clock: the client's
coarse timer, a network delay, the heartbeat thread's period, the poll timeout.
What is due at a tick happens before the next one.

**`FileTransfer`** — one file between two clients through the server: the
sender's dialog, offer and send loop, the server's relay, the receiver's
buttons and file, and the connections, which either client leaves or loses, the
server drops, and a new login replaces. Correspondence: `up` and `down` are a
connection's two byte streams seen as messages; `fileSession` is the server's
entry, with the two live connections as its ends (`Server!SessionEndpoints` is
why that needs no descriptor here); `task` is what the sender's only thread is
in; `sendRow` and `recvRow` are the texts of the transfer tables; `disk` is the
set of places written. Clicking Accept shows "accepted" whatever was answered,
as in the code. Cancel relabels the row and does nothing else; the transfer
goes on. `startFileSend` is taken chunk by chunk because a failing write
inside `flush()` closes the socket and clears `sendSessions_` under the loop;
the dangling reference then has two outcomes, a crash or a loop that goes on.
The iterator that `sendFileOfferResponse` keeps over its own write has the same
two (`AnswerCrashes`, or an answer and then `Lost`).
What the module shows of the code beyond its properties: a receiver waits for
ever when the sender has gone before the answer, when the file is empty, and
when it was cut after the offer; and a file that vanishes in the dialog leaves
a row that waits for ever (`OfferVanished`). Nothing in the repository promises
otherwise, so `Completes` leaves these cases out by name.

A definition named `<other>_<mistake>` is a plausible slip in writing
`<other>`. The specifications do not use it; `PROJECT.json`, "mutants", says
which property notices when it takes the other's place. Every property of every
passing run has one.

## 3. The runs

| Run | What it asks | Instance |
|---|---|---|
| `ServerTables` | Do the four tables and the kernel agree, is no disconnect lost, and who is closed without a cause? | 3 peers, 2 descriptors, resets, silence, late heartbeats |
| `ServerRoom` | Is the server a `Room`? File sessions, identities, user lists, and no handler freed while events are dispatched | 3 peers, 2 descriptors, 2 ids, 2 nicknames, a file, chat, resets, log-outs |
| `ServerReuse` | *Violated*: an innocent connection is closed (finding 1) | 2 peers, 2 descriptors, silence |
| `ServerLive` | Buffers belong to their connection; peers that leave are reaped, the accept queue is served unless an `accept()` fails and again from the next arrival on, `stop()` ends in a closed server | 2 peers, 2 descriptors, partial messages, resets |
| `Lifecycle` | The listening socket is closed once, the thread never outlives the server, `run` returns | no constants |
| `LifecycleStop` | *Violated*: every signal stops the process (finding 2) | no constants |
| `Heartbeat` | A faithful client is never dropped; a silent one is dropped within 17 s | the source's periods, in half seconds |
| `HeartbeatTest4` | *Violated*: within 15 s (finding 3) | the source's periods |
| `Channel` | Byte-stream refinement; whole frames handled once and in order, less than a frame kept; everything sent to a peer that reads is handled | 3 messages of a header of 2 and a body of up to 1 (and one too long), socket buffer of 3, trim at 3 |
| `FileTransfer` | What is received is whole, nothing is sent unaccepted, the relay stands while both ends do, an undisturbed transfer completes | a file of 0 to 3 bytes, chunks of 2, any number of reconnections |
| `ClientSession` | The windows tell the truth and never strand the user; no chat message comes before its window; attempts end and messages are heard | queues of 2 messages, any number of connections |
| `Wire` | Every message parses on the other side; names, lists, sizes and files come out as they went in, as far as the fields allow | 3 clients and 1021 silent ones, 2 id heads with every tail, 3 nicknames, a file |

Why the bounds are enough. Two descriptors and three peers are the least with
which a descriptor changes hands while another connection stays, one peer waits
in the accept queue, and a broadcast has a target other than its cause. Two
client ids and two nicknames allow either to clash alone. The kinds of traffic
are divided between the runs (`Traffic`) because all of them together are too
many states; what is left out of a run does not change the tables that run is
about. The limit `kMaxOnlineClients` never binds in `ServerRoom`, where it is
the number of descriptors: in `ServerTables` and `ServerLive` it is 1 and
refuses a second login, and `IdentitiesUnique` is proved for every limit. In
`Channel` a message may be larger than what is left of the socket buffer, so
each branch of `flushOut` is taken and a second message queues behind the first;
a read may hold the end of a frame, a whole one and the start of a third, and
three frames are enough for a wrong one between two right ones. In
`FileTransfer` three bytes in chunks of two make a last chunk that is short, an
offered size inside a chunk (the file grew), and an empty file. In
`ClientSession` two messages are what the acceptance of a login makes at once,
and one more than what a box in `onReadyRead` needs to hold another back. In
`Wire` three clients are a sender, an addressee and somebody else who might be
mistaken for it, and with the 1021 others the server is full, so that the
longest user list is sent. Model values are symmetric where a run says so: no
definition orders them; descriptors, which are ordered, are numbers and not in a
symmetry set, and the liveness runs use no symmetry. `TablesView` takes from the
states of `ServerTables` the history its properties do not read. In `ServerLive`,
with as many descriptors as peers, `accept()` never fails for want of one, but it
does for other reasons, with the same end of the loop; three peers on two
descriptors are in the other two, and the safety half of `BacklogServed` is proved for all
(`QueueSeen`).

### What the violated runs show

1. *`ServerReuse`*: a client falls silent; the heartbeat thread lists its
   descriptor; before it queues it, the client leaves and is reaped, and a new
   peer is accepted on the same number; the queued number now closes the new
   peer. The same follows when a broadcast during the reaping at the top of the
   loop fails on a descriptor later in the batch: it is queued again, reaped,
   accepted anew, and reaped at the bottom of the same iteration
   (`ServerTables` has these states; the tables still agree there). With
   three descriptors, two of them queued again in one bottom reap, that happens
   without any silence. What remains true is `EstablishedKept`: nothing
   else closes an innocent connection, and one that is older than an iteration
   has only the heartbeat thread's list to fear. `ServerTables` checks it where
   both exceptions occur, and it is proved for every number of descriptors.
2. *`LifecycleStop`*: `run()` sets `running_ = true`; a signal handled while
   `start()` works is forgotten, and one before `g_server` is set does nothing.
3. *`HeartbeatTest4`*: the limit is 11 s after truncation, the thread looks
   every 5 s, the loop closes up to 1 s later: 17 s, not the 15 s of test case
   4 in the design document.

## 4. Fairness

`Server!Fairness` is weak fairness of the main thread as a whole and of the
heartbeat thread as a whole. The code justifies it: `poll(1000)` and
`sleep_for` return after their timeouts, no lock is held across a blocking
call, sockets do not block. It assumes three things the code cannot promise: the
scheduler runs both threads, a peer does not fill its connection so fast that
the read loop never ends (a listed hazard, no property), and one accept loop does
not go on for ever over connections that `epoll_ctl` refuses. Nothing is assumed of
the peers, nor of `accept()`: it may fail whenever it is called, which is why
`BacklogServed` names the failure as its one exception and says when it ends. In
`Channel` the peer is assumed to read, and its parser to run, as long as the
connection stands; otherwise nothing could be promised. In `Lifecycle` both threads are fair, and
signals and failing calls are not. In `FileTransfer` the event loops run and
messages arrive: weak fairness of all that work together is enough, since every
channel and every file is finite. Users and faults owe nothing.
In `ClientSession` slots return (weak fairness of the thread) and the server
reads. Answers to boxes, the socket's events and the timer have strong fairness,
for another box may open on top and disable each of them for a while, again and
again: the user is assumed to answer every box some day, Qt to report what has
happened once an event loop runs often enough. Nobody has to click on a window,
and the server may drop or refuse whomever it likes.

## 5. What is proved

`tlapm` checks these for every value of the constants; the assumptions are the
named `ASSUME`s of the modules (descriptors are naturals, `None` is nobody,
periods are naturals and the client's period with its delay is below the limit,
sizes are at least what the code needs to make progress).

**`ServerProofs`.** `Base` is inductive by itself: types, agreement of the
tables, and where the threads keep descriptors (`ThreadState`). The last two
need each other: a handler is created only on a descriptor the kernel calls
free, which is nobody's by `TablesAgree`, and what the threads are about to use
is open because only reaping closes. `ThreadState` is what gives the read
actions an open `cur`. On top of it, one property at a time, each with the base
as a hypothesis: `NoLostDisconnect` (what leaves the queue is in `victims` or
the heartbeat thread's list until it is reaped), `EstablishedStay` (every entry
of queue, batch and list is explained by a cause or by what it was when its
descriptor was accepted, `EntriesExplained`; what the queue holds at the top of the loop was
put there after the last `accept`), `QueueSeen` (an edge, an event or the accept
loop stands for whoever waits in the accept queue, until an `accept()` fails), `RelayEndpoints` (accepting
changes `sock` only at a free descriptor, which no session names, because
disconnecting erased those that did), `BuffersOwned`, `IdentitiesUnique` (each
message handler runs alone on the main thread, and the heartbeat thread never
writes identities), `ListsConverged` (every action that changes who is online
broadcasts in the same step, and whoever it fails on is marked closing), and the
action property `HandlersOutliveDispatch`.

**`RoomProofs`.** `Server` implements `Room` (`RoomKept`). Room speaks of people
where the tables speak of descriptors, so the base is joined by `Connections`: a
peer is on one descriptor at most, and what is closed or still waits in the
accept queue is on none. With it, what an operation does to one descriptor is
what the step of the room does to one person. `IdentitiesUnique` gives the guard
of `Join`, `ListsConverged` the lists; every other action of the server changes
nothing in the room or makes connections `leaving`.

**`LifecycleProofs`.** The invariant ties the main thread's place to the
resources it holds (`listenFd_` is set exactly while the kernel has the socket
open; the thread is joinable only between spawn and join); `SocketClosedOnce`
and `HeartbeatJoined` follow.

**`HeartbeatProofs`.** Two sums that a tick leaves unchanged: the age of the last
heartbeat plus the time until the next check (or poll, once listed), and the age
plus the time until the client's next heartbeat arrives. `SilenceNoticed` and
`FaithfulClientKept` are their consequences, for all periods.

**`ChannelProofs`.** For every size of header, message, socket buffer, low-water
mark and trim threshold. `Flow`: the bytes accepted are, in order, what the peer
has read, what the kernel holds, and what the handler still has, in `queueSend`'s
argument or behind `outOffset_`; trimming moves them and loses none. That
`SendPath` implements `ByteStream` follows. `Framing`: the messages lie one behind the
other in that stream. `Parsing`: the buffer is the end of what was received and,
as long as the frames were good, begins at the start of a frame, with all those
before it handled. `FramesHandled` and `BufferBounded` are consequences. Before a
bad frame and after it the invariant says less, as much as the code keeps: what is
handled stays in order, and what was handled before the bad frame stays handled.

**`FileTransferProofs`.** For every size of file and chunk. The invariant follows
the one offer through the four channels: it is in one stage at a time (`Asked`,
`Told`, the buttons, `Answered`, `Replied`, `Flowing`) or has been lost, and each
stage says what the two ends can hold (`Stages`). `RelayOpen` needs `Relayed`,
above all that a sender whose socket is down keeps a session only before the offer has
gone anywhere. `ReceivedWhole` needs `NoHole`: while the receiver takes data the
disk is written up to `bytesReceived`, and the chunks in the server's queue, on
their way to it and still to be read follow one another from there.
`SentIfAccepted` says that whatever flows, and whatever answer says yes, comes
from a receiver that has opened its file.

**`ClientSessionProofs`.** For queues of every length and stacks of every depth.
The invariant has the shape of the call stack (`Proper`: what may stand on what,
and `onReadyRead` at most once), the one login of a connection, which is in one
place between the slot that is about to send it and the chat window (`Stages`),
what the socket's state says of the rest (`Phase`), and why the button and the
label are as they are (`Button`, `Label`: what is not true yet has a slot on the
stack that will make it so). At the bottom, with the stack empty, these
are `NotStuck` and `LabelHonest`. `Chats` (no chat message overtakes the
acceptance, from the server through the socket and Qt's buffer to
`recvBuffer_`) gives the action property `NothingUnheard`. It holds only
because a message that comes while a box is open waits in Qt's buffer.

**`WireProofs`.** For every number of clients, files and names. `Tables`: the server
knows everybody by what fits into the fields of the name, nobody by another's,
and the ends of a session are logged in, with one offer waiting at most, at its
receiver, for a sender that still waits for the answer. On top of it the messages on their way
are described exchange by exchange (`Coming`, `Chatting`, `Offering`,
`Answering`, each in stages), and every delivery is shown to lead from one stage
to the next. That a text copied twice is cut once (`Copies`), that the list's id
leads back to its client unless it is damaged (`IdsComeBack`), and that numbers
are turned twice (`Turned`) are lemmas about `MessageLayout`. The six invariants
of the run follow. The proof assumes what the module does: that users act one at
a time.

Only model-checked: all liveness (`GoneReaped`, `BacklogServed`, `StopReturns`,
`RunReturns`, `MessagesHandled`, `Completes`, `ConnectEnds`, `Heard`), since the
prover has no fairness reasoning here. `NoInnocentClosed` is false, and is there for the run
that shows it.

## 6. Plan

Done, in this order: client table, server, its proofs, life cycle, heartbeat,
write path, parser, file transfer; the client's session, the write path and
the parser joined, the contents of messages, and the room the server implements;
then the proofs of the room, the file transfer, the channel, the client and the
contents of messages.

What is left is proof:

1. **`Channel`** — no lost wake-up as an invariant: whenever bytes are queued and
   there is room, an edge, an event or a read is still to come. It is the safety
   half of `MessagesHandled`, which TLC checks.
2. **`Wire`** — the exchanges side by side instead of one after another, as far
   as `Server` and `FileTransfer` do not say it already.

Not modelled, and why: rendering of messages, progress bars, the settings file
and the check of the inputs' form in the client's windows (no state that
anything else depends on); the client's `main`; sequence numbers and
timestamps, which nothing compares; logging, the `.ui` files, resources and
build files; `inet_ntop`, Qt and the kernel beyond what the code uses of them.
What the repository makes no statement about is in the hazards without a
property: an output buffer that grows without bound, a flooding peer, the last
messages of a peer that shuts down, closing the login window while connected
(`ClientSession` ends with that window), and, noted with `AddresseeReached`, a
target that changes under the user's hands or an id that is cut inside a
character.

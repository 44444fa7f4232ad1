# TLA+ models of the scatter chat server

This directory has TLA+ models of `wss::ChatServer`
(`src/src/server/chat/ChatServer.cpp`) and the configurations that TLC uses to
check them. The models cover how messages are routed, how undelivered messages
are queued and redelivered, the lifecycle of a connection, the ping/pong
watchdog, the service's threads, and how `from_json`
(`src/src/server/Settings.hpp`) loads the configuration. Parts of the system that are not under `src/` are modelled
from `spec.md`:

- `ConnectionStorage`
- `MessagePayload`
- the authenticator

`PROJECT.json` is the machine-readable index of the project. It has:

- the components;
- the runs;
- the mutants;
- the map from each definition to the source lines it models;
- the findings;
- the hazards.

## 1. The system

`ChatServer` sits on a Simple-WebSocket-Server endpoint. The transport runs
the endpoint callbacks on a thread pool of `hardware_concurrency` workers, so
callbacks for different connections, and callbacks for one connection, can
run at the same time.

| Part | State in the code | Operations |
|---|---|---|
| Connection lifecycle | `ConnectionStorage` (user id → connections); the socket of each connection | `onConnected` (auth, `?id=` parse, `add`, redeliver), `onDisconnected` (`remove`), `onError` (logs only) |
| Message intake | frame buffers by user id | `onMessage`: fragment reassembly, payload parse, send-back, `send` |
| Routing | per-connection send queue of the transport | `send` → `sendTo` for each recipient; asynchronous send completion → `onMessageSent` (delivery status) or `handleUndeliverable` |
| Undelivered queue | `m_undeliveredMessagesMap`: user id → `std::queue<MessagePayload>`, guarded by `m_undeliveredMutex` | `enqueueUndeliveredMessage`, `redeliverMessagesTo` |
| Watchdog | `ConnectionStorage` pong marks; the watchdog thread | `watchdogWorker`: each minute, close inactive users or ping; completion → `markPongWait`/`remove`; `onPong` → `markPongReceived`; after 2 s `disconnectWithoutPong` |
| Statistics | `m_statistics` map | `getStat` on connect, disconnect, send |
| Service | worker thread and watchdog thread | `runService`, `stopService`, `joinThreads`, `detachThreads` |
| Settings | the singleton `Settings::get()` | `from_json`: a JSON document into the singleton; `runService` reads `server.watchdog.enabled` |

How the parts interact:

- `onMessage` holds the recursive `m_connectionMutex` for its whole body, and
  `sendTo` takes the same mutex.
- `onConnected` holds no such lock. It registers the connection and then runs
  the redelivery loop.
  - The loop takes a reference to the user's queue under `m_undeliveredMutex`.
  - It then pops the queue with the lock released (lines 414-418).
  - Each popped payload goes back through `send`. If the user is offline
    again, it is pushed back.
- A send completion runs later on some worker.
  - On success it calls `onMessageSent`. With delivery status on, that routes
    a status payload back to the sender, which is a second send.
  - On any error it re-queues the payload.
  - Only on `broken_pipe` does it also remove the connection (lines 486-500).

### What is hard

- **Registration before the drain.** The connection is registered before the
  queue is drained, and no lock spans both. New messages can overtake queued
  ones.
- **Unlocked pops.** The redelivery loop pops the user's `std::queue` without
  the lock, while a second loop of the same user or a failed send's
  completion may touch it.
- **A loop that may not end.** The drain loop re-pops what it pushes back when
  the user goes offline during the drain.
- **Failure handling.** A failed send removes the connection only for a broken
  pipe, and re-queues the payload once per failed connection.
- **The pong race.** The pong can be handled before the ping's completion
  callback has marked the connection as awaiting a pong.
- **Inactive users.** A connection whose user is inactive only ever gets a
  close frame. Its peer may be gone.
- **Fragments by user id.** Fragments are buffered by user id, not by
  connection, and the buffer outlives a peer that drops mid-message.
- **Lazy statistics.** `getStat` looks up and inserts without a lock, from
  worker threads and the watchdog thread.
- **Id parsing.** `std::stoul` accepts more than a plain number and throws an
  exception the handler does not catch.

### What makes each part correct

- **Routing and the undelivered queue.**
  - No payload handed to `sendTo` is lost: it is received, in flight, or
    queued.
  - A queue is owned by one redelivery loop at a time.
  - The loop terminates.
  - Per sender, a connection receives payloads in the order they were
    accepted, and a reconnecting user gets its queued payloads before
    anything routed to it afterwards (spec.md, "Ordering guarantees").
- **Watchdog.**
  - A client that answers is never evicted.
  - A pinged dead connection eventually leaves the storage.
- **Fragments.** An END frame hands on exactly the fragments its connection
  sent.
- **Statistics.** No counter update is lost.
- **Id.** Only a plain decimal id other than 0 is registered; every other id
  closes the connection.
- **Settings.** The watchdog runs exactly when the configuration that was
  loaded enables it.

## 2. Modules

### `ChatRouter.tla`: routing, the undelivered queue and connection lifecycle

Constants:

- `Users` and `Conns`, with the owner `ConnUser` of each connection;
- the bot id `Bot`;
- the payload `Types` and the `StatusType`;
- the settings `EnableQueue`, `EnableSendBack`, `EnableDeliveryStatus` and
  `IgnoreTypesSendBack`;
- the recipient sets a client may name, `RcptChoices`;
- the id bound `MaxMsgs`.

| Variable | Code |
|---|---|
| `sock[c]` | the transport socket: `idle`, `up`, `broken` (peer gone), `closing` (close frame sent), `closed` |
| `phase[c]` | where `onConnected` is: `rejected`, `draining` (the locked entry check of `redeliverMessagesTo`), `popping` (the unlocked loop), `ready` |
| `storage` | the connections registered in `ConnectionStorage` |
| `outq[c]` | the sends issued on `c` whose completion has not run; completions run in order |
| `queue[u]` | `m_undeliveredMessagesMap[u]` |
| `recv[c]` | history: payloads the client of `c` received |
| `routed` | history: every (payload, recipient) handed to `sendTo` |
| `nextId` | the next payload id a client uses |

| Action | Code |
|---|---|
| `Connect` / `Reject` | `onConnected`: accepted and registered, or refused with a close |
| `DrainCheck` | `redeliverMessagesTo`'s entry: the setting, `hasUndeliveredMessages` and `getUndeliveredMessages` under the lock (lines 404-415) |
| `DrainStep` | one iteration of the unlocked `while (!queue.empty())` loop, or its exit (lines 416-421) |
| `Receive` / `ReceiveInvalid` | `onMessage` for a one-frame message: send-back, then `send`; or close on an invalid payload |
| `SendSucceeded` / `SendFailed` | the completion callback of `sendTo`'s `send` |
| `Break` | the peer vanishes (`onError` only logs) |
| `Disconnected` | `onDisconnected` |

`Send`, `SendTo`, `HandleUndeliverable` and `OnMessageSent` are operators.
They act on a record of the send queues and the undelivered queue, so a
handler that routes several payloads is still one step, as it is under
`m_connectionMutex`.

### `ChatWatchdog.tla`: the watchdog, composed with the router

This module EXTENDS `ChatRouter` and adds these variables:

| Variable | Meaning |
|---|---|
| `wd` | where the loop is |
| `todo` | the copy of the storage still to visit |
| `awaitPong` | the pong marks |
| `ping[c]` | the ping send: none, inflight, written |
| `pinged` | client holds an unanswered ping |
| `answered` | history: clients that answered the latest ping |
| `evicted` | history: connections removed by `disconnectWithoutPong` |

| Action | Code |
|---|---|
| `WdTick` | sleep, then copy the storage |
| `WdVisit` | inactive → close frame, else ping |
| `PingWritten` | the ping is written to the socket |
| `PingDone` / `PingFailed` | the ping's completion callback |
| `Pong` | `onPong` |
| `WdSweep` | 2 s, then `disconnectWithoutPong` |

The router's actions run interleaved with these.

### `FrameBuffer.tla`: fragmented frames

It models the fragment path of `onMessage` (lines 199-230) and the three
buffer operations (lines 335-362). A fragment's bytes are a record of the
connection, message and position that produced it, and its length. The
variables are:

- `fb`, which is `m_frameBuffer`: a function whose domain is the users
  holding a buffer;
- `status`;
- the client's frames of the current message, `sending`;
- the count of messages it started, `started`;
- a history `out` of what each END frame handed on.

| Action | Code |
|---|---|
| `Open` | `onConnected` accepted the connection |
| `Begin` | BEGIN frame: `writeFrameBuffer(id, s, true)` |
| `Continue` | CONTINUE frame: `writeFrameBuffer(id, s, false)` |
| `End` | END frame: `readFrameBuffer(id, true)`, its own bytes, the `m_maxMessageSize` test and the close |
| `Drop` | the peer goes away; `onDisconnected` leaves the buffer |

Each frame is one step, because `onMessage` holds `m_connectionMutex` and
the buffer operations hold `m_frameBufferMutex`. The constant
`OneSessionPerUser` says whether a user's clients open one connection at a
time. With it false, two connections of a user corrupt each other's messages
in three frames (BEGIN on one, BEGIN on the other, END on the first): the buffer is keyed by user id, as the spec designs it. That
case is listed as a hazard and is not among the runs.

### `Statistics.tla`: `getStat` and its threads

`getStat` is three steps: `Find` (the `find` test), `Insert` (the store of a
fresh object) and `Use` (the return, and the caller's counter update, taken as
atomic). The callers are:

- `OnConnected`: register the user, then `getStat`, on a worker thread;
- `OnEvent`: disconnect and send completions, on a worker thread;
- `WdVisit`: a watchdog thread (one of the set `Watchdogs`), which only reads.

An object is a record of a generation number and a count. The history
`counted` holds the updates that the callers completed. The module has no
run of its own; `ChatService` composes it.

### `IdParse.tla`: `onConnected`'s checks and `std::stoul`

Pure operators, without state. `Stoul` is `strtoul` in base 10, written as
RECURSIVE operators:

- `SkipSpace` skips leading white space;
- the sign is taken;
- `Accumulate` reads digits one at a time, with the overflow test before each
  multiply-add;
- a minus sign negates the result modulo `2^Width`.

`CheckConnect` is the order of `onConnected`'s checks (lines 280-303):

1. authentication;
2. a non-empty query;
3. an `id` parameter that is present and non-empty;
4. `std::stoul`, of which only `invalid_argument` is caught.

### `ChatService.tla`: the service lifecycle, composed with `getStat`, the id checks and the settings

This module EXTENDS `Statistics`, `IdParse` and `Settings`. It models the owner's calls
`runService`, `stopService`, `joinThreads`, `detachThreads` and the
destructor (lines 93-141), the worker thread that runs `m_server->start()`,
the watchdog thread's loop with its two sleeps (lines 143-187), and
`onConnected` from the upgrade request to `getStat`.

Boost semantics that the model keeps:

- a `boost::thread` handle is joinable ("attached") until `join` or
  `detach`; after that `interrupt()` on it does nothing;
- assigning a new thread to a `unique_ptr` that holds a joinable thread
  destroys the old object, which detaches the thread (Boost.Thread
  interface version 2, the default);
- the watchdog notices an interruption only inside `sleep_for`.

| Variable | Code |
|---|---|
| `obj` | the `ChatServer` object: alive or destroyed |
| `srv` | `m_server`: running or stopped |
| `cpc`, `dtor` | where the owner's thread is in `joinThreads`, and whether the destructor called it |
| `wkH`, `wdH` | `m_workerThread`, `m_watchdogThread` |
| `attached` | threads whose handle still refers to them |
| `wk[k]`, `wdPc[w]` | each worker thread and each watchdog thread |
| `intr` | watchdog threads with an interruption requested |
| `todo`, `rounds` | a watchdog round's users still to visit; rounds begun |
| `runs`, `ops` | owner calls so far (bounded) |
| `opened` | history: each query's outcome in `onConnected` |
| `settings`, `loads`, `named` | from `Settings` |

| Action | Code |
|---|---|
| `LoadConfig(d)` | the program calls `from_json` before the service starts (the caller is not under `src/`) |
| `RunService` | lines 118-135: new worker thread, and a watchdog thread when `Settings::get()` has it enabled (line 129) |
| `StopService` | lines 136-141: `m_server->stop()`, then interrupt the watchdog handle |
| `Destroy` | the destructor: `stopService`, then `joinThreads` |
| `JoinThreads`, `JoinWorker`, `JoinWatchdog` | lines 101-109 |
| `DetachThreads` | lines 110-117 |
| `WorkerExit(k)` | `start()` returns once the server is stopped |
| `Connect(t, q, auth)` | `onConnected` (lines 276-308): `CheckConnect`, then `add` and `getStat` |
| `Event(t, u)` | a disconnect or send completion's `getStat` while serving |
| `WdWake`, `WdVisitUser`, `WdRest`, `WdSweep` | the watchdog loop: the 1 min sleep, the visit's `getStat`, the 2 s sleep, and the loop's end or `thread_interrupted` |

### `Settings.tla`: `Settings::get()` and `from_json`

A document is a function from key paths (sequences of keys) to values. An
object node has the value `Obj`. A leaf is a boolean or the token `"v"`,
which stands for any string or number. The variable `settings` maps each
member of the struct, named by its path (`"server.watchdog.enabled"`), to
its value. `Defaults` holds the member initialisers. `FromJson(d, s)`
follows `from_json` statement by statement, over a record of the settings
and whether an exception has been thrown:

- `SetConfig` is the `setConfig` macro, `src.value(name, current)`. A
  missing key keeps the current value. A non-boolean
  value for a boolean member throws `type_error`.
- `SetConfigDef` is `setConfigDef`: a missing `workers` gives the hardware
  count, not the current value.
- `At` is `json::at`, which throws on a missing key: `server` at the start
  and `event.targets` at the end.
- `LoadServer`, `LoadWatchdog`, `LoadRestApi`, `LoadChat` and `LoadEvent`
  are the sections. Each keeps its conditions: the watchdog lifetime only
  when the flag is on, `restApi` only when its `enabled` (or the current
  value) is true, the event fields only when `event.enabled` is true.

An exception leaves in place what was assigned before it. `Load(d)` applies
`FromJson` to the singleton. `named` is a history of the watchdog flag as the
document gives it at the path the schema in spec.md documents. Nothing
under `src/` calls `from_json` twice, so the runs load one document.

### MC modules

`MCChatRouter.tla` and `MCChatWatchdog.tla` fix the constants:

- users `u1` and `u2`, and the bot `b0`;
- connection `c1` of `u1`, and connections `c2` (and `c3`) of `u2`.

`StateBound` caps the length of every sequence at 2. Without it, a payload
that fails on several connections multiplies without bound (hazard
`src/...:500`). Symmetry between `c2` and `c3` is used only in the safety runs
of `MCChatRouter`.

The other MC modules are as follows:

- `MCFrameBuffer.tla` has `u1` with `c1`, and `u2` with `c2` and `c3`.
- `MCChatService.tla` has:
  - one handler thread `w1` and user 1;
  - two `runService` calls, with worker threads `k1`, `k2` and watchdog
    threads `d1`, `d2` (`MCWkT`, `MCWdT`);
  - the queries `?id=1` and `?id=a` (`MCQueries`), or `?id=1`, `?id=0` and
    `?id=-1` with users 0, 1 and 15 (`MCBadQueries`);
  - the alphabet `0 1 6`, blank, `-`, `+` and `a`, `MaxLen = 3`, and a
    4-bit `unsigned long`, so that "16" is out of range and "-1" wraps to
    15;
  - one load of one of four documents (`MCDocs`):
    - the watchdog on;
    - the watchdog off;
    - the watchdog on together with REST, chat and event sections, where the
      event section lacks its targets, so the load throws at the end;
    - an empty document, which throws at once.

## 3. Runs

| Run | Result | What it shows |
|---|---|---|
| `router_noloss` (`MCChatRouter.cfg`: `NoLoss`) | pass | Every routed payload survives send-back, bot payloads, rejections, broken peers, closes and reconnects. |
| `router_queue_race` (`QueueOwnedByDrain`) | violation | `c2`'s loop pops and sends `m1`, `c2` breaks, and the failed completion pushes `m1` onto `u2`'s queue while the loop is still popping it. Two loops of one user also break the property. |
| `router_drain_terminates` (`DrainTerminates`, no symmetry) | violation | `u2` disconnects during the drain. Every pop is pushed back, and the loop never exits. |
| `watchdog_noloss` (`MCChatWatchdog.cfg`: `NoLoss`) | pass | With delivery status on, and with evictions, ping failures and pong races, no routed payload is lost: payloads re-queued from callbacks of connections the watchdog removed still reach the queue. |
| `router_order` (`MCChatRouterOrder.cfg`: `PerSenderFifo`, `MaxMsgs = 2`) | violation | `u2` is offline and `u1`'s `m1` is queued. `c2` connects and is registered, and `u1` sends `m2`, which goes straight to `c2`. Only then does the drain send `m1`, so `c2` receives `m2` before `m1`. This contradicts spec.md's drain-before-deliver rule. |
| `watchdog_pinged_dead` (`PingedDeadRemoved`) | pass | A connection pinged after its peer died leaves the storage, whatever order the callback and the sweep take. |
| `watchdog_pong_race` (`NoEvictAnswered`) | violation | `PingWritten`, then `Pong`, then `PingDone` marks the connection again, and `WdSweep` evicts `c1`. |
| `frame_reassembly` (`MCFrameBuffer.cfg`: `Reassembly`) | pass | With one connection per user at a time, an END hands on exactly its own fragments, also after a peer dropped mid-message and left a buffer. |
| `service_shutdown` (`MCChatService.cfg`: `WatchdogAsConfigured`, `DestructorReturns`) | pass | A watchdog thread runs exactly when the loaded document enables it, also after a load that fails part-way. Once the destructor is joining, it returns. Both hold over every order of the load, owner calls, connections, `getStat` races and watchdog rounds. |
| `service_thread_outlives` (`NoThreadOutlives`) | violation | `runService`, `detachThreads`, then the destructor: both handles are not-a-thread, so `stopService` interrupts nothing and the joins return at once. The object is destroyed while the watchdog sleeps and the worker still serves. A second `runService` does the same through the replaced handles. |
| `service_stats_race` (`MCChatServiceCounts.cfg`: `CountsKept`) | violation | `runService`, then `onConnected` registers user 1; its `Find` and the watchdog's `Find` both miss. The worker stores an object and counts the connection. The watchdog then stores a fresh object, and the count is lost. |
| `service_id_handled` (`MCChatServiceIds.cfg`: `IdHandled`) | violation | `?id=0` is registered as user 0, the bot's id, and "-1" is accepted as user 15. |

**Bounds.** Each bound is the smallest at which the case happens:

- Two users give a sender and a recipient.
- Two connections of the recipient give both the concurrent drain and
  duplicate fan-out.
- `MaxMsgs = 1` suffices for loss, because any interleaving that loses one
  payload loses it alone.
- Sequences of length 2 admit a queued payload next to an in-flight one.
- In `FrameBuffer`, fragments of size 1 or 2 against a limit of 3 and up to 3
  frames give messages both under and over the limit, and one of 3 frames
  has a CONTINUE.
- In `ChatService`, two `runService` calls reach the replaced handles, three
  owner calls reach run, detach and destroy in any order, one watchdog round
  lets the watchdog visit between a registration and its store, and 2
  `getStat` calls let a disconnect race the watchdog.
- `router_order` needs `MaxMsgs = 2`: one payload waits in the queue and a
  second one overtakes it.
- The four documents turn the watchdog on and off, and the failing ones
  reach both kinds of exception.
- In the id checks, 3 characters and a 4-bit width reach zero, wrap and
  overflow.

The watchdog runs use two connections, because three exceed the time budget.

**Fairness.** Weak fairness is assumed only on steps that the code is obliged
to take once they are enabled:

- the redelivery loop's entry check and iterations, which run on the thread
  that is in `onConnected`;
- the send completion handlers, which the io_service runs;
- the watchdog loop's steps;
- ping completions.

Clients are assumed to do nothing: no connect, no message and no pong is
forced. In `ChatService` the threads are scheduled fairly: weak fairness on
each join, on a worker's exit from `start()` once the server is stopped, on
every `getStat` step and on every watchdog step. The owner's calls and the
clients are not forced. `FrameBuffer` checks safety only, and assumes no
fairness.

Each finding is in `PROJECT.json` with the line where it bites.

Mutants show that each property of a passing run can fail:

- `SendFailed` without a re-queue on a broken pipe breaks `NoLoss` in
  `router_noloss`.
- `SendTo` that drops a payload for an offline user breaks `NoLoss` in
  `watchdog_noloss`.
- `PingDone` without `markPongWait` breaks `PingedDeadRemoved`.
- `WriteFrameBuffer` that ignores `clear` breaks `Reassembly`.
- `LoadWatchdog` that reads the flag from the server object, one level too
  high, breaks `WatchdogAsConfigured`. `from_json` makes this very mistake
  for `chat.message`.
- `StopEffect` without the watchdog interrupt breaks `DestructorReturns`:
  the destructor waits on a watchdog that sleeps forever.

## 4. Not modelled, and why

| Item | Reason |
|---|---|
| What `m_server->stop()` does to pending completion handlers | Decided by the transport library, which is not in this repository. All state is in memory and ends with the process, so there is no recovery to check. |
| The setters and listener registration of the service | They store configuration before `runService`; their values are the modules' constants. |
| `getStats`, the counters' contents | `getStats` returns the map and has no caller here. The counter methods are in a class outside `src/`. |
| The payload-based `redeliverMessagesTo` and `getUndeliveredMessages` overloads | There is no caller in this file. |
| The settings' text (addresses, sizes, paths) and the other modules' use of them | Strings and numbers are one token. The router's and the frame buffer's settings stay constants of those modules. |
| Logging and `getThreadName` | Left out. |
| Authentication and payload validity | Free choices, because their code is not in this repository. |
| Type invariants | `TypeOK`, `WdTypeOK`, `FbTypeOK` and `StatTypeOK` describe the state of each module. They are not run properties: only the model's own bounds could break them. |
| An abstract delivery specification | A mailbox of letters, pending and delivered, with the router mapped onto it, adds nothing to `NoLoss`: the routed set only grows and a delivery is one step. The properties the spec states beyond that, per-sender order and drain-before-deliver, fail (`router_order`). |
| The size limit on its own | `End` compares the whole reassembled length with `m_maxMessageSize`; a property about it restates that comparison. |
| Properties not among the runs | Removal of dead connections of inactive users, the frame buffer's lifetime, and reassembly with concurrent connections of one user all fail in the model. They are listed as hazards in `PROJECT.json`, each with a note. |

**Observations without a run.**

- `from_json` reads `maxSize` and `enableDeliveryStatus` from the `chat`
  object (lines 111-112). spec.md's schema puts them under `chat.message`,
  so a document laid out as documented leaves both at their defaults.
  `Settings` models this: after the third document of `MCDocs`, the `maxSize`
  setting still holds its default.
- `ChatServer.cpp` reads `chat.message.enableSendBack` and
  `ignoreTypesSendBack` (lines 241-243), which this `Settings.hpp` does not
  declare. The two files are not from the same revision. The router keeps
  those settings as the constants `EnableSendBack` and `IgnoreTypesSendBack`.

Later work:

- larger watchdog instances;
- a composition of `FrameBuffer` with the router's `Receive`;
- an unbounded-queue resource property.

# Formal verification of the TFTP programs

TLA+ models of the event-driven TFTP server in `src/src/tftp` and of the
threaded client and server in `src/legacy`, the TLC configurations that check
them on small instances, and proofs, checked by TLAPS, for every size of the
pools, every set of files and every number of clients.

    tlc -workers 2 -config server_core.cfg MCTftpServer     # one run
    tlapm TftpServer_proofs.tla                             # one module's proofs

Source paths below are relative to `src/`; `src/tftp/...` is the current
program, `legacy/...` the threaded programs it replaces.

## 1. Inventory

The repository holds the modules of an event-driven server and the older,
threaded client and server. `main.c` and `tftp_config.h`, which the build
names, are not in it. The number of transfer contexts is known only from the
README (8) and that of reactor entries not at all (`tftp_app_init` asks for 16);
how the application's calls are ordered is left to `tftp_app.h`. The proofs
hold for every value, and for every order.

| Component | State | Operations | Correct when |
|---|---|---|---|
| **server** `server/` | its transport, initialised/started flags | `start`, `stop`, the handler of the listening socket | a request is either served, with everything it needs, or leaves no trace |
| **transfer** `transfer/` | pool of contexts: peer, file name, block number, expected block, final flag, protocol state, its file and transport | `acquire`, `start`, `process`, `handle_event`, `abort`, `release`, the handler of its own socket | one peer, one file, one socket; blocks in order; exactly what was taken is given back |
| **reactor** `reactor/` | table of (descriptor, events, handler, context) | `register`, `unregister`, `run_once`, `run`, `stop` | only live contexts are called, no socket is starved |
| **udp transport** `transport/` | pool of two: in use, open, descriptor | `acquire`, `init`, `open`, `bind`, `send`, `receive`, `close`, `release` | a descriptor has one owner, is closed once |
| **file** `file/` | pool: in use, open, mode, `FILE *` | `open`, `read`, `write`, `close`, `release` | one reader per context, position in step with the block number |
| **packet** `packet/` | none | parse a datagram; build DATA, ACK, ERROR | exactly the well-formed requests are accepted; a packet is built exactly when it fits, and reads back |
| **timer** `timer/` | pool: running, expired, deadline, retries | `acquire`, `init`, `start`, `stop`, `expire`, `retry`, `deinit`, `release` | to its holder a timer is an alarm of its own: rings once, never early, a bounded number of times |
| **app** `app/` | one instance, running flag | `acquire`, `init`, `start`, `run`, `stop`, `deinit`, `release` | can be started again, and no lifetime disturbs what another left |
| **client** `client/` | flags | a lifecycle without any request | - |
| **error** `error/` | none | names of status values | - |
| **legacy** `legacy/` | blocking client; main loop and one thread per request, all on one socket | RRQ and WRQ transfers, retransmission after a receive timeout | file received = file sent; what is acknowledged is stored; threads end |

**Interaction.** There is one thread. `tftp_app_run` calls `reactor_run`,
which polls the registered descriptors and calls the handler of each that is
ready; a handler runs to its end. The server's handler receives a datagram
from the listening socket, acquires a transfer and calls
`tftp_transfer_process`, which acquires a transport (a socket on an ephemeral
port), a file, opens it, registers the socket with the reactor *while the
reactor is in its dispatch loop*, and sends the first block. A transfer's handler
receives acknowledgements from its socket, sends the next block, or cleans up,
which unregisters its socket, *again from within the dispatch loop*.
Between any two handlers the kernel queues datagrams and socket errors.

The legacy server is concurrent in another way: its main loop starts a thread
for each request, and the main loop and all threads call `recvfrom` on the same
socket. Which of them gets a datagram is up to the kernel.

**What is hard here.**

1. *The registration table changes while it is iterated.* `reactor_run_once`
   fills an array of `pollfd`s, polls, and then walks up to the number of
   registrations *of the moment*. A handler that unregisters moves later
   entries down, so that the event read at an index is another descriptor's;
   one that registers makes the loop read `revents` beyond the entries it filled.
2. *Seven steps, each of which may fail*, with the transport, file and
   registration of the steps before to give back in the right order
   (unregister looks the descriptor up in the transport, so it must come first).
3. *Two transports for eight contexts*, one of them the listening socket's: a
   request that finds none free has already taken a context, to be given back.
4. *Lifetimes*: a teardown tells no transfer, and what it leaves behind holds
   its context, file and transport beside those of every later lifetime.
5. *The network*: duplicated, delayed or lost acknowledgements, datagrams of
   other endpoints, a client that goes away.
6. *Block numbers wrap* at 16 bits while the file position does not, and a
   file of a multiple of 512 bytes needs an empty last block.
7. *Stopping, starting and an interrupted poll with transfers alive.*
8. *One socket for many threads* (legacy): a thread may get an acknowledgement
   or a block meant for another, takes over its sender's address, and what the
   main loop gets in between is thrown away.
9. *Timers that are reused*: a timer is released with its flags, deadline and
   limit as they are.
10. *Packets at their bounds*: names, messages and buffers that just fit.

`PROJECT.json` lists these hazards at their lines.

## 2. Modules

| Module | Models |
|---|---|
| `TftpServer` | server, transfers, files, transports, the reactor's table and its loop, the kernel's queues: everything one thread does between two datagrams |
| `TftpApp` | the application around `TftpServer`: its seven calls, in any order, over any number of lifetimes |
| `RrqSystem` | `TftpServer` among its clients: each runs the legacy client's download, over a network that loses, delays, reorders and duplicates |
| `FileDownload` | abstract: what a read request promises its client |
| `LegacyThreads` | the legacy server, its main loop and its threads on one socket, with the legacy client's downloads and uploads and the network between them |
| `LegacyBlock` | how the legacy programs read a block number from two signed bytes; used by `RrqSystem` and `LegacyThreads` |
| `TftpTimer` | the pool of timers and every call on it, by any number of callers, with a clock |
| `Alarm` | abstract: what a timer promises the one who holds it |
| `TftpPacket` | the parser and the builders, byte by byte |
| `MCTftpServer`, `MCTftpApp`, `MCRrqSystem`, `MCLegacyThreads`, `MCTftpTimer`, `MCTftpPacket` | the sets, files and packets of the small instances, the symmetry |
| `TftpServer_proofs` | the inductive invariant and the theorems about ownership and registrations |
| `TftpBlocks_proofs` | the arithmetic of block numbers |
| `TftpTransfers_proofs` | what changes a transfer, and what it sends |
| `TftpApp_proofs` | the application around the server |
| `RrqSystem_proofs` | the server among its clients, and that the system implements `FileDownload` |
| `TftpTimer_proofs` | the timers, and that they implement `Alarm` |
| `LegacyThreads_proofs` | that the legacy server drops nothing it acknowledged, and serves a client that is alone intact |
| `TftpPacket_proofs` | which datagrams are accepted, when packets are built, and that they read back |

`TftpApp` and `RrqSystem` extend `TftpServer` and reuse its actions unchanged.
That the datagrams of real clients are within what `TftpServer!Spec` expects of its
environment is the property `ImplementsServer` of `RrqSystem`, checked and proved,
so every safety theorem of the server holds among its clients. An application that
empties the reactor's table behind live transfers is *not* within it: which of its
calls are steps of the server is the property `ServerUnlessForgotten`, and what holds
in spite of the others is proved anew (section 4).

### How the state corresponds to the code

`res` is one record of the program's objects; each pool is a function on its
slots, numbered from 1, and 0 is the null pointer.

| Field or variable | Code |
|---|---|
| `res.transfer[s]` | `g_transfers[s-1]`: `in_use`, `registered`, `state`, `block_number`, `expected_block`, `final_data_sent`, peer, file name, `file`, `transport` |
| `res.file[f]` | file pool: `in_use`, open or not, which file, how many 512-byte reads were made |
| `res.transport[t]` | `g_transport_pool[t-1]`: used, descriptor |
| `res.regs` | `registrations[0 .. registration_count-1]`; the context is a transfer's slot, or 0 for the server |
| `res.server` | the server's `transport` (null: not started) |
| `phase`, `next`, `ready` | where the reactor is: not running, about to poll, or in the dispatch loop at index `next` with the `revents` of the last poll in `ready` |
| `rxq`, `broken` | the kernel: queued datagrams and pending errors, per descriptor |
| `sent` | what the last step handed to `sendto` (observation only; `RrqSystem` puts it in flight) |
| `app` (`TftpApp`) | `g_app_in_use`, and `initialized` and `running` of `g_app` |
| `client[c]` (`RrqSystem`) | the locals of the client's `handle_rrq`: file name, `expected_block`, what was written, and how the loop ended |
| `net`, `copies` (`RrqSystem`) | datagrams in flight and how many were duplicated |
| `worker[w]` (`LegacyThreads`) | a thread: the locals of `handle_rrq` or `handle_wrq` in `TFTP_Server.c` (`peer` is `client_addr`, `block` the number sent or waited for, `pos` the position of the `FILE *`, `retries`); `created` between `pthread_create` and the function's first statement |
| `client[c]` (`LegacyThreads`) | a run of `TFTP_Client.c`: its operation, the block it waits for, what it wrote, how it ended |
| `disk[c]` | the server's file of the name that client `c` uploads, block by block |
| `timer[s]`, `handle[h]`, `now` (`TftpTimer`) | `g_timer_pool[s]`; the pointer caller `h` holds; the monotonic clock |
| `bytes`, `status` (`TftpPacket`) | the datagram a call reads or has written, and the status it returned |
| `request`, `room` | the caller's opcode and `tftp_request_t`; the size of the caller's buffer |
| `asked` | what the last call was to build a packet of (observation only) |

Each C operation that changes objects is an operator from such a record to the
next one (`Register`, `Unregister`, `OpenFile`, `SendNextData`, `CleanUp`, ...),
so an action reads as the sequence of calls its handler makes. One action is
one whole handler call with one outcome: `RequestServed` and the five ways a
request fails half-way (`RequestGetsNoSocket` ... `FirstDataFails`),
`AckAdvances`, `TransferCompletes`, `TransferRejects`, `NextDataFails`,
`TransferMarkedFailed`. A failing action still makes all the calls,
undone by `CleanUp` as in the code: that the result is the state before is a theorem, not
the way the action is written.

The loop is finer: `Poll`, one step per index (`SkipIdle` or a handler, with
`Advance`), `EndPass`. `Reported` is the heart of it: within the polled
entries the stored events *of that index*, beyond them any events at all, since
the array is an uninitialised local. Datagrams may arrive between any two steps.

### What is abstracted

* A datagram is a read request with a name, an acknowledgement with a block
  number, or anything else. `tftp_server.c` and `tftp_transfer.c` treat all the
  rest alike: malformed, wrong opcode, `netascii` mode, WRQ.
* A file is its number of full 512-byte blocks; a final shorter (possibly
  empty) block always follows.
* `sent` holds the file part a DATA packet carries, which the wire does not
  show, so that a property can say that it is the right one.
* `FileBlocks`, `Names` and `ValidNames` separate stored names, names that are
  acceptable but absent, and names that `transfer_filename_valid` refuses.
* Failures of the operating system (`socket`, `bind`, `fopen`, `fread`,
  `sendto`, `poll`) happen at any time when `OsMayFail`, pending socket errors
  when `SocketErrors`. `socket` failing leaves a transport acquired but closed.
* Ephemeral ports are unique and a closed socket's queue is lost.
* The application's calls are made between two runs of the reactor. A signal
  handler that called `tftp_app_stop` during a run would be in `main.c`, which
  is missing.
* A legacy client is one run of the program: one operation. Its own system
  calls do not fail, nor do those of the legacy server, but for `fopen` and
  `pthread_create`. A downloading client accepts a datagram from any port, as
  `handle_rrq` does, and answers the port it came from.
* In `LegacyThreads` a datagram in flight and one in a socket's queue are the
  same thing: the network may deliver in any order, so any thread may receive any
  datagram addressed to the server. `try` tells a retransmitted block from
  the first, so that both can be under way; it is no part of the packet. Clients
  upload under names of their own.
* `TftpTimer` has one handle per caller; a caller that needs two is two callers.
  Null and foreign pointers, which every function refuses, are left out.
* `TftpPacket` leaves out null arguments. Scans for a NUL are operators that say
  where the loop stops. Callers bring buffers of several sizes, since the builders
  check a size they are given; the two calls in `tftp_transfer.c` bring one of
  516 bytes, which a block just fits.

The early return of a handler that does not own its descriptor is in
`HandlerReturns` (first disjunct) although it is never taken: `DispatchSafe`
shows that.

## 3. What the runs check

Bounds: `QueueCap` (datagrams per socket) bounds the kernel's queue, `MaxCopies`
the duplicated datagrams, `MaxNow` the clock; the sizes of the pools, peers, threads
and files are constants. All are set in the `.cfg` files.

| Run | Instance | Shows |
|---|---|---|
| `server_core` | 3 contexts but 2 files, 4 transports, 3 registrations, 2 peers, block numbers modulo 2 | no failures: `TypeOK`, `Ownership`, `DispatchSafe`, `BlockTracksFile`, `Isolation`, `DataInOrder` |
| `server_faults` | 2 contexts, 3 transports, a table of 2, 1 peer, queues of 2; every system call may fail, sockets have pending errors | `Ownership`, `DispatchSafe`, `Isolation`, `RefusalLeavesNoTrace`: what a failing step leaves is given back, a transfer marked failed keeps socket and registration together |
| `server_liveness` | 2 contexts, 1 peer, no pending socket errors, fair | `SocketsServed`: no socket is starved by entries that shift |
| `app_restarts` | 3 contexts, files and transports, a table of 2, failing system calls; the application tears down whenever it likes | `LifecycleInStep`, `StartHasRoom`, `NoStaleRegistration`, `Ownership`, `Isolation`, `OnlyTeardownForgets`, `ServerUnlessForgotten`, `RefusalLeavesNoTrace` |
| `rrq` | 2 clients of one file of 3 blocks, 2 contexts, 1 duplicated datagram, any number lost, any order | `OneBlockOutstanding`, `ImplementsDownload`, `CompletionDelivered`, `ImplementsServer` |
| `legacy_threads` | 2 clients, 2 threads, files of 2 blocks, 1 retry, 1 duplicated datagram, any number lost, any order | `AloneIntact`, `AcknowledgedIsStored`, `WorkersEnd` |
| `timers` | 3 callers, 2 timers, 2 settings (one allows no retry), a clock of 4 readings | `TypeOK`, `Exclusive`, `TimersAreAlarms` |
| `packets` | every packet with an opcode of 0 to 6, or one with a high byte, and up to 7 further bytes of 4 values; names of up to 2 bytes, blocks of 2, messages of up to 3, buffers of 3 to 7 | `RequestsExact`, `BuiltReadsBack`, `BuiltWhenItFits` |
| `doc_*` | minimal instances | disagreements with the documentation (section 5) |

*Why these bounds are enough to be interesting.* Two transfers and the
listening socket are the least with which entries shift onto another live
transfer's index in the middle of a pass; one slot fewer than needed
reaches every exhaustion: of files in `server_core`, of table entries in
`server_faults`, of contexts in `server_liveness` and, with orphaned transfers,
of transports in `app_restarts`, which therefore checks `RefusalLeavesNoTrace` as
well: in `server_faults` a request gets no socket only because `socket` fails.
(With the code's own sizes only the transports can run out: of two, one is the
listening socket's.) One full block and a short one, with
block numbers modulo 2, make the number wrap within a transfer and a stale
acknowledgement collide with the one expected. Peers and descriptors are
interchangeable: the code compares them only for equality, and so does the model; symmetry is
used for safety runs only.

In `rrq` one copy is enough for a duplicated request to start a rival transfer to the
same port. Bytes have 8 values there (4 in `doc_signed_bytes`), so that the first four are
positive chars, and a block number 64; in the legacy runs they have 256. In
`legacy_threads` two clients and two threads are the least with which threads take
each other's datagrams, and a block and a shorter one with one retry bring
late, repeated and final blocks together. Two timers for three callers make the pool run
out and a timer change hands; four readings let a deadline be missed, met
and passed. In `packets` every name, mode, block and message can be empty, just fit, and be one
byte too long, each scan can meet the end of the datagram, and each kind of packet can
just fit its buffer or be one byte too long for it.

The properties, informally:

* `Ownership` - a context in use has its open file, its open and registered
  socket; a free one has nothing left; no two owners share an object; every
  object in use has an owner that will release it.
* `DispatchSafe` - the reactor's entries are the open sockets of live contexts,
  each once. Hence no handler is called for a released or reused context, in
  spite of the shifting of the table.
* `BlockTracksFile` - block number, file position and final flag agree.
* `Isolation` - a live transfer changes only on its own peer's datagram at the
  head of its own socket, or by being marked failed with all it owns intact.
* `RefusalLeavesNoTrace` - a request that is not answered with data leaves all
  pools and the table exactly as they were, whichever step failed.
* `DataInOrder` - DATA goes to the right peer from the right socket with the next
  part of the right file, in answer to the part before.
* `SocketsServed` - a socket with datagrams is received from again and again, *as long
  as no socket has a pending error*. With one, `tftp_server_udp_handler` (line 44) and
  `transfer_udp_handler` (line 451) return before `recvfrom`, which alone would clear it:
  `poll` reports the error in every pass, and nothing is received from
  that socket any more. The run has `SocketErrors = FALSE`.
* `ImplementsServer` - each step of `RrqSystem` is a step of `TftpServer` or
  leaves the server alone.
* `LifecycleInStep` - the application's flags, the server's transport, the
  reactor's phase and its table agree.
* `StartHasRoom` - a stopped server can be started again: orphaned transfers
  never take the transport and the table entry it gave back, although nothing reserves them.
  (They are taken only by requests, and requests only come through the server.)
* `NoStaleRegistration` - no registration outlives what it was made for,
  across teardown and the next lifetime.
* `OnlyTeardownForgets` - a live transfer the reactor does not know of was left behind by
  a teardown, and is as that left it; no request, failure, stop or start of a later
  lifetime loses another one.
* `ServerUnlessForgotten` - every call of the application is a step of the server alone,
  except a teardown with a registered live transfer.
* `ImplementsDownload` - a client's file is always a prefix of the one it asked
  for, and the client says it is complete only with all of it.
* `OneBlockOutstanding` - no transfer, of however many rivals, is more than
  one block ahead of what its client has written.
* `CompletionDelivered` - a transfer the server ends as successful is one whose
  client has the whole file.
* `AloneIntact` - a client that is the only one, and of which no datagram comes
  twice, is served whatever is lost and sent again: what it wrote is the file
  from its beginning, and "complete" is said of a whole file, in both directions.
  It claims nothing once another client starts or a datagram is duplicated:
  what then goes wrong is in section 5.
* `AcknowledgedIsStored` - with several uploads at once threads may write each other's
  blocks, but a block whose acknowledgement its client went on from is on the
  server's disk, at its position, in the file of some client.
* `WorkersEnd` - every thread ends, whatever its client does.
* `Exclusive` - the timers in use are those somebody holds, each by one caller.
* `TimersAreAlarms` - each caller's timer is an alarm of its own (`Alarm`): set, rung
  or cancelled only by its holder, not before its time, once per setting, and
  retried within its limit, whatever its holder before left in it.
* `RequestsExact` - a datagram is accepted as a request if and only if it can be written as
  opcode, name, NUL, mode, NUL; and then the caller has that name, and nothing of a
  datagram that is refused.
* `BuiltReadsBack` - the parser finds in a built packet what it was built of.
* `BuiltWhenItFits` - a packet is built if and only if the buffer has room for all of it,
  an error message's NUL included: no buffer is overrun, and one that is just
  large enough will do. The lengths a builder checks (`DataLength`, `ErrorLength`) are
  defined apart from the bytes it writes, as in the code.

**Fairness.** Weak fairness of `Reactor`, the one thread that runs the loop,
and of `ServerStart` and `ReactorRun`, which the application calls in turn.
`ServerStop` and failures are not fair, and nothing is assumed of the network
or the clients. That a single weak fairness condition on the whole loop is
enough for every socket is what `SocketsServed` shows: a skipped entry
is reached in a later pass.

In `LegacyThreads` each thread is weakly fair: a created thread is scheduled,
and `SO_RCVTIMEO` makes its `recvfrom` return after two seconds with or without
a datagram. A thread that is never sent anything still times out, which is
all `WorkersEnd` needs; the main loop, the clients and the network are not fair. It
also needs that datagrams are finitely many, since any of them clears a writing thread's
count of timeouts: a client makes one request, and copies are bounded.

Deadlock is checked in the runs of the server, the application and the packets: a
reactor with nothing to do can always receive a datagram, and a full queue is
always read. It is not in `rrq`, `legacy_threads`, `doc_legacy` and
`doc_signed_bytes`, where the system really stops: the clients have ended, or
wait for a lost datagram, nothing is in flight, and nobody has a timeout; nor in
`timers`, where nobody need call anything once the clock has reached its bound.

## 4. What is proved

Under the assumptions stated in the modules: pools of any positive size, any
block modulus, any files whose names are valid, descriptors distinct from `None`,
failures allowed or not; any number of clients, threads, callers and settings;
bytes with any number of values. For packets: every input, payload and message is a
sequence of bytes, block numbers and error codes have two bytes, the five opcodes are
bytes (`OpcodesAreBytes`), and the mode is a nonempty word without a NUL
(`ModeIsAWord`). No theorem bounds the length of a file or of a datagram.

Every safety invariant and every action property of the passing runs, both
refinements of an abstract specification included, has its theorem.

| Theorem | Module | Statement |
|---|---|---|
| `TypeCorrect` | `TftpServer_proofs` | `Spec => []TypeOK` |
| `OwnershipHolds` | | `Spec => []Ownership` |
| `DispatchIsSafe` | | `Spec => []DispatchSafe` |
| `RefusalsUndone` | | `Spec => RefusalLeavesNoTrace` |
| `BlocksStayInStep` | `TftpBlocks_proofs` | `Spec => []BlockTracksFile` |
| `TransfersIsolated` | `TftpTransfers_proofs` | `Spec => Isolation` |
| `DataStaysInOrder` | | `Spec => DataInOrder` |
| `NoStaleContext` | `TftpApp_proofs` | `AppSpec => []NoStaleRegistration` |
| `OwnershipOutlives` | | `AppSpec => []Ownership` |
| `FlagsInStep` | | `AppSpec => []LifecycleInStep` |
| `CanStartAgain` | | `AppSpec => []StartHasRoom` |
| `IsolationOutlives` | | `AppSpec => Isolation` |
| `OnlyTeardownLosesTransfers` | | `AppSpec => OnlyTeardownForgets` |
| `CallsAreServerSteps` | | `AppSpec => ServerUnlessForgotten` |
| `RefusalsUndoneAgain` | | `AppSpec => RefusalLeavesNoTrace` |
| `SystemImplementsServer` | `RrqSystem_proofs` | `SysSpec => ImplementsServer` |
| `SystemOwnership` | | `SysSpec => [](Ownership /\ DispatchSafe)` |
| `SystemImplementsDownload` | | `SysSpec => ImplementsDownload` |
| `NoMoreThanOneBlock` | | `SysSpec => []OneBlockOutstanding` |
| `CompletedIsDelivered` | | `SysSpec => CompletionDelivered` |
| `TimersTyped` | `TftpTimer_proofs` | `Spec => []TypeOK` |
| `TimersExclusive` | | `Spec => []Exclusive` |
| `PoolImplementsAlarms` | | `~ClockMayFail /\ Spec => TimersAreAlarms` |
| `NothingAcknowledgedLost` | `LegacyThreads_proofs` | `Spec => []AcknowledgedIsStored` |
| `AloneIsIntact` | | `Spec => []AloneIntact` |
| `AcceptsExactlyRequests` | `TftpPacket_proofs` | `Spec => []RequestsExact` |
| `WhatIsBuiltReadsBack` | | `Spec => []BuiltReadsBack` |
| `BuildersFillTheirBuffers` | | `Spec => []BuiltWhenItFits` |

**The server.** The invariant is `Inv(Lost)`: `TypeOK` with `WholeOrFree`,
`NothingShared`, `NothingLeaks`, `TableExact(res, Lost)` and `Resumable` of
`res`. `TableExact` says that the registrations are those of the server and of live
transfers, each descriptor once, and that every live transfer *outside `Lost`* has
its own. The set `Lost` is what makes one proof do for two callers: of the
server alone no transfer loses its registration, and `IInv` is `Inv({})`; under an
application that tears down whenever it likes any may, and `AnyInv` has
`Inv(TransferSlots)`. None of the parts is inductive alone. To release one transfer's
socket without closing another's needs `NothingShared`; to know that
`Unregister`, which removes the *first* entry with a descriptor, removes the
transfer's own entry needs `TableExact`; and that a transfer whose handler runs
is whole needs `WholeOrFree`.

The argument follows the code. A request is a chain of five steps: start,
transport, file, open, register. `CleanUp` after any prefix of the chain is the
identity (`StartUndone`, `ConnectUndone`, `PrepareUndone`,
`RegisteredIsGivenBack`), so every failed request leaves `res` as it was, which
is `RefusalsUndone`, and the invariant is trivially kept. The whole chain keeps
`Good` (`RequestGood`), as do releasing a live transfer (`CleanUpGood`), sending
the next block (`SendNextGood`), marking it failed (`AbortGood`), and starting
and stopping the server (`ServerStartGood`, `ServerStopGood`). The loop variables
need only their types: what the reactor reads at a stale index is irrelevant to
safety, because descriptor and context are read from the current table, and the
proof makes that precise.

`BlocksStayInStep` adds the relation of block number, expected block and position of
each live transfer: the number after `k` sent blocks is `k % BlockMod`, which
`SendNextData` and the wrap preserve for any modulus, and a step for one transfer
leaves the others' files alone.

`TransfersIsolated` goes through the calls once more with a weaker question: what
of the *others* is the same afterwards (`OthersKept`). It is proved for any `Lost`
(`StepIsolates`), so that `IsolationOutlives` gets it for the application's
steps too. `DataStaysInOrder` follows from `BlocksStayInStep`: only two actions send
DATA, and in both the packet carries the part just read.

**The application.** Whatever its caller does, a stopped server has left a transport
and a table entry that only it can take again (`CanStartAgain`): requests
come in through a running server, so transfers that outlive it take no more. What
it needs is that stopping makes the table one shorter and frees a transport
(`StopGivesBack`).

A teardown empties the table and tells no transfer, so `AppSpec` does not implement `Spec`,
and nothing is assumed of the caller that would make it. The
two theorems say how far it goes, for orphans and all. `OnlyTeardownLosesTransfers`
takes as `Lost` the live transfers that are not registered at the moment (`Orphans`):
`OrphansApart` turns the invariant for any `Lost` into the one for exactly those,
and the lemmas about each step, which keep `TableExact(res, Lost)` for every `Lost`,
say that the step adds none; that it leaves them as they are is
`IsolationOutlives`'s argument, since only a handler they no longer have would touch them
(`UnheardKept`). `CallsAreServerSteps` maps each call to a step of the
server or a stutter. The difficult one is a teardown that has no transfer to forget:
emptying the whole table must be what `tftp_server_stop` alone would have done, and is,
because then `TableExact` leaves at most the server's own entry (`TearDownIsServerStop`),
whatever orphans there are. `RefusalsUndoneAgain` is `RefusalUndone`, which is
proved for any `Lost`: the pool that is used up by orphans is no different from one
used up by live transfers.

**The clients.** `SystemImplementsServer`: each acknowledgement and request the clients
put in flight must be one the server's environment may deliver. Its invariant
types what is in flight and says that a DATA packet carries the descriptor of a
socket, so that the port answered is never the well-known one.

**The downloads.** That a client writes its own file in order is true of no part of the
system alone: it depends on what is in flight. `SysInv` therefore says of each thing what
it tells about a client. A DATA packet on its way is a part of the file its client asked
for, at most the next one (`Due`); an acknowledgement on its way, or queued at a
socket, is of a block the client has taken, and a request is of a client that asked
(`Honest`); a live transfer has read at most one part more than its client has written
(`NotAhead`); a client has the beginning of its file (`InOrder`). All of it is
monotone in what a client has, which is why loss, duplication and reordering cannot
disturb it, and why rival transfers to one port do no harm: each is a transfer of
the same file.

An acknowledgement delayed by exactly one wrap of the block numbers would be taken for a
new one, and one expects the theorem to need files shorter than the wrap. It
does not, and the reason is the hazard of `doc_signed_bytes`: the client reads a
block number with the high bit of either byte set as a smaller or negative one, never
accepts it, and so never writes as many blocks as would let a number come round
(`DecodedExactly`; the last conjunct of `InOrder` is `2 * got < BlockMod`). A longer file is not downloaded
at all, which is a flaw, but never downloaded wrongly. A client that read the
bytes as unsigned would need the bound, or one on delays.

`NoMoreThanOneBlock` is `NotAhead` in the words of the property. For
`CompletedIsDelivered`, the acknowledgement of the final block is of a number the client
has taken, and among those so few blocks the numbers are distinct.
`SystemImplementsDownload` maps each step to one of `FileDownload`: a client asks, writes the next
part, is refused; all others are stutters.

**The timers.** `IInv` is `TypeOK /\ Exclusive`. Each call maps to the operation of
`Alarm` of the same purpose, or to a stutter; that a write through one handle leaves the
other alarms alone is `Exclusive`. `~ClockMayFail` is necessary: a clock
that fails reads as 0, and a timer set then rings at once.

**The legacy threads.** `AcknowledgedIsStored` is far from inductive: the client
goes on because of a datagram, which was sent because of a write by a thread that may
serve somebody else. Its invariant calls a position of a file *settled* when
no thread will write to it again (no request for the file is on its way, and its thread, if any, is
past the position), and the blocks at settled positions *kept*. It says that each
client's acknowledged blocks are kept, and that an acknowledgement on its way to a
client is of block 0 or of a position where a block this client has reached is kept. Most steps
write nothing, and `Harmless` and one lemma do for all of them. A block number of
more than two bytes, or with a high bit set, is read back wrongly; what saves the
theorem for files of any length is `DecodeAtMost`: it is never read back greater than it
was, so a wrong number is at worst not waited for. The property is about runs without duplicates
(`copies = 0`), and so is the invariant: `copies \in Nat /\ (copies = 0 => Core)`.

**A legacy client that is alone.** `AloneIntact` is not inductive either: it does not
say what the datagrams under way or the threads know. `Solo` does: either the client has asked
for nothing and nothing is under way; or its one request is on its way, and
nothing else has happened; or one thread works for it, and client and thread are at
most one block apart, with every datagram under way a part of the file already
sent, or the acknowledgement of a block already taken; or the thread has ended.
Two facts of the code carry the proof. The thread sends the next chunk under the old number when
a datagram is not the acknowledgement it waits for; alone, and without duplicates, each
block is acknowledged once at most, since the client drops a repeated block silently, so
no old acknowledgement can come after the thread has gone on (`ServedPacket`). And an upload's
loop breaks off and reports completion on an unexpected acknowledgement;
alone, an acknowledgement that is under way excludes a block that is, so it is the one waited for
(`UploadPacket`). Other clients may still start at any later time: from then on
the property claims nothing, and `AInv` is `IInv` with `Alone(c) => Solo(c)`.

**The packets.** Two scans for a NUL decide where a request's strings end. `NextNul` is
a `CHOOSE`, so each scan needs that there is a place where it stops (`NextNulEnds`) and
that there is only one (`NextNulIs`); the first is the least-number principle, which the
library's well-founded induction over the naturals gives. `WrittenIsAccepted` then follows the code
through a datagram written as opcode, name, NUL, mode, NUL, and `AcceptedIsWritten`
takes an accepted one apart again, byte by byte. That a built packet reads
back is one division and its inverse, for the two bytes of a number, and for an error
message that its last byte is the NUL. That the length a builder checks is that of what it
writes is `WritesKeeps`, one lemma for the three of them. The invariant has one
conjunct per outcome of a call, so that a refused datagram is told from a built packet.

**Model-checked only.** `SocketsServed` and `WorkersEnd` are liveness, out of the
prover's reach: the fairness that they need is a statement about `ENABLED`. The four
`doc_*` runs exhibit counterexamples and have nothing to prove.

## 5. Disagreements with the documentation

Four runs state what the repository's README, or a message of the program, says,
and exhibit a behaviour of the code that differs.

* `doc_error_events` - hazard 1 above: the handler of a new transfer is called
  with an error that no socket has, and the transfer is marked failed.
  It keeps its socket and its slot until its peer sends a datagram.
* `doc_release` - README 1608 says that every transfer eventually ends and
  releases what it holds. Nothing starts a timer, so one lost acknowledgement keeps the
  transfer for ever. Fairness of the reactor is assumed; a silent network is
  an ordinary behaviour of UDP.
* `doc_legacy` - README 816 says that a duplicate acknowledgement must not advance a
  transfer incorrectly. The legacy server's loop, on anything but a timeout, reads
  the next chunk, and only an expected acknowledgement changes the block number. So after a
  duplicate the next chunk goes out under the number of the one before, the client drops it, and
  prints "File download complete." for a file that lacks it. (Two whole
  blocks, one duplicate and a reordering; a longer file needs no reordering.)
* `doc_signed_bytes` - README 720 shows blocks and acknowledgements in turn. The
  legacy client builds the block number from two `char`s; where they are
  signed, block 128 is read as -128, is dropped, and both sides wait for ever.
  (With bytes of 4 values it is block 2.)

Without a run of their own:

* README 672 says a duplicate acknowledgement is ignored. In the current
  server `transfer_handle_event` returns `TFTP_ERR_INVALID_BLOCK` for it and the
  handler aborts and releases the transfer (`TransferRejects`).
* README 1608 again: `tftp_app_deinit` clears the reactor's table and tells no
  transfer; context, file, transport and socket stay in use, unreachable, in every later
  lifetime. `app_restarts` goes through such lifetimes, and `TftpApp`'s
  theorems say what holds in spite of it.
* README 820 says that a packet of an unexpected sender must not corrupt a transfer. A
  thread of the legacy server receives into the address it sends to, on the socket of
  all threads: after one datagram of another client its file goes to that client.
  Loss, copies and timeouts are not needed: the datagram may be that
  client's own request, and what it then writes and calls complete is the end of the
  file that the other one asked for. (`doc_legacy` with `Clients <- TwoClients`, `Full = 1`
  and `MaxCopies = 0` violates `DownloadCompleteIsWhole` in this way.)
* The legacy client prints "File upload complete." (`TFTP_Client.c` 151) whenever its
  upload loop ends, also when it breaks off on a datagram other than the acknowledgement
  it waits for. The second copy of the acknowledgement of block 0 is one: the client stops
  after its first block. This is `UploadEnds`, and why `AloneIntact` is about runs
  without duplicates.
* README 1224 promises eight simultaneous transfers, while its own table, just
  above, and the code have two transport objects, one of them for the listening
  socket. The second request is refused, silently; that it is refused without a
  trace is `RefusalLeavesNoTrace`.

## 6. Not modelled, and why

* **error**: tables of names. **client** (`client/tftp_client.c`): a lifecycle
  that sends nothing. **tests/**: exercises on unrelated functions; the text files
  are samples. **main.c, tftp_config.h**: not in the repository.
* **older legacy variants**: earlier stages of the legacy pair (an echo over UDP,
  uploads alone, both operations without threads), superseded by it.
* `reactor_stop` during a run: only a signal handler or another thread could
  call it, and none is in the repository.
* Writing files and WRQ in the current program: no caller.
* A clock that fails: `TftpTimer` has it (`ClockMayFail`), and `TimersExclusive` holds with it;
  no run sets it, since `clock_gettime(CLOCK_MONOTONIC)` does not fail where the program runs.
* In `LegacyThreads`: a failing `malloc`, errors of `recvfrom` other than the timeout, and two
  clients that upload under one name.

## 7. Plan

The plan this project started from is done: the core (`TftpServer`), the application
for any caller, downloads among clients, the timers, the packets, the
legacy threads, and a theorem for every safety property. What could follow:

1. Type invariants of the compositions (`TftpApp`, `RrqSystem`, `LegacyThreads`) as
   properties of their own; parts of them are in the inductive invariants.
2. An abstract specification of the legacy server, a register per file name, and under
   which conditions (one client, distinct names, no duplicates) it is implemented.
3. Once the program starts its timers: `TftpServer` composed with `TftpTimer`, retransmission
   as an action, and `EveryTransferReleased` as a property that should hold.

----------------------------- MODULE TftpServer -----------------------------
(***************************************************************************)
(* The event-driven TFTP server: one process runs the reactor loop, which  *)
(* calls the server's handler (a request on the listening socket starts a  *)
(* transfer) and the transfers' handlers (an acknowledgement on a          *)
(* transfer's own socket advances it).  Server, transfers, files, UDP      *)
(* transports and reactor registrations live in fixed pools; a handler     *)
(* runs to its end before the loop goes on, while datagrams and socket     *)
(* errors arrive between any two handlers.                                 *)
(*                                                                         *)
(* The C objects are the fields of one record, res, and each C operation   *)
(* that changes them is an operator from such a record to the next one, so *)
(* that an action reads as the sequence of calls its handler makes.        *)
(***************************************************************************)
EXTENDS Integers, Sequences, FiniteSets, SequencesExt

CONSTANTS
    MaxTransfers,       \* TFTP_MAX_TRANSFERS: transfer contexts
    FilePoolSize,       \* file contexts (TFTP_MAX_TRANSFERS in the code)
    TransportPoolSize,  \* UDP_TRANSPORT_POOL_SIZE
    MaxHandlers,        \* the reactor's max_handlers
    BlockMod,           \* block numbers are uint16_t: 65536
    QueueCap,           \* bound: datagrams a socket's receive buffer holds
    Fds,                \* socket descriptors the kernel hands out
    Peers,              \* client endpoints (address and port)
    Names,              \* file names a request can carry
    ValidNames,         \* those transfer_filename_valid accepts
    FileBlocks,         \* stored file -> number of full 512-byte blocks
    None,               \* no peer, name or descriptor
    OsMayFail,          \* socket, bind, fopen, fread, sendto and poll may fail
    SocketErrors        \* a socket may have a pending error (POLLERR)

ASSUME PoolSizes ==
    /\ MaxTransfers \in Nat \ {0}
    /\ FilePoolSize \in Nat \ {0}
    /\ TransportPoolSize \in Nat \ {0}
    /\ MaxHandlers \in Nat \ {0}
    /\ BlockMod \in Nat \ {0}
    /\ QueueCap \in Nat \ {0}

ASSUME Files ==
    /\ ValidNames \subseteq Names
    /\ FileBlocks \in [DOMAIN FileBlocks -> Nat]
    /\ DOMAIN FileBlocks \subseteq ValidNames

\* There is a descriptor for every transport: only the pool is ever short.
ASSUME EnoughFds == IsFiniteSet(Fds) /\ Cardinality(Fds) >= TransportPoolSize

ASSUME NoneIsFresh == None \notin Peers \cup Names \cup Fds

ASSUME Switches == OsMayFail \in BOOLEAN /\ SocketErrors \in BOOLEAN

\* Pool slots are numbered from 1; 0 is the C null pointer, and as the
\* context of a registration it is the server itself.
Null   == 0
Server == 0
TransferSlots  == 1 .. MaxTransfers
FileSlots      == 1 .. FilePoolSize
TransportSlots == 1 .. TransportPoolSize

Blocks == 0 .. BlockMod - 1
Events == {"READ", "ERROR"}

\* What can be received: a read request, an acknowledgement, and one value
\* for every other datagram (they are all rejected the same way).
Datagrams ==
    [from : Peers, kind : {"RRQ"}, arg : Names]
        \cup [from : Peers, kind : {"ACK"}, arg : Blocks]
        \cup [from : Peers, kind : {"OTHER"}, arg : {None}]

FreeTransfer ==
    [inUse |-> FALSE, registered |-> FALSE, final |-> FALSE, state |-> "IDLE",
     block |-> 0, expected |-> 0, peer |-> None, name |-> None,
     file |-> Null, transport |-> Null]
FreeFile      == [inUse |-> FALSE, open |-> FALSE, name |-> None, pos |-> 0]
FreeTransport == [used |-> FALSE, fd |-> None]

VARIABLES
    res,     \* the program's objects: pools, registrations, the server
    rxq,     \* per descriptor: datagrams the kernel holds, oldest first
    broken,  \* descriptors with a pending socket error
    phase,   \* "idle": reactor_run is not running; "poll"; "dispatch"
    next,    \* loop index i of reactor_run_once
    ready,   \* what poll() reported, by index
    sent     \* what the last step sent (at most one datagram)

vars == <<res, rxq, broken, phase, next, ready, sent>>
loop == <<phase, next, ready>>

OpenFds(r) == {r.transport[t].fd : t \in TransportSlots} \ {None}
-----------------------------------------------------------------------------
(* Operations on the objects: each maps a record res to the next one.      *)

\* First-fit search of the pools.
FirstFreeTransfer(r, s) ==
    /\ ~r.transfer[s].inUse
    /\ \A i \in 1 .. s - 1 : r.transfer[i].inUse
\* Mutant: the search does not look at in_use.
FirstFileInUseOrNot(r, f) == f = 1
FirstFreeFile(r, f) ==
    /\ ~r.file[f].inUse
    /\ \A i \in 1 .. f - 1 : r.file[i].inUse
FirstFreeTransport(r, t) ==
    /\ ~r.transport[t].used
    /\ \A i \in 1 .. t - 1 : r.transport[i].used

\* tftp_transfer_acquire, init and start of a read request.
NewTransfer(peer, name) == [FreeTransfer EXCEPT
    !.inUse = TRUE, !.state = "RRQ", !.peer = peer, !.name = name]
StartTransfer(r, s, peer, name) ==
    [r EXCEPT !.transfer[s] = NewTransfer(peer, name)]

\* udp_transport_acquire and init, then udp_transport_open (fd = None when
\* socket() fails, which leaves the object acquired but closed).
TakeTransport(r, t, fd) ==
    [r EXCEPT !.transport[t] = [used |-> TRUE, fd |-> fd]]
ReleaseTransport(r, t) == [r EXCEPT !.transport[t] = FreeTransport]

TransferTakesTransport(r, s, t, fd) ==
    [TakeTransport(r, t, fd) EXCEPT !.transfer[s].transport = t]

\* tftp_file_acquire and init, then tftp_file_open.
TransferTakesFile(r, s, f) ==
    [r EXCEPT !.file[f] = [FreeFile EXCEPT !.inUse = TRUE],
              !.transfer[s].file = f]
OpenFile(r, f, name) ==
    [r EXCEPT !.file[f].open = TRUE, !.file[f].name = name]
CloseAndReleaseFile(r, f) == [r EXCEPT !.file[f] = FreeFile]

Register(r, fd, ctx) ==
    [r EXCEPT !.regs = Append(@, [fd |-> fd, ctx |-> ctx])]

\* Mutant: the entry count goes down and the entries stay where they are.
UnregisterWithoutMoving(r, fd) ==
    IF \E i \in DOMAIN r.regs : r.regs[i].fd = fd
    THEN [r EXCEPT !.regs = Front(@)] ELSE r

\* reactor_unregister: the first entry with the descriptor goes, those
\* after it move down by one.
Unregister(r, fd) ==
    LET hits == {i \in DOMAIN r.regs : r.regs[i].fd = fd}
        first == CHOOSE i \in hits : \A j \in hits : i <= j
    IN  IF hits = {} THEN r ELSE [r EXCEPT !.regs = RemoveAt(@, first)]

RegisterTransfer(r, s) ==
    [Register(r, r.transport[r.transfer[s].transport].fd, s)
        EXCEPT !.transfer[s].registered = TRUE]

\* Mutant: the block number is not kept to 16 bits.
SendNextDataUnbounded(r, s) ==
    LET f == r.transfer[s].file
        block == r.transfer[s].block + 1
        final == r.file[f].pos >= FileBlocks[r.file[f].name]
    IN  [r EXCEPT !.file[f].pos = @ + 1,
                  !.transfer[s] = [@ EXCEPT !.block = block,
                                            !.expected = block,
                                            !.final = final,
                                            !.state = "WAIT_ACK"]]
\* Mutant: the last full block is taken for the final one.
SendNextDataEarlyFinal(r, s) ==
    LET f == r.transfer[s].file
        block == (r.transfer[s].block + 1) % BlockMod
        final == r.file[f].pos + 1 >= FileBlocks[r.file[f].name]
    IN  [r EXCEPT !.file[f].pos = @ + 1,
                  !.transfer[s] = [@ EXCEPT !.block = block,
                                            !.expected = block,
                                            !.final = final,
                                            !.state = "WAIT_ACK"]]

\* A successful transfer_send_next_data: one fread of 512 bytes (short, and
\* so final, at the end of the file), then one DATA block.
SendNextData(r, s) ==
    LET f == r.transfer[s].file
        block == (r.transfer[s].block + 1) % BlockMod
        final == r.file[f].pos >= FileBlocks[r.file[f].name]
    IN  [r EXCEPT !.file[f].pos = @ + 1,
                  !.transfer[s] = [@ EXCEPT !.block = block,
                                            !.expected = block,
                                            !.final = final,
                                            !.state = "WAIT_ACK"]]

Abort(r, s) == [r EXCEPT !.transfer[s].state = "ERROR"]

\* Mutants of CleanUp: the file is not released; the transport is not.
CleanUpKeepsFile(r, s) ==
    LET x == r.transfer[s]
        unregistered ==
            IF x.registered
            THEN Unregister(r, r.transport[x.transport].fd) ELSE r
        released ==
            IF x.transport # Null
            THEN ReleaseTransport(unregistered, x.transport) ELSE unregistered
    IN  [released EXCEPT !.transfer[s] = FreeTransfer]
CleanUpKeepsTransport(r, s) ==
    LET x == r.transfer[s]
        unregistered ==
            IF x.registered
            THEN Unregister(r, r.transport[x.transport].fd) ELSE r
        released ==
            IF x.file # Null
            THEN CloseAndReleaseFile(unregistered, x.file) ELSE unregistered
    IN  [released EXCEPT !.transfer[s] = FreeTransfer]

\* tftp_transfer_cleanup, which tftp_transfer_release calls.
CleanUp(r, s) ==
    LET x == r.transfer[s]
        unregistered ==
            IF x.registered /\ x.transport # Null
            THEN Unregister(r, r.transport[x.transport].fd) ELSE r
        fileReleased ==
            IF x.file # Null
            THEN CloseAndReleaseFile(unregistered, x.file) ELSE unregistered
        transportReleased ==
            IF x.transport # Null
            THEN ReleaseTransport(fileReleased, x.transport) ELSE fileReleased
    IN  [transportReleased EXCEPT !.transfer[s] = FreeTransfer]

\* What tftp_server_stop does to a server that has a transport.
StopServer(r) ==
    [ReleaseTransport(Unregister(r, r.transport[r.server].fd), r.server)
        EXCEPT !.server = Null]
-----------------------------------------------------------------------------
(* What is sent. *)

\* The DATA packet transfer s holds after SendNextData: chunk is the part
\* of the file it carries, which the wire does not show.
DataPacket(r, s) ==
    [fd |-> r.transport[r.transfer[s].transport].fd,
     to |-> r.transfer[s].peer,
     kind |-> "DATA",
     block |-> r.transfer[s].block,
     final |-> r.transfer[s].final,
     chunk |-> <<r.transfer[s].name, r.file[r.transfer[s].file].pos>>]

\* The "File not found" ERROR packet, from the transfer's own socket.
ErrorPacket(fd, peer) ==
    [fd |-> fd, to |-> peer, kind |-> "ERROR",
     block |-> 1, final |-> FALSE, chunk |-> <<>>]
-----------------------------------------------------------------------------
Init ==
    /\ res = [transfer  |-> [s \in TransferSlots |-> FreeTransfer],
              file      |-> [f \in FileSlots |-> FreeFile],
              transport |-> [t \in TransportSlots |-> FreeTransport],
              regs      |-> <<>>,
              server    |-> Null]
    /\ rxq = [fd \in Fds |-> <<>>]
    /\ broken = {}
    /\ phase = "idle"
    /\ next = 1
    /\ ready = <<>>
    /\ sent = {}

\* The program's objects become r.  A descriptor that is closed loses what
\* the kernel held for it.  One datagram of the descriptors in consumed has
\* been received; the pending error of those in cleared has been returned.
Becomes(r, consumed, cleared) ==
    /\ res' = r
    /\ rxq' = [fd \in Fds |->
                  IF fd \notin OpenFds(r) THEN <<>>
                  ELSE IF fd \in consumed THEN Tail(rxq[fd]) ELSE rxq[fd]]
    /\ broken' = (broken \ cleared) \cap OpenFds(r)

(* The environment: the network and the kernel. *)

Deliver(fd, d) ==
    /\ fd \in OpenFds(res)
    /\ Len(rxq[fd]) < QueueCap
    /\ rxq' = [rxq EXCEPT ![fd] = Append(@, d)]
    /\ sent' = {}
    /\ UNCHANGED <<res, broken, loop>>

SocketError(fd) ==
    /\ SocketErrors
    /\ fd \in OpenFds(res) \ broken
    /\ broken' = broken \cup {fd}
    /\ sent' = {}
    /\ UNCHANGED <<res, rxq, loop>>

(* Starting and stopping, called by the application between two runs. *)

ServerStart ==
    /\ phase = "idle" /\ res.server = Null
    /\ \E t \in TransportSlots, fd \in Fds \ OpenFds(res) :
        /\ FirstFreeTransport(res, t)
        /\ Len(res.regs) < MaxHandlers
        /\ Becomes(Register([TakeTransport(res, t, fd) EXCEPT !.server = t],
                            fd, Server), {}, {})
    /\ sent' = {}
    /\ UNCHANGED loop

ServerStop ==
    /\ phase = "idle" /\ res.server # Null
    /\ Becomes(StopServer(res), {}, {})
    /\ sent' = {}
    /\ UNCHANGED loop

ReactorRun ==
    /\ phase = "idle" /\ res.server # Null
    /\ phase' = "poll"
    /\ sent' = {}
    /\ UNCHANGED <<res, rxq, broken, next, ready>>

(* The reactor loop.  A poll() that times out changes nothing. *)

Revents(fd) ==
    (IF rxq[fd] # <<>> THEN {"READ"} ELSE {})
        \cup (IF fd \in broken THEN {"ERROR"} ELSE {})

Poll ==
    /\ phase = "poll"
    /\ \E i \in DOMAIN res.regs : Revents(res.regs[i].fd) # {}
    /\ ready' = [i \in DOMAIN res.regs |-> Revents(res.regs[i].fd)]
    /\ phase' = "dispatch"
    /\ next' = 1
    /\ sent' = {}
    /\ UNCHANGED <<res, rxq, broken>>

\* poll() interrupted by a signal: reactor_run returns an error.
PollFails ==
    /\ OsMayFail
    /\ phase = "poll"
    /\ phase' = "idle"
    /\ sent' = {}
    /\ UNCHANGED <<res, rxq, broken, next, ready>>

\* The revents the loop reads at its index: what poll() reported there, or,
\* past the entries filled before the poll, whatever the stack holds.
Reported == IF next <= Len(ready) THEN {ready[next]} ELSE SUBSET Events

\* The index is compared with the number of registrations of this moment.
AtEntry == phase = "dispatch" /\ next <= Len(res.regs)

\* Mutant: the loop steps over the entry after the one it dispatched.
AdvanceTooFar ==
    /\ next' = next + 2
    /\ UNCHANGED <<phase, ready>>
Advance ==
    /\ next' = next + 1
    /\ UNCHANGED <<phase, ready>>

SkipIdle ==
    /\ AtEntry
    /\ {} \in Reported
    /\ Advance
    /\ sent' = {}
    /\ UNCHANGED <<res, rxq, broken>>

EndPass ==
    /\ phase = "dispatch" /\ next > Len(res.regs)
    /\ phase' = "poll" /\ next' = 1 /\ ready' = <<>>
    /\ sent' = {}
    /\ UNCHANGED <<res, rxq, broken>>

\* The handler of context ctx is called with descriptor fd and events ev.
Called(ctx, fd, ev) ==
    /\ AtEntry
    /\ ev \in Reported \ {{}}
    /\ res.regs[next] = [fd |-> fd, ctx |-> ctx]

\* The handler's first checks: the transport its context holds has this fd.
OwnTransport(r, ctx) ==
    IF ctx = Server THEN r.server ELSE r.transfer[ctx].transport
Owns(r, ctx, fd) ==
    /\ OwnTransport(r, ctx) # Null
    /\ r.transport[OwnTransport(r, ctx)].fd = fd

\* Returns that change nothing: a descriptor that is not the context's, a
\* receive that would block, and the server's answer to an error event.
HandlerReturns ==
    /\ \E i \in {next} \cap DOMAIN res.regs, ev \in SUBSET Events :
        LET ctx == res.regs[i].ctx
            fd == res.regs[i].fd
        IN  /\ Called(ctx, fd, ev)
            /\ \/ ~Owns(res, ctx, fd)
               \/ ctx = Server /\ "ERROR" \in ev
               \/ "ERROR" \notin ev /\ rxq[fd] = <<>> /\ fd \notin broken
    /\ Advance
    /\ sent' = {}
    /\ UNCHANGED <<res, rxq, broken>>

\* A handler gets to recvfrom: with a pending error it returns that error.
Receives(ctx, fd) ==
    /\ Called(ctx, fd, {"READ"})
    /\ Owns(res, ctx, fd)
    /\ fd \notin broken
    /\ rxq[fd] # <<>>
ReceiveFails(ctx, fd) ==
    /\ Called(ctx, fd, {"READ"})
    /\ Owns(res, ctx, fd)
    /\ fd \in broken
-----------------------------------------------------------------------------
(* tftp_server_udp_handler *)

ServerReceiveFails(fd) ==
    /\ ReceiveFails(Server, fd)
    /\ Becomes(res, {}, {fd})
    /\ sent' = {}
    /\ Advance

\* Anything but a well-formed octet read request, and a read request whose
\* transfer cannot be acquired or whose name is refused: nothing is kept.
RequestRefused(fd) ==
    /\ Receives(Server, fd)
    /\ LET d == Head(rxq[fd])
       IN  \/ d.kind # "RRQ"
           \/ \A s \in TransferSlots : res.transfer[s].inUse
           \/ d.arg \notin ValidNames
    /\ Becomes(res, {fd}, {})
    /\ sent' = {}
    /\ Advance

\* Transfer s is started for the request at the head of the socket.
Accepts(fd, s) ==
    /\ Receives(Server, fd)
    /\ Head(rxq[fd]).kind = "RRQ"
    /\ Head(rxq[fd]).arg \in ValidNames
    /\ FirstFreeTransfer(res, s)
Started(fd, s) ==
    StartTransfer(res, s, Head(rxq[fd]).from, Head(rxq[fd]).arg)

\* Mutant: a context that was taken while no transport is left is kept.
NoTransportKeepsContext(fd, s) ==
    /\ Accepts(fd, s)
    /\ \A t \in TransportSlots : res.transport[t].used
    /\ Becomes(Started(fd, s), {fd}, {})
    /\ sent' = {}
    /\ Advance
\* tftp_transfer_process fails before it has a socket: the transport pool
\* is empty, or socket() fails on the transport it was given.
RequestGetsNoSocket(fd, s) ==
    /\ Accepts(fd, s)
    /\ \/ /\ \A t \in TransportSlots : res.transport[t].used
          /\ Becomes(CleanUp(Started(fd, s), s), {fd}, {})
       \/ /\ OsMayFail
          /\ \E t \in TransportSlots :
              /\ FirstFreeTransport(res, t)
              /\ Becomes(CleanUp(TransferTakesTransport(
                             Started(fd, s), s, t, None), s), {fd}, {})
    /\ sent' = {}
    /\ Advance

\* The transfer has socket sfd on transport t.
HasSocket(t, sfd) == FirstFreeTransport(res, t) /\ sfd \in Fds \ OpenFds(res)
WithSocket(fd, s, t, sfd) == TransferTakesTransport(Started(fd, s), s, t, sfd)

\* Mutant: the transfer is not released.
NoFileSlotNotUndone(fd, s) ==
    /\ Accepts(fd, s)
    /\ \A f \in FileSlots : res.file[f].inUse
    /\ \E t \in TransportSlots, sfd \in Fds :
        /\ HasSocket(t, sfd)
        /\ Becomes(WithSocket(fd, s, t, sfd), {fd}, {})
    /\ sent' = {}
    /\ Advance
RequestGetsNoFileSlot(fd, s) ==
    /\ Accepts(fd, s)
    /\ \A f \in FileSlots : res.file[f].inUse
    /\ \E t \in TransportSlots, sfd \in Fds :
        /\ HasSocket(t, sfd)
        /\ Becomes(CleanUp(WithSocket(fd, s, t, sfd), s), {fd}, {})
    /\ sent' = {}
    /\ Advance

\* fopen fails: the client is told, if sendto lets it be, and the transfer
\* is released.
RequestedFileNotOpened(fd, s) ==
    /\ Accepts(fd, s)
    /\ Head(rxq[fd]).arg \in DOMAIN FileBlocks => OsMayFail
    /\ \E t \in TransportSlots, sfd \in Fds, f \in FileSlots :
        /\ HasSocket(t, sfd)
        /\ FirstFreeFile(res, f)
        /\ Becomes(CleanUp(TransferTakesFile(
                       WithSocket(fd, s, t, sfd), s, f), s), {fd}, {})
        /\ \/ sent' = {ErrorPacket(sfd, Head(rxq[fd]).from)}
           \/ OsMayFail /\ sent' = {}
    /\ Advance

\* The transfer has its socket and its file, open.
HasFile(fd, s, t, sfd, f) ==
    /\ Accepts(fd, s)
    /\ HasSocket(t, sfd)
    /\ FirstFreeFile(res, f)
    /\ Head(rxq[fd]).arg \in DOMAIN FileBlocks
WithFile(fd, s, t, sfd, f) ==
    OpenFile(TransferTakesFile(WithSocket(fd, s, t, sfd), s, f),
             f, Head(rxq[fd]).arg)

\* Mutant: the transfer is not released.
NotRegisteredNotUndone(fd, s) ==
    /\ Len(res.regs) >= MaxHandlers
    /\ \E t \in TransportSlots, sfd \in Fds, f \in FileSlots :
        /\ HasFile(fd, s, t, sfd, f)
        /\ Becomes(WithFile(fd, s, t, sfd, f), {fd}, {})
    /\ sent' = {}
    /\ Advance
RequestNotRegistered(fd, s) ==
    /\ Len(res.regs) >= MaxHandlers
    /\ \E t \in TransportSlots, sfd \in Fds, f \in FileSlots :
        /\ HasFile(fd, s, t, sfd, f)
        /\ Becomes(CleanUp(WithFile(fd, s, t, sfd, f), s), {fd}, {})
    /\ sent' = {}
    /\ Advance

\* fread or sendto fails on the first block.
FirstDataFails(fd, s) ==
    /\ OsMayFail
    /\ Len(res.regs) < MaxHandlers
    /\ \E t \in TransportSlots, sfd \in Fds, f \in FileSlots :
        /\ HasFile(fd, s, t, sfd, f)
        /\ Becomes(CleanUp(RegisterTransfer(
                       WithFile(fd, s, t, sfd, f), s), s), {fd}, {})
    /\ sent' = {}
    /\ Advance

RequestServed(fd, s) ==
    /\ Len(res.regs) < MaxHandlers
    /\ \E t \in TransportSlots, sfd \in Fds, f \in FileSlots :
        /\ HasFile(fd, s, t, sfd, f)
        /\ LET r == SendNextData(RegisterTransfer(
                        WithFile(fd, s, t, sfd, f), s), s)
           IN  /\ Becomes(r, {fd}, {})
               /\ sent' = {DataPacket(r, s)}
    /\ Advance
-----------------------------------------------------------------------------
(* transfer_udp_handler *)

\* Mutant: the failed transfer's socket is closed at once.
FailureClosesSocket(s, fd) ==
    /\ \/ /\ \E ev \in SUBSET Events :
                "ERROR" \in ev /\ Called(s, fd, ev) /\ Owns(res, s, fd)
          /\ Becomes(ReleaseTransport(Abort(res, s),
                                     res.transfer[s].transport), {}, {})
       \/ /\ ReceiveFails(s, fd)
          /\ Becomes(ReleaseTransport(Abort(res, s),
                                     res.transfer[s].transport), {}, {fd})
    /\ sent' = {}
    /\ Advance
\* An error event, or a receive that fails, marks the transfer and returns:
\* it keeps its slot, its file and its registered socket.
TransferMarkedFailed(s, fd) ==
    /\ \/ /\ \E ev \in SUBSET Events :
                "ERROR" \in ev /\ Called(s, fd, ev) /\ Owns(res, s, fd)
          /\ Becomes(Abort(res, s), {}, {})
       \/ /\ ReceiveFails(s, fd)
          /\ Becomes(Abort(res, s), {}, {fd})
    /\ sent' = {}
    /\ Advance

FromPeer(s, fd) ==
    /\ Receives(s, fd)
    /\ Head(rxq[fd]).from = res.transfer[s].peer
\* Mutant: the block number of an acknowledgement is not compared.
IsAnyAck(s, d) == res.transfer[s].state = "WAIT_ACK" /\ d.kind = "ACK"
IsExpectedAck(s, d) ==
    /\ res.transfer[s].state = "WAIT_ACK"
    /\ d.kind = "ACK"
    /\ d.arg = res.transfer[s].expected

\* Mutant: a packet of another endpoint ends the transfer.
AnotherPeerAborts(s, fd) ==
    /\ Receives(s, fd)
    /\ Head(rxq[fd]).from # res.transfer[s].peer
    /\ Becomes(CleanUp(Abort(res, s), s), {fd}, {})
    /\ sent' = {}
    /\ Advance
PacketOfAnotherPeer(s, fd) ==
    /\ Receives(s, fd)
    /\ Head(rxq[fd]).from # res.transfer[s].peer
    /\ Becomes(res, {fd}, {})
    /\ sent' = {}
    /\ Advance

\* Any datagram of the peer that is not the acknowledgement waited for.
TransferRejects(s, fd) ==
    /\ FromPeer(s, fd)
    /\ ~IsExpectedAck(s, Head(rxq[fd]))
    /\ Becomes(CleanUp(Abort(res, s), s), {fd}, {})
    /\ sent' = {}
    /\ Advance

TransferCompletes(s, fd) ==
    /\ FromPeer(s, fd)
    /\ IsExpectedAck(s, Head(rxq[fd]))
    /\ res.transfer[s].final
    /\ Becomes(CleanUp(res, s), {fd}, {})
    /\ sent' = {}
    /\ Advance

AckAdvances(s, fd) ==
    /\ FromPeer(s, fd)
    /\ IsExpectedAck(s, Head(rxq[fd]))
    /\ ~res.transfer[s].final
    /\ LET r == SendNextData(res, s)
       IN  /\ Becomes(r, {fd}, {})
           /\ sent' = {DataPacket(r, s)}
    /\ Advance

\* fread or sendto fails on the next block.
NextDataFails(s, fd) ==
    /\ OsMayFail
    /\ FromPeer(s, fd)
    /\ IsExpectedAck(s, Head(rxq[fd]))
    /\ ~res.transfer[s].final
    /\ Becomes(CleanUp(Abort(res, s), s), {fd}, {})
    /\ sent' = {}
    /\ Advance
-----------------------------------------------------------------------------
ServerHandler(fd) ==
    \/ ServerReceiveFails(fd)
    \/ RequestRefused(fd)
    \/ \E s \in TransferSlots :
        \/ RequestGetsNoSocket(fd, s)
        \/ RequestGetsNoFileSlot(fd, s)
        \/ RequestedFileNotOpened(fd, s)
        \/ RequestNotRegistered(fd, s)
        \/ FirstDataFails(fd, s)
        \/ RequestServed(fd, s)

TransferHandler(s, fd) ==
    \/ TransferMarkedFailed(s, fd)
    \/ PacketOfAnotherPeer(s, fd)
    \/ TransferRejects(s, fd)
    \/ TransferCompletes(s, fd)
    \/ AckAdvances(s, fd)
    \/ NextDataFails(s, fd)

Reactor ==
    \/ Poll
    \/ SkipIdle
    \/ EndPass
    \/ HandlerReturns
    \/ \E fd \in Fds :
        \/ ServerHandler(fd)
        \/ \E s \in TransferSlots : TransferHandler(s, fd)

Lifecycle == ServerStart \/ ServerStop \/ ReactorRun \/ PollFails

\* Requests go to the listening socket, acknowledgements to the others; a
\* datagram of the wrong sort is an OTHER one there.
Offered(fd) ==
    LET kinds == IF res.server # Null /\ res.transport[res.server].fd = fd
                 THEN {"RRQ", "OTHER"} ELSE {"ACK", "OTHER"}
    IN  {d \in Datagrams : d.kind \in kinds}

Environment ==
    \E fd \in Fds :
        \/ SocketError(fd)
        \/ \E d \in Offered(fd) : Deliver(fd, d)

Next == Reactor \/ Lifecycle \/ Environment

Spec == Init /\ [][Next]_vars

\* The process that runs the reactor is scheduled, and reactor_run is called
\* after the server is started; nothing is assumed of the network.
Fairness == WF_vars(Reactor) /\ WF_vars(ServerStart) /\ WF_vars(ReactorRun)
FairSpec == Spec /\ Fairness
-----------------------------------------------------------------------------
(* Properties *)

Transfers ==
    [inUse : BOOLEAN, registered : BOOLEAN, final : BOOLEAN,
     state : {"IDLE", "RRQ", "WAIT_ACK", "COMPLETE", "ERROR"},
     block : Blocks, expected : Blocks,
     peer : Peers \cup {None}, name : Names \cup {None},
     file : FileSlots \cup {Null}, transport : TransportSlots \cup {Null}]
OpenFiles == [inUse : BOOLEAN, open : BOOLEAN, name : Names \cup {None},
              pos : Nat]
Transports    == [used : BOOLEAN, fd : Fds \cup {None}]
Registrations == [fd : Fds, ctx : TransferSlots \cup {Server}]
Objects ==
    [transfer : [TransferSlots -> Transfers],
     file : [FileSlots -> OpenFiles],
     transport : [TransportSlots -> Transports],
     regs : Seq(Registrations),
     server : TransportSlots \cup {Null}]

\* Every variable holds a value of the type its C object has.
TypeOK ==
    /\ res \in Objects
    /\ rxq \in [Fds -> Seq(Datagrams)]
    /\ broken \subseteq Fds
    /\ phase \in {"idle", "poll", "dispatch"}
    /\ next \in Nat \ {0}
    /\ ready \in Seq(SUBSET Events)

Live(r, s) == r.transfer[s].inUse

\* Between two handlers a transfer in use has all it needs (an open file, an
\* open registered socket), and a transfer not in use has nothing left of the
\* transfer before it.
WholeOrFree(r) ==
    \A s \in TransferSlots :
        LET x == r.transfer[s]
        IN  IF x.inUse
            THEN /\ x.registered
                 /\ x.peer \in Peers /\ x.name \in DOMAIN FileBlocks
                 /\ x.file # Null /\ r.file[x.file].open
                 /\ r.file[x.file].name = x.name
                 /\ x.transport # Null
            ELSE x = FreeTransfer

\* A transfer that is kept waits for its peer or has failed.
Resumable(r) ==
    \A s \in TransferSlots :
        Live(r, s) => r.transfer[s].state \in {"WAIT_ACK", "ERROR"}

\* No two owners share a file, a transport or a descriptor.
NothingShared(r) ==
    /\ \A s1, s2 \in TransferSlots :
        Live(r, s1) /\ Live(r, s2) /\ s1 # s2 =>
            /\ r.transfer[s1].file # r.transfer[s2].file
            /\ r.transfer[s1].transport # r.transfer[s2].transport
    /\ \A s \in TransferSlots :
        Live(r, s) => r.transfer[s].transport # r.server
    /\ \A t1, t2 \in TransportSlots :
        r.transport[t1].fd = r.transport[t2].fd /\ r.transport[t1].fd # None
            => t1 = t2

\* A pool entry is in use exactly while a transfer, or the server, holds it.
NothingLeaks(r) ==
    /\ \A f \in FileSlots :
        IF r.file[f].inUse
        THEN \E s \in TransferSlots : Live(r, s) /\ r.transfer[s].file = f
        ELSE r.file[f] = FreeFile
    /\ \A t \in TransportSlots :
        IF r.transport[t].used
        THEN /\ r.transport[t].fd # None
             /\ \/ r.server = t
                \/ \E s \in TransferSlots :
                     Live(r, s) /\ r.transfer[s].transport = t
        ELSE r.transport[t] = FreeTransport
    /\ \A s \in TransferSlots : Live(r, s) =>
        /\ r.file[r.transfer[s].file].inUse
        /\ r.transport[r.transfer[s].transport].used
    /\ r.server # Null => r.transport[r.server].used

\* Whatever the failing step, releasing a transfer gives back exactly what
\* it had taken: no file, socket or context is lost, shared or half-released.
Ownership ==
    /\ WholeOrFree(res) /\ Resumable(res)
    /\ NothingShared(res) /\ NothingLeaks(res)

\* The reactor never calls a handler for a context that has been released or
\* reused, nor twice for one socket, and no live context is forgotten: its
\* registrations are the open sockets of the live contexts, each once.
RegistrationsExact(r) ==
    /\ \A i \in DOMAIN r.regs : Owns(r, r.regs[i].ctx, r.regs[i].fd)
    /\ \A i, j \in DOMAIN r.regs : r.regs[i].fd = r.regs[j].fd => i = j
    /\ \A s \in TransferSlots : Live(r, s) =>
        \E i \in DOMAIN r.regs : r.regs[i].ctx = s
    /\ r.server # Null => \E i \in DOMAIN r.regs : r.regs[i].ctx = Server
DispatchSafe == RegistrationsExact(res)

\* The block number a transfer waits for is that of the part of the file it
\* has last read, modulo the width of a block number, and the transfer is
\* final exactly when that part is the short one at the end of the file.
BlocksInStep(r) ==
    \A s \in TransferSlots : Live(r, s) =>
        LET x == r.transfer[s]
            pos == r.file[x.file].pos
        IN  /\ pos \in 1 .. FileBlocks[x.name] + 1
            /\ x.block = pos % BlockMod /\ x.expected = x.block
            /\ x.final <=> pos = FileBlocks[x.name] + 1
BlockTracksFile == BlocksInStep(res)

\* All that belongs to transfer s.
Belongings(r, s) ==
    IF Live(r, s)
    THEN <<r.transfer[s], r.file[r.transfer[s].file],
           r.transport[r.transfer[s].transport]>>
    ELSE <<>>

\* A live transfer changes only when its own handler runs, and then on a
\* datagram of its own peer at the head of its own socket, or by being
\* marked failed with all it owns untouched: no request, stop, release or
\* datagram of another endpoint disturbs it.
Isolation ==
    [][\A s \in TransferSlots :
        Live(res, s) /\ Belongings(res', s) # Belongings(res, s) =>
            \/ \E fd \in Fds : FromPeer(s, fd)
            \/ /\ AtEntry /\ res.regs[next].ctx = s
               /\ res' = Abort(res, s)]_vars

\* A request that is not answered with data, whatever the step that refuses
\* it or fails, leaves every pool and every registration as it found them.
RefusalLeavesNoTrace ==
    [][/\ \E fd \in Fds : Receives(Server, fd)
       /\ \A m \in sent' : m.kind # "DATA"
       => res' = res]_vars

\* A DATA packet leaves from the socket of the transfer it belongs to, to
\* that transfer's peer, with the next part of the requested file, and only
\* in answer to the request or to the acknowledgement of the part before.
DataInOrder ==
    [][\A m \in sent' : m.kind = "DATA" =>
        \E s \in TransferSlots :
            LET x == res'.transfer[s]
                pos == res'.file[x.file].pos
                d == Head(rxq[res.regs[next].fd])
            IN  /\ Live(res', s)
                /\ m.fd = res'.transport[x.transport].fd
                /\ m.to = x.peer /\ d.from = x.peer
                /\ m.chunk = <<x.name, pos>> /\ m.block = pos % BlockMod
                /\ IF Live(res, s)
                   THEN /\ pos = res.file[res.transfer[s].file].pos + 1
                        /\ d.kind = "ACK" /\ d.arg = (pos - 1) % BlockMod
                   ELSE pos = 1 /\ d.kind = "RRQ" /\ d.arg = x.name]_vars

\* The shifting of registrations during a pass starves no socket: one that
\* keeps a datagram waiting has a datagram received again and again, as long
\* as no socket has a pending error (SocketErrors is FALSE).  With one, both
\* handlers return before recvfrom: poll reports it again in every pass, and
\* nothing is received from that socket any more.
SocketsServed ==
    \A fd \in Fds :
        \/ []<>(rxq[fd] = <<>>)
        \/ []<><<Len(rxq'[fd]) < Len(rxq[fd])>>_vars
-----------------------------------------------------------------------------
(* What the documentation says of the program and the program does not do. *)

\* The reactor waits for events and dispatches them: a transfer is marked
\* failed only when its socket has a pending error.
ErrorEventsAreReal ==
    [][\A s \in TransferSlots :
        /\ Live(res, s) /\ res.transfer[s].state = "WAIT_ACK"
        /\ Live(res', s) /\ res'.transfer[s].state = "ERROR"
        => res.transport[res.transfer[s].transport].fd \in broken]_vars

\* "Every transfer must eventually reach one of SUCCESS, ERROR, ABORT and
\* release" what it holds, whatever the client does.
EveryTransferReleased ==
    \A s \in TransferSlots : Live(res, s) ~> ~Live(res, s)
=============================================================================

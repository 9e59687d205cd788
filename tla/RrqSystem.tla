------------------------------ MODULE RrqSystem ------------------------------
(***************************************************************************)
(* The server with the clients that use it: each endpoint runs the legacy  *)
(* client's download (legacy/TFTP_Client.c, handle_rrq) over a network     *)
(* that loses, delays, reorders and, up to a bound, duplicates datagrams.  *)
(* Neither side ever sends anything twice.                                 *)
(***************************************************************************)
EXTENDS TftpServer, LegacyBlock

CONSTANTS
    WellKnown,  \* port 69, which every request is sent to
    MaxCopies   \* bound: datagrams the network duplicates

ASSUME TwoBytes == BlockMod = ByteMod * ByteMod
ASSUME CopiesBounded == MaxCopies \in Nat
\* A transfer is addressed by the port of its own socket, here its descriptor.
ASSUME Addresses == WellKnown \notin Peers \cup Fds /\ Peers \cap Fds = {}

VARIABLES
    client,     \* per endpoint: the state of its handle_rrq
    net,        \* datagrams in flight
    copies      \* datagrams duplicated so far

sysVars == <<vars, client, net, copies>>

SysInit ==
    /\ Init
    /\ client = [c \in Peers |->
           [status |-> "idle", name |-> None, expected |-> 1, file |-> <<>>]]
    /\ net = {}
    /\ copies = 0
-----------------------------------------------------------------------------
(* The client. *)

\* A datagram as it is sent; the network numbers the copies it makes of it.
Original(m) == [msg |-> m, copy |-> 0]

ClientRequests(c, name) ==
    /\ client[c].status = "idle"
    /\ client' = [client EXCEPT ![c].status = "waiting", ![c].name = name]
    /\ net' = net \cup {Original([to |-> WellKnown, from |-> c,
                                  kind |-> "RRQ", arg |-> name])}

\* Mutant: every DATA packet is written.
AnyBlock(c, m) == m.kind = "DATA"
ExpectedBlock(c, m) ==
    m.kind = "DATA" /\ Decode(m.block) = client[c].expected

\* Mutant: acknowledgements go where the request went.
ClientTakesAndAnswersPort69(c, p) ==
    /\ ExpectedBlock(c, p.msg)
    /\ client' = [client EXCEPT
           ![c].file = Append(@, p.msg.chunk),
           ![c].status = IF p.msg.final THEN "complete" ELSE "waiting",
           ![c].expected = IF p.msg.final THEN @ ELSE @ + 1]
    /\ net' = (net \ {p}) \cup
           {Original([to |-> WellKnown, from |-> c, kind |-> "ACK",
                      arg |-> OnWire(Decode(p.msg.block))])}
\* The block is written and acknowledged, to the endpoint it came from:
\* recvfrom has overwritten the server's address.  A short one is the last.
ClientTakes(c, p) ==
    /\ ExpectedBlock(c, p.msg)
    /\ client' = [client EXCEPT
           ![c].file = Append(@, p.msg.chunk),
           ![c].status = IF p.msg.final THEN "complete" ELSE "waiting",
           ![c].expected = IF p.msg.final THEN @ ELSE @ + 1]
    /\ net' = (net \ {p}) \cup
           {Original([to |-> p.msg.fd, from |-> c, kind |-> "ACK",
                      arg |-> OnWire(Decode(p.msg.block))])}

\* Any other block is reported and dropped, unacknowledged.
ClientIgnores(c, p) ==
    /\ p.msg.kind = "DATA" /\ ~ExpectedBlock(c, p.msg)
    /\ net' = net \ {p}
    /\ UNCHANGED client

ClientFails(c, p) ==
    /\ p.msg.kind = "ERROR"
    /\ client' = [client EXCEPT ![c].status = "failed"]
    /\ net' = net \ {p}

Client(c) ==
    /\ \/ \E name \in ValidNames : ClientRequests(c, name)
       \/ /\ client[c].status = "waiting"
          /\ \E p \in net :
              /\ p.msg.to = c
              /\ ClientTakes(c, p) \/ ClientIgnores(c, p) \/ ClientFails(c, p)
    /\ UNCHANGED <<vars, copies>>
-----------------------------------------------------------------------------
(* The network: external. *)

AddressOf(fd) ==
    IF res.server # Null /\ res.transport[res.server].fd = fd
    THEN WellKnown ELSE fd

Arrives(fd, p) ==
    /\ p.msg.to = AddressOf(fd)
    /\ Deliver(fd, [from |-> p.msg.from, kind |-> p.msg.kind,
                    arg |-> p.msg.arg])
    /\ net' = net \ {p}
    /\ UNCHANGED <<client, copies>>

Lose(p) ==
    /\ net' = net \ {p}
    /\ UNCHANGED <<vars, client, copies>>

Duplicate(p) ==
    /\ copies < MaxCopies
    /\ copies' = copies + 1
    /\ net' = net \cup {[p EXCEPT !.copy = copies']}
    /\ UNCHANGED <<vars, client>>

Network == \E p \in net :
    \/ \E fd \in OpenFds(res) : Arrives(fd, p)
    \/ Lose(p)
    \/ Duplicate(p)

\* The server's process; what it sends goes on its way.
ServerProcess ==
    /\ Reactor \/ Lifecycle \/ \E fd \in Fds : SocketError(fd)
    /\ net' = net \cup {Original(m) : m \in sent'}
    /\ UNCHANGED <<client, copies>>

SysNext == ServerProcess \/ Network \/ \E c \in Peers : Client(c)

SysSpec == SysInit /\ [][SysNext]_sysVars
-----------------------------------------------------------------------------
(* Properties *)

Download == INSTANCE FileDownload WITH
    Clients <- Peers,
    download <- [c \in Peers |-> [status |-> client[c].status,
                                  name |-> client[c].name,
                                  got |-> client[c].file]]

\* The server among its clients is the server of TftpServer.
ImplementsServer == Spec

\* Whatever the network loses, delays or repeats, and however many transfers
\* a repeated request starts, what a client writes is the requested file from
\* its beginning, in order and nothing twice, and it says that the download
\* is complete only when it has all of it.
ImplementsDownload == Download!Spec

\* A transfer the server ends as complete is one whose client has the file:
\* no stale, repeated or early acknowledgement ends it.
CompletionDelivered ==
    [][\A fd \in Fds, s \in TransferSlots :
        /\ FromPeer(s, fd) /\ next' # next
        /\ IsExpectedAck(s, Head(rxq[fd])) /\ res.transfer[s].final
        /\ ~Live(res', s)
        => client[res.transfer[s].peer].status = "complete"]_sysVars

\* "Only one DATA block is outstanding at a time": no transfer, nor one of
\* several that a repeated request has started, is more than one block ahead
\* of what its client has written.
OneBlockOutstanding ==
    \A s \in TransferSlots : Live(res, s) =>
        LET x == res.transfer[s]
        IN  res.file[x.file].pos <= Len(client[x.peer].file) + 1

\* "DATA block 1, ACK 1, DATA block 2, ACK 2, ...": the client knows the
\* block it waits for when it sees it.
NextBlockRecognised ==
    \A p \in net :
        /\ p.msg.kind = "DATA"
        /\ client[p.msg.to].status = "waiting"
        /\ p.msg.chunk[2] = Len(client[p.msg.to].file) + 1
        => ExpectedBlock(p.msg.to, p.msg)
=============================================================================

--------------------------- MODULE RrqSystem_proofs ---------------------------
(***************************************************************************)
(* Proofs about RrqSystem.  Whatever its clients and the network do, the   *)
(* server among them is the server of TftpServer, and what is proved of    *)
(* that one holds; and what the clients write are their files, in order    *)
(* and nothing twice, for files and block numbers of any size.             *)
(***************************************************************************)
EXTENDS RrqSystem, TftpTransfers_proofs

\* What is on its way is addressed to a client, by the server, or to the
\* server, by a client, and is of a kind that its addressee knows.
FromServer(m) ==
    /\ m.to \in Peers /\ m.kind \in {"DATA", "ERROR"}
    /\ m.kind = "DATA" => m.fd \in Fds /\ m.block \in Blocks
FromClient(m) ==
    /\ m.from \in Peers
    /\ \/ m.to = WellKnown /\ m.kind = "RRQ" /\ m.arg \in Names
       \/ m.to \in Fds /\ m.kind = "ACK" /\ m.arg \in Blocks
NetTypeOK == \A p \in net : FromServer(p.msg) \/ FromClient(p.msg)

LEMMA OriginalMsg == \A m : Original(m).msg = m
BY DEF Original

\* The DATA packet of a live transfer goes to its peer, from its socket.
LEMMA DataPacketIsForAClient ==
    ASSUME NEW r, Good(r, {}), NEW s \in TransferSlots, Live(r, s)
    PROVE  FromServer(DataPacket(r, s))
<1> DEFINE x == r.transfer[s]
           m == DataPacket(r, s)
<1>1. /\ x \in Transfers /\ r.transport \in [TransportSlots -> Transports]
      /\ x.transport # Null /\ x.peer \in Peers
      /\ r.transport[x.transport].used
  BY DEF Good, Objects, WholeOrFree, NothingLeaks, Live
<1>2. x.transport \in TransportSlots /\ x.block \in Blocks
  BY <1>1 DEF Transfers
<1>3. r.transport[x.transport].fd # None
  BY <1>1, <1>2 DEF Good, NothingLeaks
<1>4. r.transport[x.transport].fd \in Fds
  BY <1>1, <1>2, <1>3 DEF Transports
<1>5. /\ m.to = x.peer /\ m.fd = r.transport[x.transport].fd
      /\ m.block = x.block /\ m.kind = "DATA"
  BY DEF DataPacket
<1> QED
  BY <1>1, <1>2, <1>4, <1>5 DEF FromServer

LEMMA ServerSendsToClients ==
    ASSUME IInv, Reactor
    PROVE  \A m \in sent' : FromServer(m)
<1>1. CASE Poll \/ SkipIdle \/ EndPass \/ HandlerReturns
  BY <1>1 DEF Poll, SkipIdle, EndPass, HandlerReturns
<1>2. ASSUME NEW fd \in Fds, ServerHandler(fd)
      PROVE  \A m \in sent' : FromServer(m)
  <2>1. CASE ServerReceiveFails(fd) \/ RequestRefused(fd)
    BY <2>1 DEF ServerReceiveFails, RequestRefused
  <2>2. ASSUME NEW s \in TransferSlots,
               \/ RequestGetsNoSocket(fd, s) \/ RequestGetsNoFileSlot(fd, s)
               \/ RequestNotRegistered(fd, s) \/ FirstDataFails(fd, s)
        PROVE  sent' = {}
    BY <2>2 DEF RequestGetsNoSocket, RequestGetsNoFileSlot,
       RequestNotRegistered, FirstDataFails
  <2>3. ASSUME NEW s \in TransferSlots, RequestedFileNotOpened(fd, s)
        PROVE  \A m \in sent' : FromServer(m)
    <3>1. Accepts(fd, s)
      BY <2>3 DEF RequestedFileNotOpened
    <3>2. Head(rxq[fd]).from \in Peers
      BY <3>1, AcceptsFacts DEF IInv
    <3>3. \/ sent' = {}
          \/ \E sfd : sent' = {ErrorPacket(sfd, Head(rxq[fd]).from)}
      BY <2>3 DEF RequestedFileNotOpened
    <3>4. \A sfd, p : /\ ErrorPacket(sfd, p).to = p
                      /\ ErrorPacket(sfd, p).kind = "ERROR"
      BY DEF ErrorPacket
    <3> QED
      BY <3>2, <3>3, <3>4 DEF FromServer
  <2>4. ASSUME NEW s \in TransferSlots, RequestServed(fd, s)
        PROVE  \A m \in sent' : FromServer(m)
    <3>1. PICK r : Becomes(r, {fd}, {}) /\ sent' = {DataPacket(r, s)}
      BY <2>4 DEF RequestServed
    <3>2. After({}) /\ Live(res', s)
      BY <2>4, ServedKeeps DEF IInv
    <3>3. res' = r
      BY <3>1 DEF Becomes
    <3>4. Good(r, {}) /\ Live(r, s)
      BY <3>2, <3>3 DEF After, Sound
    <3> QED
      BY <3>1, <3>4, DataPacketIsForAClient
  <2> QED
    BY <1>2, <2>1, <2>2, <2>3, <2>4 DEF ServerHandler
<1>3. ASSUME NEW fd \in Fds, NEW s \in TransferSlots, TransferHandler(s, fd)
      PROVE  \A m \in sent' : FromServer(m)
  <2>1. CASE AckAdvances(s, fd)
    <3> DEFINE r == SendNextData(res, s)
    <3>1. sent' = {DataPacket(r, s)} /\ Owns(res, s, fd)
      BY <2>1 DEF AckAdvances, FromPeer, Receives
    <3>2. Good(res, {}) /\ Live(res, s)
      BY <3>1, OwnerIsLive DEF IInv, Inv, Sound
    <3>3. Good(r, {}) /\ Live(r, s)
      BY <3>2, SendNextGood DEF SentOn
    <3> HIDE DEF r
    <3> QED
      BY <3>1, <3>3, DataPacketIsForAClient
  <2>2. CASE ~AckAdvances(s, fd)
    <3>1. sent' = {}
      BY <1>3, <2>2 DEF TransferHandler, TransferMarkedFailed,
         PacketOfAnotherPeer, TransferRejects, TransferCompletes,
         NextDataFails
    <3> QED
      BY <3>1
  <2> QED
    BY <2>1, <2>2
<1> QED
  BY <1>1, <1>2, <1>3 DEF Reactor

\* What arrives at a socket is what that socket can be sent.
LEMMA ArrivalIsOffered ==
    ASSUME NetTypeOK, NEW p \in net, NEW fd \in Fds, Arrives(fd, p)
    PROVE  Environment
<1> DEFINE d == [from |-> p.msg.from, kind |-> p.msg.kind, arg |-> p.msg.arg]
<1>1. p.msg.to = AddressOf(fd) /\ Deliver(fd, d)
  BY DEF Arrives
<1>2. p.msg.to \notin Peers
  BY <1>1, Addresses DEF AddressOf
<1>3. FromClient(p.msg)
  BY <1>2 DEF NetTypeOK, FromServer
<1>4. CASE AddressOf(fd) = WellKnown
  <2>1. /\ p.msg.kind = "RRQ" /\ p.msg.from \in Peers /\ p.msg.arg \in Names
        /\ res.server # Null /\ res.transport[res.server].fd = fd
    BY <1>1, <1>3, <1>4, Addresses DEF FromClient, AddressOf
  <2>2. d \in Datagrams /\ d.kind = "RRQ"
    BY <2>1 DEF Datagrams
  <2>3. d \in Offered(fd)
    BY <2>1, <2>2 DEF Offered
  <2> QED
    BY <1>1, <2>3 DEF Environment
<1>5. CASE AddressOf(fd) # WellKnown
  <2>1. /\ p.msg.kind = "ACK" /\ p.msg.from \in Peers /\ p.msg.arg \in Blocks
        /\ ~(res.server # Null /\ res.transport[res.server].fd = fd)
    BY <1>1, <1>3, <1>5, Addresses DEF FromClient, AddressOf
  <2>2. d \in Datagrams /\ d.kind = "ACK"
    BY <2>1 DEF Datagrams
  <2>3. d \in Offered(fd)
    BY <2>1, <2>2 DEF Offered
  <2> QED
    BY <1>1, <2>3 DEF Environment
<1> QED
  BY <1>4, <1>5

LEMMA SysStepIsServerStep ==
    ASSUME IInv, NetTypeOK, [SysNext]_sysVars
    PROVE  [Next]_vars
<1>1. CASE UNCHANGED sysVars
  BY <1>1 DEF sysVars
<1>2. CASE ServerProcess
  BY <1>2 DEF ServerProcess, Next, Environment
<1>3. CASE Network
  <2>1. PICK p \in net : \/ \E fd \in OpenFds(res) : Arrives(fd, p)
                         \/ Lose(p)
                         \/ Duplicate(p)
    BY <1>3 DEF Network
  <2>2. CASE Lose(p) \/ Duplicate(p)
    BY <2>2 DEF Lose, Duplicate
  <2>3. ASSUME NEW fd \in OpenFds(res), Arrives(fd, p)
        PROVE  Environment
    <3>1. fd \in Fds
      BY DEF IInv, Inv, TypeOK, Objects, Transports, OpenFds
    <3> QED
      BY <2>3, <3>1, ArrivalIsOffered
  <2> QED
    BY <2>1, <2>2, <2>3 DEF Next
<1>4. CASE \E c \in Peers : Client(c)
  BY <1>4 DEF Client
<1> QED
  BY <1>1, <1>2, <1>3, <1>4 DEF SysNext

\* The two bytes of an acknowledgement are a block number, whatever the
\* client has made of the ones it received.
LEMMA AcknowledgesABlock ==
    ASSUME NEW block \in Nat
    PROVE  OnWire(Decode(block)) \in Blocks
<1> DEFINE low  == SignedChar(block % ByteMod)
           high == SignedChar(block \div ByteMod)
<1>1. ByteMod \in Nat \ {0} /\ BlockMod \in Nat \ {0}
  BY ByteHasValues, TwoBytes
<1>2. block % ByteMod \in Int /\ block \div ByteMod \in Int
  BY <1>1
<1>3. \A n \in Int : SignedChar(n) \in Int
  BY <1>1 DEF SignedChar
<1>4. low \in Int /\ high \in Int
  BY <1>2, <1>3
<1>5. Decode(block) = IF low < 0 THEN low ELSE high * ByteMod + low
  BY DEF Decode
<1> HIDE DEF low, high
<1>6. Decode(block) \in Int
  BY <1>1, <1>4, <1>5
<1> QED
  BY <1>1, <1>6, TwoBytes DEF Blocks, OnWire

LEMMA NetTypeKept ==
    ASSUME IInv, NetTypeOK, [SysNext]_sysVars
    PROVE  NetTypeOK'
<1> DEFINE OnItsWay(m) == FromServer(m) \/ FromClient(m)
<1> SUFFICES ASSUME NEW p \in net', p \notin net
             PROVE  OnItsWay(p.msg)
  BY DEF NetTypeOK, FromServer, FromClient
<1>1. CASE UNCHANGED sysVars
  BY <1>1 DEF sysVars
<1>2. CASE ServerProcess
  <2>1. PICK m \in sent' : p = Original(m)
    BY <1>2 DEF ServerProcess
  <2>2. CASE Reactor
    BY <2>1, <2>2, ServerSendsToClients, OriginalMsg
  <2>3. CASE Lifecycle \/ \E fd \in Fds : SocketError(fd)
    BY <2>1, <2>3 DEF Lifecycle, ServerStart, ServerStop, ReactorRun,
       PollFails, SocketError
  <2> QED
    BY <1>2, <2>2, <2>3 DEF ServerProcess
<1>3. CASE Network
  <2>1. PICK q \in net : Duplicate(q)
    BY <1>3 DEF Network, Arrives, Lose
  <2>2. p = [q EXCEPT !.copy = copies']
    BY <2>1 DEF Duplicate
  <2>3. p.msg = q.msg
    BY <2>2
  <2> QED
    BY <2>3 DEF NetTypeOK
<1>4. ASSUME NEW c \in Peers, Client(c)
      PROVE  OnItsWay(p.msg)
  <2>1. ASSUME NEW name \in ValidNames, ClientRequests(c, name)
        PROVE  OnItsWay(p.msg)
    <3>1. p = Original([to |-> WellKnown, from |-> c,
                        kind |-> "RRQ", arg |-> name])
      BY <2>1 DEF ClientRequests
    <3>2. /\ p.msg.to = WellKnown /\ p.msg.from = c
          /\ p.msg.kind = "RRQ" /\ p.msg.arg = name
      BY <3>1, OriginalMsg
    <3> QED
      BY <3>2, Files DEF FromClient
  <2>2. ASSUME NEW q \in net, q.msg.to = c, ClientTakes(c, q)
        PROVE  OnItsWay(p.msg)
    <3>1. p = Original([to |-> q.msg.fd, from |-> c, kind |-> "ACK",
                        arg |-> OnWire(Decode(q.msg.block))])
      BY <2>2 DEF ClientTakes
    <3>2. /\ p.msg.to = q.msg.fd /\ p.msg.from = c /\ p.msg.kind = "ACK"
          /\ p.msg.arg = OnWire(Decode(q.msg.block))
      BY <3>1, OriginalMsg
    <3>3. q.msg.fd \in Fds /\ q.msg.block \in Blocks
      BY <2>2, Addresses
      DEF NetTypeOK, FromServer, FromClient, ClientTakes, ExpectedBlock
    <3>4. p.msg.arg \in Blocks
      BY <3>2, <3>3, AcknowledgesABlock DEF Blocks
    <3> QED
      BY <3>2, <3>3, <3>4 DEF FromClient
  <2>3. ASSUME NEW q \in net, ClientIgnores(c, q) \/ ClientFails(c, q)
        PROVE  FALSE
    BY <2>3 DEF ClientIgnores, ClientFails
  <2> QED
    BY <1>4, <2>1, <2>2, <2>3 DEF Client
<1> QED
  BY <1>1, <1>2, <1>3, <1>4 DEF SysNext
-----------------------------------------------------------------------------
\* Whatever its clients send and whatever the network loses, delays or
\* repeats, the server among them takes only the steps of TftpServer.
THEOREM SystemImplementsServer == SysSpec => ImplementsServer
<1>1. SysInit => Init /\ IInv /\ NetTypeOK
  BY Initial DEF SysInit, NetTypeOK, IInv
<1>2. IInv /\ NetTypeOK /\ [SysNext]_sysVars
          => [Next]_vars /\ IInv' /\ NetTypeOK'
  BY SysStepIsServerStep, NetTypeKept, Inductive
<1> QED
  BY <1>1, <1>2, PTL DEF SysSpec, ImplementsServer, Spec

\* Hence its pools and registrations stay exact in the composed system.
THEOREM SystemOwnership == SysSpec => [](Ownership /\ DispatchSafe)
BY SystemImplementsServer, OwnershipHolds, DispatchIsSafe, PTL
DEF ImplementsServer
-----------------------------------------------------------------------------
(* Downloads.  The invariant says what each datagram on its way, or in the *)
(* queue of a socket, tells of the client it comes from or goes to.        *)

ClientStates ==
    [status : {"idle", "waiting", "complete", "failed"},
     name : Names \cup {None}, expected : Nat, file : Seq(Names \X Nat)]

Got(cl, c) == Len(cl[c].file)
Asked(cl, c, name) == cl[c].status # "idle" /\ cl[c].name = name
Parts(name) == 1 .. FileBlocks[name] + 1

\* What a client has is the beginning of its file, and not so much of it that
\* a block it took could have been read back as another one: the sign bits of
\* both bytes of its number were clear.
InOrder(x) ==
    LET got == Len(x.file)
    IN  /\ x.status = "idle" => got = 0 /\ x.name = None
        /\ x.status \in {"idle", "waiting"} => x.expected = got + 1
        /\ \A i \in 1 .. got : x.file[i] = <<x.name, i>>
        /\ got > 0 => x.name \in DOMAIN FileBlocks /\ got \in Parts(x.name)
        /\ x.status = "complete" <=> got > 0 /\ got = FileBlocks[x.name] + 1
        /\ 2 * got < BlockMod

\* A request is of its client, and what is acknowledged was taken.
Honest(cl, d) ==
    /\ d.kind = "RRQ" => Asked(cl, d.from, d.arg)
    /\ d.kind = "ACK" => d.arg \in 1 .. Got(cl, d.from)

\* Packet m carries part j of the file name.
IsPart(m, name, j) ==
    /\ j \in Parts(name)
    /\ m.chunk = <<name, j>> /\ m.block = j % BlockMod
    /\ m.final <=> j = FileBlocks[name] + 1

\* A DATA packet is a part of its client's file, at most the next one.
Due(cl, m) == m.kind = "DATA" =>
    LET name == cl[m.to].name
    IN  /\ Asked(cl, m.to, name) /\ name \in DOMAIN FileBlocks
        /\ \E j \in 1 .. Got(cl, m.to) + 1 : IsPart(m, name, j)

\* No transfer is ahead of its client by more than one part.
NotAhead(cl, r, s) ==
    LET x == r.transfer[s]
    IN  Asked(cl, x.peer, x.name) /\ Position(r, s) <= Got(cl, x.peer) + 1

ClientsInStep ==
    client \in [Peers -> ClientStates] /\ \A c \in Peers : InOrder(client[c])
NetInStep       == \A p \in net : Honest(client, p.msg) /\ Due(client, p.msg)
QueuesInStep    ==
    \A fd \in Fds : \A i \in DOMAIN rxq[fd] : Honest(client, rxq[fd][i])
TransfersInStep ==
    \A s \in TransferSlots : Live(res, s) => NotAhead(client, res, s)

SysInv ==
    /\ IInv /\ BlocksInStep(res) /\ NetTypeOK
    /\ ClientsInStep /\ NetInStep /\ QueuesInStep /\ TransfersInStep

\* A block number that is read back as the one a client waits for is that
\* number: with the sign bit of either byte set it is read as a negative one.
LEMMA DecodedExactly ==
    ASSUME NEW v \in Blocks, NEW e \in Nat \ {0}, Decode(v) = e
    PROVE  v = e /\ 2 * e < BlockMod
<1> DEFINE l == v % ByteMod
           h == v \div ByteMod
           b == ByteMod
<1>1. b \in Nat \ {0} /\ BlockMod = b * b /\ v \in Nat /\ v < BlockMod
  BY ByteHasValues, TwoBytes, PoolSizes DEF Blocks
<1>2. l \in 0 .. b - 1 /\ h \in Nat /\ v = b * h + l
  BY <1>1
<1>3. e = IF SignedChar(l) < 0 THEN SignedChar(l)
          ELSE SignedChar(h) * b + SignedChar(l)
  BY DEF Decode
<1>4. /\ SignedChar(l) = IF 2 * l >= b THEN l - b ELSE l
      /\ SignedChar(h) = IF 2 * h >= b THEN h - b ELSE h
  BY DEF SignedChar
<1> HIDE DEF l, h, b
<1>5. h < b
  <2>1. b * h < b * b
    BY <1>1, <1>2
  <2> QED
    BY <1>1, <1>2, <2>1, Z3
<1>6. 2 * l < b /\ SignedChar(l) = l
  BY <1>1, <1>2, <1>3, <1>4
<1>7. e = SignedChar(h) * b + l
  BY <1>2, <1>3, <1>6
<1>8. 2 * h < b /\ SignedChar(h) = h
  <2> SUFFICES ASSUME 2 * h >= b PROVE FALSE
    BY <1>1, <1>2, <1>4
  <2>1. SignedChar(h) <= -1 /\ SignedChar(h) \in Int
    BY <1>1, <1>2, <1>4, <1>5
  <2>2. SignedChar(h) * b <= -1 * b
    BY <1>1, <2>1, Z3
  <2> QED
    BY <1>1, <1>2, <1>7, <2>1, <2>2
<1>9. h * b = b * h
  BY <1>1, <1>2, Z3
<1>10. v = e
  BY <1>1, <1>2, <1>7, <1>8, <1>9
<1>11. 2 * v < b * b
  <2>1. 2 * h + 1 <= b
    BY <1>1, <1>2, <1>8
  <2>2. (2 * h + 1) * b <= b * b
    BY <1>1, <1>2, <2>1, Z3
  <2>3. (2 * h + 1) * b = 2 * (b * h) + b
    BY <1>1, <1>2, Z3
  <2> QED
    BY <1>1, <1>2, <1>6, <2>2, <2>3
<1> QED
  BY <1>1, <1>10, <1>11

\* While less than half of the numbers are used, a number is that of the
\* part it was made of, if that part is not beyond the next.
LEMMA NumberOfPart ==
    ASSUME NEW got \in Nat, NEW j \in 1 .. got + 1, got + 1 < BlockMod
    PROVE  j % BlockMod = j
BY PoolSizes

LEMMA AcknowledgedPart ==
    ASSUME NEW got \in Nat, 2 * got < BlockMod, NEW j \in 1 .. got + 1,
           (j % BlockMod) \in 1 .. got
    PROVE  j % BlockMod = j
<1>1. got + 1 < BlockMod
  BY PoolSizes
<1> QED
  BY <1>1, NumberOfPart

-----------------------------------------------------------------------------
(* The clients. *)

\* The client that has taken the packet m.
Taken(x, m) ==
    [status |-> IF m.final THEN "complete" ELSE "waiting", name |-> x.name,
     expected |-> IF m.final THEN x.expected ELSE x.expected + 1,
     file |-> Append(x.file, m.chunk)]

\* What a client that waits takes is the next part of its file.
LEMMA TakesNext ==
    ASSUME SysInv, NEW c \in Peers, client[c].status = "waiting",
           NEW p \in net, p.msg.to = c, ExpectedBlock(c, p.msg)
    PROVE  /\ client[c].name \in DOMAIN FileBlocks
           /\ IsPart(p.msg, client[c].name, Got(client, c) + 1)
           /\ Decode(p.msg.block) = Got(client, c) + 1
           /\ OnWire(Decode(p.msg.block)) = Got(client, c) + 1
           /\ 2 * (Got(client, c) + 1) < BlockMod
<1> DEFINE x == client[c]
           e == Got(client, c) + 1
           m == p.msg
<1>1. x \in ClientStates /\ InOrder(x) /\ Due(client, m)
  BY DEF SysInv, ClientsInStep, NetInStep
<1>2. Got(client, c) \in Nat /\ x.expected = e
  BY <1>1 DEF Got, InOrder, ClientStates
<1>3. m.kind = "DATA" /\ Decode(m.block) = e
  BY <1>2 DEF ExpectedBlock
<1>4. x.name \in DOMAIN FileBlocks /\ \E j \in 1 .. e : IsPart(m, x.name, j)
  BY <1>1, <1>3 DEF Due
<1>5. PICK j \in 1 .. e : IsPart(m, x.name, j)
  BY <1>4
<1>6. m.block = j % BlockMod
  BY <1>5 DEF IsPart
<1>7. m.block \in Blocks
  BY <1>2, <1>6, PoolSizes DEF Blocks
<1>8. m.block = e /\ 2 * e < BlockMod
  BY <1>2, <1>3, <1>7, DecodedExactly
<1>9. j = e
  <2>1. j \in 1 .. Got(client, c) + 1 /\ Got(client, c) + 1 < BlockMod
    BY <1>2, <1>8, PoolSizes
  <2>2. j % BlockMod = j
    BY <1>2, <2>1, NumberOfPart
  <2> QED
    BY <1>6, <1>8, <2>2
<1>10. OnWire(e) = e
  BY <1>2, <1>8, TwoBytes, PoolSizes DEF OnWire
<1> QED
  BY <1>3, <1>4, <1>5, <1>8, <1>9, <1>10

\* The clients' updates, field by field.
LEMMA ClientShape ==
    ASSUME NEW x \in ClientStates
    PROVE  x = [status |-> x.status, name |-> x.name,
                expected |-> x.expected, file |-> x.file]
BY DEF ClientStates

LEMMA StatusUpdate ==
    ASSUME NEW x \in ClientStates, NEW status
    PROVE  [x EXCEPT !.status = status]
             = [status |-> status, name |-> x.name,
                expected |-> x.expected, file |-> x.file]
BY ClientShape

LEMMA NameUpdate ==
    ASSUME NEW x \in ClientStates, NEW status, NEW name
    PROVE  [x EXCEPT !.status = status, !.name = name]
             = [status |-> status, name |-> name,
                expected |-> x.expected, file |-> x.file]
<1> DEFINE y == [x EXCEPT !.status = status]
<1>1. y = [status |-> status, name |-> x.name,
           expected |-> x.expected, file |-> x.file]
  BY StatusUpdate
<1> HIDE DEF y
<1>2. [y EXCEPT !.name = name]
        = [status |-> status, name |-> name,
           expected |-> x.expected, file |-> x.file]
  BY <1>1
<1> QED
  BY <1>2, Zenon DEF y

LEMMA FileUpdate ==
    ASSUME NEW x \in ClientStates, NEW status, NEW expected, NEW file
    PROVE  [x EXCEPT !.file = file, !.status = status, !.expected = expected]
             = [status |-> status, name |-> x.name,
                expected |-> expected, file |-> file]
<1> DEFINE y == [x EXCEPT !.file = file]
           z == [y EXCEPT !.status = status]
<1>1. y = [status |-> x.status, name |-> x.name,
           expected |-> x.expected, file |-> file]
  BY ClientShape
<1> HIDE DEF y
<1>2. z = [status |-> status, name |-> x.name,
           expected |-> x.expected, file |-> file]
  BY <1>1
<1> HIDE DEF z
<1>3. [z EXCEPT !.expected = expected]
        = [status |-> status, name |-> x.name,
           expected |-> expected, file |-> file]
  BY <1>2
<1> QED
  BY <1>3, Zenon DEF y, z

LEMMA TakesEffect ==
    ASSUME SysInv, NEW c \in Peers, NEW p, ClientTakes(c, p)
    PROVE  client' = [client EXCEPT ![c] = Taken(client[c], p.msg)]
<1> DEFINE x        == client[c]
           file     == Append(x.file, p.msg.chunk)
           status   == IF p.msg.final THEN "complete" ELSE "waiting"
           expected == IF p.msg.final THEN x.expected ELSE x.expected + 1
<1>1. client \in [Peers -> ClientStates] /\ x \in ClientStates
  BY DEF SysInv, ClientsInStep
<1>2. client' = [client EXCEPT ![c] =
        [x EXCEPT !.file = file, !.status = status, !.expected = expected]]
  BY <1>1 DEF ClientTakes, ClientStates
<1>3. Taken(x, p.msg) = [status |-> status, name |-> x.name,
                         expected |-> expected, file |-> file]
  BY DEF Taken
<1> HIDE DEF x, file, status, expected
<1>4. [x EXCEPT !.file = file, !.status = status, !.expected = expected]
        = Taken(x, p.msg)
  BY <1>1, <1>3, FileUpdate, Zenon
<1> QED
  BY <1>2, <1>4, Zenon DEF x

\* The clients that have asked for a file, and that have given up.
Asking(x, name) == [status |-> "waiting", name |-> name,
                    expected |-> x.expected, file |-> x.file]
GivingUp(x) == [status |-> "failed", name |-> x.name,
                expected |-> x.expected, file |-> x.file]

LEMMA RequestsEffect ==
    ASSUME SysInv, NEW c \in Peers, NEW name, ClientRequests(c, name)
    PROVE  client' = [client EXCEPT ![c] = Asking(client[c], name)]
<1>1. client' = [client EXCEPT ![c] =
                   [client[c] EXCEPT !.status = "waiting", !.name = name]]
  BY DEF ClientRequests
<1>2. client[c] \in ClientStates
  BY DEF SysInv, ClientsInStep
<1> QED
  BY <1>1, <1>2, NameUpdate, Zenon DEF Asking

LEMMA FailsEffect ==
    ASSUME SysInv, NEW c \in Peers, NEW p, ClientFails(c, p)
    PROVE  client' = [client EXCEPT ![c] = GivingUp(client[c])]
<1>1. client' = [client EXCEPT ![c] = [client[c] EXCEPT !.status = "failed"]]
  BY DEF ClientFails
<1>2. client[c] \in ClientStates
  BY DEF SysInv, ClientsInStep
<1> QED
  BY <1>1, <1>2, StatusUpdate, Zenon DEF GivingUp

\* Taking the next part leaves the client in order, with one part more.
LEMMA TakenInOrder ==
    ASSUME NEW x \in ClientStates, InOrder(x), x.status = "waiting",
           x.name \in DOMAIN FileBlocks, NEW m,
           IsPart(m, x.name, Len(x.file) + 1), 2 * (Len(x.file) + 1) < BlockMod
    PROVE  LET y == Taken(x, m)
           IN  /\ y \in ClientStates /\ InOrder(y)
               /\ y.status # "idle" /\ y.name = x.name
               /\ Len(y.file) = Len(x.file) + 1
<1> DEFINE y == Taken(x, m)
           got == Len(x.file)
<1>1. /\ got \in Nat /\ x.expected = got + 1 /\ x.expected \in Nat
      /\ x.file \in Seq(Names \X Nat) /\ x.name \in Names
  BY Files DEF InOrder, ClientStates
<1>2. /\ m.chunk = <<x.name, got + 1>> /\ got + 1 \in Parts(x.name)
      /\ m.final <=> got + 1 = FileBlocks[x.name] + 1
  BY DEF IsPart
<1>3. m.chunk \in Names \X Nat
  BY <1>1, <1>2
<1>4. /\ y.file = Append(x.file, m.chunk) /\ y.name = x.name
      /\ y.status = IF m.final THEN "complete" ELSE "waiting"
      /\ y.expected = IF m.final THEN x.expected ELSE x.expected + 1
  BY DEF Taken
<1>5. /\ y.file \in Seq(Names \X Nat) /\ Len(y.file) = got + 1
      /\ \A i \in 1 .. got : y.file[i] = x.file[i]
      /\ y.file[got + 1] = m.chunk
  BY <1>1, <1>3, <1>4
<1>6. y \in ClientStates
  <2>1. y.status \in {"complete", "waiting"} /\ y.expected \in Nat
    BY <1>1, <1>4
  <2> QED
    BY <1>1, <1>4, <1>5, <2>1 DEF ClientStates, Taken
<1>7. \A i \in 1 .. got + 1 : y.file[i] = <<x.name, i>>
  <2> SUFFICES ASSUME NEW i \in 1 .. got + 1
               PROVE  y.file[i] = <<x.name, i>>
    OBVIOUS
  <2>1. CASE i = got + 1
    BY <1>2, <1>5, <2>1
  <2>2. CASE i # got + 1
    <3>1. i \in 1 .. got
      BY <1>1, <2>2
    <3> QED
      BY <1>5, <3>1 DEF InOrder
  <2> QED
    BY <2>1, <2>2
<1> HIDE DEF y, got
<1>8. y.status = "complete" <=> got + 1 = FileBlocks[x.name] + 1
  BY <1>2, <1>4
<1>9. y.status # "idle" /\ (y.status = "waiting" => y.expected = got + 2)
  BY <1>1, <1>4
<1>10. InOrder(y)
  BY <1>1, <1>2, <1>4, <1>5, <1>7, <1>8, <1>9 DEF InOrder, got
<1> QED
  BY <1>4, <1>5, <1>6, <1>9, <1>10 DEF y, got

\* A client keeps what it has, and never asks for anything else.
Grown(new, old) ==
    \A c \in Peers :
        /\ old[c].status # "idle" =>
             new[c].status # "idle" /\ new[c].name = old[c].name
        /\ Got(old, c) <= Got(new, c)
        /\ Got(old, c) \in Nat /\ Got(new, c) \in Nat

LEMMA ClientStep ==
    ASSUME SysInv, NEW c \in Peers, Client(c)
    PROVE  ClientsInStep' /\ Grown(client', client)
<1>1. client \in [Peers -> ClientStates] /\ \A i \in Peers : InOrder(client[i])
  BY DEF SysInv, ClientsInStep
<1>2. SUFFICES ASSUME NEW y, y \in ClientStates, InOrder(y),
                      client' = [client EXCEPT ![c] = y],
                      Len(client[c].file) <= Len(y.file),
                      client[c].status # "idle" =>
                        y.status # "idle" /\ y.name = client[c].name
               PROVE  ClientsInStep' /\ Grown(client', client)
  <2> DEFINE x == client[c]
  <2>1. x \in ClientStates /\ InOrder(x)
    BY <1>1
  <2>2. ASSUME NEW name \in ValidNames, ClientRequests(c, name)
        PROVE  ClientsInStep' /\ Grown(client', client)
    <3> DEFINE y == Asking(x, name)
    <3>1. client' = [client EXCEPT ![c] = y] /\ x.status = "idle"
      BY <2>2, RequestsEffect DEF ClientRequests
    <3>2. y \in ClientStates /\ InOrder(y)
      BY <2>1, <3>1, Files DEF InOrder, ClientStates, Asking
    <3>3. Len(x.file) <= Len(y.file)
      BY <2>1 DEF ClientStates, Asking
    <3> QED
      BY <1>2, <3>1, <3>2, <3>3
  <2>3. ASSUME NEW p \in net, p.msg.to = c, x.status = "waiting",
               ClientTakes(c, p)
        PROVE  ClientsInStep' /\ Grown(client', client)
    <3> DEFINE y == Taken(x, p.msg)
    <3>1. client' = [client EXCEPT ![c] = y]
      BY <2>3, TakesEffect
    <3>2. /\ x.name \in DOMAIN FileBlocks
          /\ IsPart(p.msg, x.name, Len(x.file) + 1)
          /\ 2 * (Len(x.file) + 1) < BlockMod
      BY <2>3, TakesNext DEF ClientTakes, Got
    <3>3. /\ y \in ClientStates /\ InOrder(y)
          /\ y.status # "idle" /\ y.name = x.name
          /\ Len(y.file) = Len(x.file) + 1
      BY <2>1, <2>3, <3>2, TakenInOrder
    <3>4. Len(x.file) <= Len(y.file)
      BY <2>1, <3>3 DEF ClientStates
    <3> QED
      BY <1>2, <3>1, <3>3, <3>4
  <2>4. ASSUME NEW p, ClientIgnores(c, p)
        PROVE  ClientsInStep' /\ Grown(client', client)
    <3>1. client' = [client EXCEPT ![c] = x] /\ Len(x.file) <= Len(x.file)
      BY <1>1, <2>1, <2>4 DEF ClientIgnores, ClientStates
    <3> QED
      BY <1>2, <2>1, <3>1
  <2>5. ASSUME NEW p, x.status = "waiting", ClientFails(c, p)
        PROVE  ClientsInStep' /\ Grown(client', client)
    <3> DEFINE y == GivingUp(x)
    <3>1. client' = [client EXCEPT ![c] = y]
      BY <2>5, FailsEffect
    <3>2. /\ y \in ClientStates /\ InOrder(y) /\ Len(x.file) <= Len(y.file)
          /\ y.status # "idle" /\ y.name = x.name
      BY <2>1, <2>5 DEF InOrder, ClientStates, GivingUp
    <3> QED
      BY <1>2, <3>1, <3>2
  <2> QED
    BY <2>2, <2>3, <2>4, <2>5 DEF Client
<1>3. ClientsInStep'
  BY <1>1, <1>2 DEF ClientsInStep
<1>4. Grown(client', client)
  BY <1>1, <1>2 DEF Grown, Got, ClientStates
<1> QED
  BY <1>3, <1>4

\* What is so of a datagram or a transfer stays so while the clients grow.
LEMMA HonestGrows ==
    ASSUME NEW new, NEW old, Grown(new, old), NEW d, Honest(old, d),
           d.kind \in {"RRQ", "ACK"} => d.from \in Peers
    PROVE  Honest(new, d)
BY DEF Honest, Asked, Grown

LEMMA DueGrows ==
    ASSUME NEW new, NEW old, Grown(new, old), NEW m, Due(old, m),
           m.kind = "DATA" => m.to \in Peers
    PROVE  Due(new, m)
<1> SUFFICES ASSUME m.kind = "DATA" PROVE Due(new, m)
  BY DEF Due
<1> DEFINE name == old[m.to].name
<1>1. /\ Asked(old, m.to, name) /\ name \in DOMAIN FileBlocks
      /\ \E j \in 1 .. Got(old, m.to) + 1 : IsPart(m, name, j)
  BY DEF Due
<1>2. /\ Asked(new, m.to, name) /\ new[m.to].name = name
      /\ 1 .. Got(old, m.to) + 1 \subseteq 1 .. Got(new, m.to) + 1
  BY <1>1 DEF Grown, Asked
<1> QED
  BY <1>1, <1>2 DEF Due

LEMMA NotAheadGrows ==
    ASSUME NEW new, NEW old, Grown(new, old), NEW r, NEW s,
           NotAhead(old, r, s), r.transfer[s].peer \in Peers,
           Position(r, s) \in Int
    PROVE  NotAhead(new, r, s)
BY DEF NotAhead, Asked, Grown

\* A client that neither acts nor is acted upon.
LEMMA Unchanged == ClientsInStep => Grown(client, client)
BY DEF ClientsInStep, Grown, Got, ClientStates

LEMMA LivePosition ==
    ASSUME SysInv, NEW s \in TransferSlots, Live(res, s)
    PROVE  /\ res.transfer[s].peer \in Peers
           /\ res.transfer[s].name \in DOMAIN FileBlocks
           /\ FileBlocks[res.transfer[s].name] \in Nat
           /\ Position(res, s) \in Nat \ {0} /\ InStep(res, s)
           /\ NotAhead(client, res, s)
<1>1. InStep(res, s)
  BY BlocksInStepBySlot DEF SysInv
<1>2. /\ res.transfer[s].peer \in Peers
      /\ res.transfer[s].name \in DOMAIN FileBlocks
  BY DEF SysInv, IInv, Inv, Sound, Good, WholeOrFree, Live
<1>3. FileBlocks[res.transfer[s].name] \in Nat
  BY <1>2, Files
<1>4. NotAhead(client, res, s)
  BY DEF SysInv, TransfersInStep
<1> QED
  BY <1>1, <1>2, <1>3, <1>4 DEF InStep

\* The clients' part of a step keeps what the invariant says of the server,
\* of the queues and of what is already on its way.
LEMMA GrowingKeeps ==
    ASSUME SysInv, NEW new, Grown(new, client)
    PROVE  /\ \A p \in net : Honest(new, p.msg) /\ Due(new, p.msg)
           /\ \A fd \in Fds : \A i \in DOMAIN rxq[fd] :
                Honest(new, rxq[fd][i])
           /\ \A s \in TransferSlots : Live(res, s) => NotAhead(new, res, s)
<1>1. ASSUME NEW p \in net
      PROVE  Honest(new, p.msg) /\ Due(new, p.msg)
  <2>1. Honest(client, p.msg) /\ Due(client, p.msg)
    BY DEF SysInv, NetInStep
  <2>2. /\ p.msg.kind \in {"RRQ", "ACK"} => p.msg.from \in Peers
        /\ p.msg.kind = "DATA" => p.msg.to \in Peers
    BY DEF SysInv, NetTypeOK, FromServer, FromClient
  <2> QED
    BY <2>1, <2>2, HonestGrows, DueGrows
<1>2. ASSUME NEW fd \in Fds, NEW i \in DOMAIN rxq[fd]
      PROVE  Honest(new, rxq[fd][i])
  <2>1. Honest(client, rxq[fd][i])
    BY DEF SysInv, QueuesInStep
  <2>2. rxq[fd] \in Seq(Datagrams)
    BY DEF SysInv, IInv, Inv, TypeOK
  <2>3. rxq[fd][i] \in Datagrams
    BY <2>2
  <2>4. rxq[fd][i].from \in Peers
    BY <2>3 DEF Datagrams
  <2> QED
    BY <2>1, <2>4, HonestGrows
<1>3. ASSUME NEW s \in TransferSlots, Live(res, s)
      PROVE  NotAhead(new, res, s)
  BY <1>3, LivePosition, NotAheadGrows
<1> QED
  BY <1>1, <1>2, <1>3

LEMMA ClientKeeps ==
    ASSUME SysInv, NEW c \in Peers, Client(c)
    PROVE  NetInStep' /\ QueuesInStep' /\ TransfersInStep'
<1>1. Grown(client', client) /\ UNCHANGED <<res, rxq>>
  BY ClientStep DEF Client, vars
<1>2. QueuesInStep' /\ TransfersInStep'
  BY <1>1, GrowingKeeps DEF QueuesInStep, TransfersInStep
<1>3. ASSUME NEW p \in net', p \notin net
      PROVE  Honest(client', p.msg) /\ Due(client', p.msg)
  <2>1. ASSUME NEW name \in ValidNames, ClientRequests(c, name)
        PROVE  Honest(client', p.msg) /\ Due(client', p.msg)
    <3>1. p = Original([to |-> WellKnown, from |-> c,
                        kind |-> "RRQ", arg |-> name])
      BY <1>3, <2>1 DEF ClientRequests
    <3>2. p.msg.from = c /\ p.msg.kind = "RRQ" /\ p.msg.arg = name
      BY <3>1, OriginalMsg
    <3>3. Asked(client', c, name)
      BY <2>1 DEF ClientRequests, SysInv, ClientsInStep, Asked, ClientStates
    <3> QED
      BY <3>2, <3>3 DEF Honest, Due
  <2>2. ASSUME NEW q \in net, q.msg.to = c, client[c].status = "waiting",
               ClientTakes(c, q)
        PROVE  Honest(client', p.msg) /\ Due(client', p.msg)
    <3>1. p = Original([to |-> q.msg.fd, from |-> c, kind |-> "ACK",
                        arg |-> OnWire(Decode(q.msg.block))])
      BY <1>3, <2>2 DEF ClientTakes
    <3>2. /\ p.msg.from = c /\ p.msg.kind = "ACK"
          /\ p.msg.arg = OnWire(Decode(q.msg.block))
      BY <3>1, OriginalMsg
    <3>3. OnWire(Decode(q.msg.block)) = Got(client, c) + 1
      BY <2>2, TakesNext DEF ClientTakes
    <3>4. client[c].file \in Seq(Names \X Nat)
      BY DEF SysInv, ClientsInStep, ClientStates
    <3>5. client'[c] = Taken(client[c], q.msg)
      BY <2>2, TakesEffect DEF SysInv, ClientsInStep
    <3>6. Got(client', c) = Got(client, c) + 1 /\ Got(client, c) \in Nat
      BY <3>4, <3>5 DEF Got, Taken
    <3> QED
      BY <3>2, <3>3, <3>6 DEF Honest, Due
  <2>3. ASSUME NEW q, ClientIgnores(c, q) \/ ClientFails(c, q)
        PROVE  FALSE
    BY <1>3, <2>3 DEF ClientIgnores, ClientFails
  <2> QED
    BY <2>1, <2>2, <2>3 DEF Client
<1>4. NetInStep'
  BY <1>1, <1>3, GrowingKeeps DEF NetInStep
<1> QED
  BY <1>2, <1>4
-----------------------------------------------------------------------------
(* The server. *)

\* An acknowledgement of the client that carries the number of the part a
\* transfer has sent is of that part: the client has it.
LEMMA ExpectedAckIsOfPart ==
    ASSUME SysInv, NEW fd \in Fds, NEW s \in TransferSlots, Live(res, s),
           FromPeer(s, fd), IsExpectedAck(s, Head(rxq[fd]))
    PROVE  LET c == res.transfer[s].peer
           IN  /\ c \in Peers /\ client[c].name = res.transfer[s].name
               /\ Got(client, c) \in Nat
               /\ Position(res, s) \in 1 .. Got(client, c)
<1> DEFINE x == res.transfer[s]
           d == Head(rxq[fd])
           c == x.peer
           pos == Position(res, s)
           got == Got(client, c)
<1>1. /\ c \in Peers /\ x.name \in DOMAIN FileBlocks /\ pos \in Nat \ {0}
      /\ InStep(res, s) /\ NotAhead(client, res, s)
  BY LivePosition
<1>2. rxq[fd] # <<>> /\ d.from = c /\ d.kind = "ACK" /\ d.arg = x.expected
  BY DEF FromPeer, Receives, IsExpectedAck
<1>3. rxq[fd] \in Seq(Datagrams)
  BY DEF SysInv, IInv, Inv, TypeOK
<1>4. 1 \in DOMAIN rxq[fd] /\ d = rxq[fd][1]
  BY <1>2, <1>3
<1>5. Honest(client, d)
  BY <1>4 DEF SysInv, QueuesInStep
<1>6. d.arg \in 1 .. got
  BY <1>2, <1>5 DEF Honest
<1>7. d.arg = pos % BlockMod
  BY <1>1, <1>2 DEF InStep
<1>8. pos <= got + 1 /\ client[c].name = x.name
  BY <1>1 DEF NotAhead, Asked
<1>9. InOrder(client[c]) /\ client[c] \in ClientStates
  BY <1>1 DEF SysInv, ClientsInStep
<1>10. got \in Nat /\ 2 * got < BlockMod
  BY <1>9 DEF InOrder, Got, ClientStates
<1> HIDE DEF x, d, c, pos, got
<1>11. pos % BlockMod = pos
  BY <1>1, <1>6, <1>7, <1>8, <1>10, AcknowledgedPart
<1> QED
  BY <1>1, <1>6, <1>7, <1>8, <1>10, <1>11 DEF x, c, pos, got

\* What belongs to a transfer says how far it is.
LEMMA SameIsNotAhead ==
    ASSUME NEW cl, NEW r, NEW q, NEW s, Live(q, s),
           Belongings(q, s) = Belongings(r, s),
           Live(r, s) => NotAhead(cl, r, s)
    PROVE  NotAhead(cl, q, s)
<1>1. Live(r, s)
  BY DEF Belongings
<1>2. /\ q.transfer[s] = r.transfer[s]
      /\ q.file[q.transfer[s].file] = r.file[r.transfer[s].file]
  BY <1>1 DEF Belongings
<1> QED
  BY <1>1, <1>2 DEF NotAhead, Position

LEMMA HandlerNotAhead ==
    ASSUME SysInv, NEW fd \in Fds, NEW s \in TransferSlots,
           TransferHandler(s, fd), Live(res', s), BlocksInStep(res')
    PROVE  NotAhead(client, res', s)
<1>1. Inv({}) /\ Good(res, {})
  BY DEF SysInv, IInv, Inv, Sound
<1>2. Live(res, s) /\ Registered(res, s)
  BY <1>1, CalledIsRegistered
<1>3. NotAhead(client, res, s)
  BY <1>2, LivePosition
<1>4. ASSUME NEW r, Good(r, {}), Live(r, s), Registered(r, s)
      PROVE  ~Live(CleanUp(r, s), s)
  <2>1. CleanUp(r, s) = Cleaned(r, s)
    BY <1>4, CleanUpGood
  <2>2. CleanUp(r, s).transfer[s] = FreeTransfer
    BY <1>4, <2>1 DEF Cleaned, Good, Objects
  <2> QED
    BY <2>2, FreeFields DEF Live
<1>5. /\ Good(Abort(res, s), {}) /\ Live(Abort(res, s), s)
      /\ Abort(res, s).regs = res.regs /\ Abort(res, s).file = res.file
      /\ Abort(res, s).transfer[s] = Failed(res.transfer[s])
  BY <1>1, <1>2, AbortGood
<1>6. CASE TransferMarkedFailed(s, fd)
  <2>1. res' = Abort(res, s)
    BY <1>6 DEF TransferMarkedFailed, Becomes
  <2>2. res.transfer[s] \in Transfers
    BY <1>1 DEF Good, Objects
  <2>3. /\ res'.transfer[s].peer = res.transfer[s].peer
        /\ res'.transfer[s].name = res.transfer[s].name
        /\ res'.transfer[s].file = res.transfer[s].file
    BY <1>5, <2>1, <2>2 DEF Failed, Transfers
  <2> QED
    BY <1>3, <1>5, <2>1, <2>3 DEF NotAhead, Position
<1>7. CASE PacketOfAnotherPeer(s, fd)
  BY <1>3, <1>7 DEF PacketOfAnotherPeer, Becomes
<1>8. CASE TransferRejects(s, fd) \/ NextDataFails(s, fd)
  <2>1. res' = CleanUp(Abort(res, s), s) /\ Registered(Abort(res, s), s)
    BY <1>2, <1>5, <1>8
    DEF TransferRejects, NextDataFails, Becomes, Registered
  <2> QED
    BY <1>4, <1>5, <2>1
<1>9. CASE TransferCompletes(s, fd)
  <2>1. res' = CleanUp(res, s)
    BY <1>9 DEF TransferCompletes, Becomes
  <2> QED
    BY <1>1, <1>2, <1>4, <2>1
<1>10. CASE AckAdvances(s, fd)
  <2>1. /\ FromPeer(s, fd) /\ IsExpectedAck(s, Head(rxq[fd]))
        /\ res' = SendNextData(res, s)
    BY <1>10 DEF AckAdvances, Becomes
  <2>2. SentOn(res', res, s, {})
    BY <1>1, <1>2, <2>1, SendNextGood
  <2>3. /\ res'.transfer[s].peer = res.transfer[s].peer
        /\ res'.transfer[s].name = res.transfer[s].name
        /\ Position(res', s) = Position(res, s) + 1
    BY <2>2 DEF SentOn, Position
  <2>4. /\ Got(client, res.transfer[s].peer) \in Nat
        /\ Position(res, s) \in 1 .. Got(client, res.transfer[s].peer)
    BY <1>2, <2>1, ExpectedAckIsOfPart
  <2> QED
    BY <1>3, <2>3, <2>4 DEF NotAhead
<1> QED
  BY <1>6, <1>7, <1>8, <1>9, <1>10 DEF TransferHandler

\* No step of the server takes a transfer ahead of its client.
LEMMA ServerNotAhead ==
    ASSUME SysInv, [Next]_vars, NEW s \in TransferSlots, Live(res', s),
           BlocksInStep(res')
    PROVE  NotAhead(client, res', s)
<1>1. Inv({})
  BY DEF SysInv, IInv
<1>2. CASE Belongings(res', s) = Belongings(res, s)
  BY <1>2, SameIsNotAhead, LivePosition
<1>3. ASSUME NEW fd \in Fds, RequestServed(fd, s)
      PROVE  NotAhead(client, res', s)
  <2> DEFINE d == Head(rxq[fd])
  <2>1. /\ Position(res', s) = 1 /\ res'.transfer[s].peer = d.from
        /\ res'.transfer[s].name = d.arg /\ d.kind = "RRQ"
    BY <1>3, RequestSendsFirst DEF SysInv
  <2>2. Accepts(fd, s)
    BY <1>3 DEF RequestServed, HasFile
  <2>3. rxq[fd] # <<>> /\ d.from \in Peers
    BY <1>1, <2>2, AcceptsFacts
  <2>4. rxq[fd] \in Seq(Datagrams)
    BY DEF SysInv, IInv, Inv, TypeOK
  <2>5. 1 \in DOMAIN rxq[fd] /\ d = rxq[fd][1]
    BY <2>3, <2>4
  <2>6. Honest(client, d)
    BY <2>5 DEF SysInv, QueuesInStep
  <2>7. Got(client, d.from) \in Nat
    BY <2>3 DEF SysInv, ClientsInStep, ClientStates, Got
  <2> QED
    BY <2>1, <2>6, <2>7 DEF NotAhead, Honest
<1>4. ASSUME NEW fd \in Fds, TransferHandler(s, fd)
      PROVE  NotAhead(client, res', s)
  BY <1>4, HandlerNotAhead
<1> QED
  BY <1>1, <1>2, <1>3, <1>4, StepTouches
\* A packet the server sends carries a part that its client is due.
LEMMA DataIsDue ==
    ASSUME NEW cl, NEW r, NEW s \in TransferSlots, Live(r, s), InStep(r, s),
           WholeOrFree(r), NotAhead(cl, r, s)
    PROVE  Due(cl, DataPacket(r, s)) /\ Honest(cl, DataPacket(r, s))
<1> DEFINE x == r.transfer[s]
           m == DataPacket(r, s)
           pos == Position(r, s)
<1>1. /\ m.to = x.peer /\ m.kind = "DATA" /\ m.chunk = <<x.name, pos>>
      /\ m.block = x.block /\ m.final = x.final
  BY DEF DataPacket, Position
<1>2. x.name \in DOMAIN FileBlocks
  BY DEF WholeOrFree, Live
<1>3. Asked(cl, m.to, x.name) /\ pos <= Got(cl, m.to) + 1
  BY <1>1 DEF NotAhead
<1>4. /\ pos \in Parts(x.name) /\ x.block = pos % BlockMod
      /\ x.final <=> pos = FileBlocks[x.name] + 1
  BY DEF InStep, Parts
<1> HIDE DEF m, x, pos
<1>5. IsPart(m, x.name, pos)
  BY <1>1, <1>4 DEF IsPart
<1>6. pos \in 1 .. Got(cl, m.to) + 1
  BY <1>2, <1>3, <1>4, Files DEF Parts
<1>7. cl[m.to].name = x.name
  BY <1>3 DEF Asked
<1> QED
  BY <1>1, <1>2, <1>3, <1>5, <1>6, <1>7 DEF Due, Honest, m

LEMMA ServerSendsDue ==
    ASSUME SysInv, Next, BlocksInStep(res'), NEW m \in sent', m.kind = "DATA"
    PROVE  Due(client, m) /\ Honest(client, m)
<1>1. PICK fd \in Fds, s \in TransferSlots :
        RequestServed(fd, s) \/ AckAdvances(s, fd)
  BY OnlyTheseSendData
<1>2. m = DataPacket(res', s) /\ Live(res', s)
  <2>1. /\ sent' = {DataPacket(res', s)}
        /\ Carries(DataPacket(res', s), res', s, Position(res', s))
    BY <1>1, RequestSendsFirst, AckSendsNext DEF SysInv
  <2> QED
    BY <2>1 DEF Carries
<1>3. NotAhead(client, res', s)
  BY <1>2, ServerNotAhead
<1>4. IInv'
  BY Inductive DEF SysInv
<1>5. WholeOrFree(res') /\ InStep(res', s)
  BY <1>2, <1>4, BlocksInStepBySlot DEF IInv, Inv, Sound, Good
<1> QED
  BY <1>2, <1>3, <1>5, DataIsDue

\* Nothing but an arrival adds to a queue.
QueuesShrink ==
    \A fd \in Fds : \A i \in DOMAIN rxq'[fd] :
        \E j \in DOMAIN rxq[fd] : rxq'[fd][i] = rxq[fd][j]

LEMMA SameQueues == rxq' = rxq => QueuesShrink
BY DEF QueuesShrink

LEMMA BecomesShrinks ==
    ASSUME TypeOK, NEW r, NEW consumed, NEW cleared,
           Becomes(r, consumed, cleared)
    PROVE  QueuesShrink
<1> SUFFICES ASSUME NEW fd \in Fds, NEW i \in DOMAIN rxq'[fd]
             PROVE  \E j \in DOMAIN rxq[fd] : rxq'[fd][i] = rxq[fd][j]
  BY DEF QueuesShrink
<1>1. rxq[fd] \in Seq(Datagrams)
  BY DEF TypeOK
<1>2. rxq'[fd] \in {<<>>, Tail(rxq[fd]), rxq[fd]}
  BY DEF Becomes
<1>3. CASE rxq'[fd] = <<>>
  BY <1>3
<1>4. CASE rxq'[fd] = rxq[fd]
  BY <1>4
<1>5. CASE rxq'[fd] = Tail(rxq[fd])
  <2>1. CASE rxq[fd] = <<>>
    BY <1>5, <2>1
  <2>2. CASE rxq[fd] # <<>>
    <3>1. i + 1 \in DOMAIN rxq[fd] /\ rxq'[fd][i] = rxq[fd][i + 1]
      BY <1>1, <1>5, <2>2
    <3> QED
      BY <3>1
  <2> QED
    BY <2>1, <2>2
<1> QED
  BY <1>2, <1>3, <1>4, <1>5

LEMMA ServerShrinksQueues ==
    ASSUME TypeOK, Reactor \/ Lifecycle \/ \E fd \in Fds : SocketError(fd)
    PROVE  QueuesShrink
<1>1. CASE \/ Poll \/ SkipIdle \/ EndPass \/ ReactorRun \/ PollFails
           \/ \E fd \in Fds : SocketError(fd)
  BY <1>1, SameQueues
  DEF Poll, SkipIdle, EndPass, ReactorRun, PollFails, SocketError
<1>2. CASE HandlerReturns
  BY <1>2, SameQueues, BecomesShrinks DEF HandlerReturns
<1>3. CASE ServerStart
  BY <1>3, BecomesShrinks DEF ServerStart
<1>4. CASE ServerStop
  BY <1>4, BecomesShrinks DEF ServerStop
<1>5. ASSUME NEW fd \in Fds, ServerHandler(fd)
      PROVE  QueuesShrink
  <2>1. CASE ServerReceiveFails(fd) \/ RequestRefused(fd)
    BY <2>1, BecomesShrinks DEF ServerReceiveFails, RequestRefused
  <2>2. ASSUME NEW s \in TransferSlots, RequestGetsNoSocket(fd, s)
        PROVE  QueuesShrink
    BY <2>2, BecomesShrinks DEF RequestGetsNoSocket
  <2>3. ASSUME NEW s \in TransferSlots,
               RequestGetsNoFileSlot(fd, s) \/ RequestedFileNotOpened(fd, s)
        PROVE  QueuesShrink
    BY <2>3, BecomesShrinks DEF RequestGetsNoFileSlot, RequestedFileNotOpened
  <2>4. ASSUME NEW s \in TransferSlots,
               RequestNotRegistered(fd, s) \/ FirstDataFails(fd, s)
        PROVE  QueuesShrink
    BY <2>4, BecomesShrinks DEF RequestNotRegistered, FirstDataFails
  <2>5. ASSUME NEW s \in TransferSlots, RequestServed(fd, s)
        PROVE  QueuesShrink
    BY <2>5, BecomesShrinks DEF RequestServed
  <2> QED
    BY <1>5, <2>1, <2>2, <2>3, <2>4, <2>5 DEF ServerHandler
<1>6. ASSUME NEW fd \in Fds, NEW s \in TransferSlots, TransferHandler(s, fd)
      PROVE  QueuesShrink
  <2>1. CASE TransferMarkedFailed(s, fd)
    BY <2>1, BecomesShrinks DEF TransferMarkedFailed
  <2>2. CASE PacketOfAnotherPeer(s, fd) \/ TransferRejects(s, fd)
    BY <2>2, BecomesShrinks DEF PacketOfAnotherPeer, TransferRejects
  <2>3. CASE TransferCompletes(s, fd) \/ NextDataFails(s, fd)
    BY <2>3, BecomesShrinks DEF TransferCompletes, NextDataFails
  <2>4. CASE AckAdvances(s, fd)
    BY <2>4, BecomesShrinks DEF AckAdvances
  <2> QED
    BY <1>6, <2>1, <2>2, <2>3, <2>4 DEF TransferHandler
<1> QED
  BY <1>1, <1>2, <1>3, <1>4, <1>5, <1>6 DEF Reactor, Lifecycle

LEMMA ServerProcessKeeps ==
    ASSUME SysInv, ServerProcess, BlocksInStep(res')
    PROVE  NetInStep' /\ QueuesInStep' /\ TransfersInStep'
<1>1. Next /\ client' = client /\ TypeOK
  BY DEF ServerProcess, Next, Environment, SysInv, IInv, Inv
<1>2. TransfersInStep'
  BY <1>1, ServerNotAhead DEF TransfersInStep
<1>3. QueuesInStep'
  <2>1. QueuesShrink
    BY <1>1, ServerShrinksQueues DEF ServerProcess
  <2> QED
    BY <1>1, <2>1 DEF QueuesShrink, QueuesInStep, SysInv
<1>4. ASSUME NEW p \in net', p \notin net
      PROVE  Honest(client, p.msg) /\ Due(client, p.msg)
  <2>1. PICK m \in sent' : p = Original(m)
    BY <1>4 DEF ServerProcess
  <2>2. p.msg = m
    BY <2>1, OriginalMsg
  <2>3. Reactor
    BY <2>1 DEF ServerProcess, Lifecycle, ServerStart, ServerStop, ReactorRun,
       PollFails, SocketError
  <2>4. m.kind \in {"DATA", "ERROR"}
    BY <2>1, <2>3, ServerSendsToClients DEF FromServer, SysInv
  <2>5. CASE m.kind = "DATA"
    BY <1>1, <2>1, <2>2, <2>5, ServerSendsDue
  <2>6. CASE m.kind = "ERROR"
    BY <2>2, <2>6 DEF Honest, Due
  <2> QED
    BY <2>4, <2>5, <2>6
<1>5. NetInStep'
  BY <1>1, <1>4 DEF NetInStep, SysInv
<1> QED
  BY <1>2, <1>3, <1>5
-----------------------------------------------------------------------------
(* The network. *)

LEMMA NetworkKeeps ==
    ASSUME SysInv, Network
    PROVE  NetInStep' /\ QueuesInStep' /\ TransfersInStep' /\ client' = client
<1>1. PICK p \in net : \/ \E fd \in OpenFds(res) : Arrives(fd, p)
                       \/ Lose(p)
                       \/ Duplicate(p)
  BY DEF Network
<1>2. client' = client /\ res' = res
  BY <1>1 DEF Arrives, Deliver, Lose, Duplicate, vars
<1>3. TransfersInStep'
  BY <1>2 DEF SysInv, TransfersInStep
<1>4. ASSUME NEW q \in net'
      PROVE  Honest(client, q.msg) /\ Due(client, q.msg)
  <2>1. \E o \in net : q.msg = o.msg
    <3>1. CASE q \in net
      BY <3>1
    <3>2. CASE q \notin net
      <4>1. q = [p EXCEPT !.copy = copies']
        BY <1>1, <1>4, <3>2 DEF Arrives, Lose, Duplicate
      <4>2. q.msg = p.msg
        BY <4>1
      <4> QED
        BY <4>2
    <3> QED
      BY <3>1, <3>2
  <2> QED
    BY <2>1 DEF SysInv, NetInStep
<1>5. NetInStep'
  BY <1>2, <1>4 DEF NetInStep
<1>6. CASE Lose(p) \/ Duplicate(p)
  BY <1>2, <1>3, <1>5, <1>6 DEF Lose, Duplicate, vars, SysInv, QueuesInStep
<1>7. ASSUME NEW fd \in OpenFds(res), Arrives(fd, p)
      PROVE  QueuesInStep'
  <2> DEFINE d == [from |-> p.msg.from, kind |-> p.msg.kind,
                   arg |-> p.msg.arg]
  <2>1. rxq' = [rxq EXCEPT ![fd] = Append(rxq[fd], d)]
    BY <1>7 DEF Arrives, Deliver
  <2>2. Honest(client, d)
    BY DEF SysInv, NetInStep, Honest
  <2> HIDE DEF d
  <2>3. rxq \in [Fds -> Seq(Datagrams)]
    BY DEF SysInv, IInv, Inv, TypeOK
  <2>4. ASSUME NEW g \in Fds, NEW i \in DOMAIN rxq'[g]
        PROVE  Honest(client, rxq'[g][i])
    <3>1. CASE g # fd
      BY <2>1, <2>3, <3>1 DEF SysInv, QueuesInStep
    <3>2. CASE g = fd
      <4>1. rxq'[g] = Append(rxq[g], d) /\ rxq[g] \in Seq(Datagrams)
        BY <2>1, <2>3, <3>2
      <4>2. \/ i \in DOMAIN rxq[g] /\ rxq'[g][i] = rxq[g][i]
            \/ rxq'[g][i] = d
        BY <4>1
      <4> QED
        BY <2>2, <4>2 DEF SysInv, QueuesInStep
    <3> QED
      BY <3>1, <3>2
  <2> QED
    BY <1>2, <2>4 DEF QueuesInStep
<1> QED
  BY <1>1, <1>2, <1>3, <1>5, <1>6, <1>7
-----------------------------------------------------------------------------
LEMMA SysInitial == SysInit => SysInv
<1> SUFFICES ASSUME SysInit PROVE SysInv
  OBVIOUS
<1>1. /\ IInv /\ NetTypeOK /\ NetInStep
      /\ rxq = [fd \in Fds |-> <<>>]
      /\ res.transfer = [s \in TransferSlots |-> FreeTransfer]
  BY Initial DEF SysInit, Init, NetTypeOK, NetInStep, IInv
<1>2. BlocksInStep(res) /\ TransfersInStep
  BY <1>1, FreeFields DEF BlocksInStep, TransfersInStep, Live
<1>3. QueuesInStep
  BY <1>1 DEF QueuesInStep
<1>4. ClientsInStep
  <2> DEFINE x == [status |-> "idle", name |-> None, expected |-> 1,
                   file |-> <<>>]
  <2>1. client = [c \in Peers |-> x]
    BY DEF SysInit
  <2>2. x \in ClientStates
    BY DEF ClientStates
  <2>3. InOrder(x)
    BY PoolSizes DEF InOrder
  <2> QED
    BY <2>1, <2>2, <2>3 DEF ClientsInStep
<1> QED
  BY <1>1, <1>2, <1>3, <1>4 DEF SysInv

LEMMA SysInductive == SysInv /\ [SysNext]_sysVars => SysInv'
<1> SUFFICES ASSUME SysInv, [SysNext]_sysVars PROVE SysInv'
  OBVIOUS
<1>1. [Next]_vars
  BY SysStepIsServerStep DEF SysInv
<1>2. IInv' /\ BlocksInStep(res') /\ NetTypeOK'
  BY <1>1, Inductive, BlocksInductive, NetTypeKept DEF SysInv
<1>3. ClientsInStep' /\ NetInStep' /\ QueuesInStep' /\ TransfersInStep'
  <2>1. CASE UNCHANGED sysVars
    BY <2>1 DEF sysVars, vars, SysInv, ClientsInStep, NetInStep, QueuesInStep,
       TransfersInStep
  <2>2. CASE ServerProcess
    BY <1>2, <2>2, ServerProcessKeeps DEF ServerProcess, SysInv, ClientsInStep
  <2>3. CASE Network
    BY <2>3, NetworkKeeps DEF SysInv, ClientsInStep
  <2>4. CASE \E c \in Peers : Client(c)
    BY <2>4, ClientStep, ClientKeeps
  <2> QED
    BY <2>1, <2>2, <2>3, <2>4 DEF SysNext
<1> QED
  BY <1>2, <1>3 DEF SysInv

LEMMA SysInvariance == SysSpec => []SysInv
BY SysInitial, SysInductive, PTL DEF SysSpec
-----------------------------------------------------------------------------
\* OneBlockOutstanding: whatever is lost, late or repeated, and however many
\* transfers a repeated request has started, none of them is more than one
\* block ahead of what its client has written, for a file of any length: the
\* client never accepts the blocks beyond those whose numbers it can read.
THEOREM NoMoreThanOneBlock == SysSpec => []OneBlockOutstanding
<1>1. SysInv => OneBlockOutstanding
  <2> SUFFICES ASSUME SysInv, NEW s \in TransferSlots, Live(res, s)
               PROVE  LET x == res.transfer[s]
                      IN  res.file[x.file].pos <= Len(client[x.peer].file) + 1
    BY DEF OneBlockOutstanding
  <2>1. NotAhead(client, res, s)
    BY LivePosition
  <2> QED
    BY <2>1 DEF NotAhead, Position, Got
<1> QED
  BY <1>1, SysInvariance, PTL

\* CompletionDelivered: a transfer that ends with the acknowledgement of its
\* last block, rather than by a failure, leaves a client that has the file.
THEOREM CompletedIsDelivered == SysSpec => CompletionDelivered
<1> DEFINE A == \A fd \in Fds, s \in TransferSlots :
        /\ FromPeer(s, fd) /\ next' # next
        /\ IsExpectedAck(s, Head(rxq[fd])) /\ res.transfer[s].final
        /\ ~Live(res', s)
        => client[res.transfer[s].peer].status = "complete"
<1>1. SysInv => A
  <2> SUFFICES ASSUME SysInv, NEW fd \in Fds, NEW s \in TransferSlots,
                      FromPeer(s, fd), IsExpectedAck(s, Head(rxq[fd])),
                      res.transfer[s].final
               PROVE  client[res.transfer[s].peer].status = "complete"
    OBVIOUS
  <2> DEFINE c   == res.transfer[s].peer
             got == Got(client, c)
             n   == FileBlocks[res.transfer[s].name]
  <2>1. Live(res, s)
    BY OwnerIsLive DEF FromPeer, Receives, SysInv, IInv, Inv, Sound
  <2>2. /\ c \in Peers /\ client[c].name = res.transfer[s].name
        /\ got \in Nat /\ Position(res, s) \in 1 .. got
    BY <2>1, ExpectedAckIsOfPart
  <2>3. Position(res, s) = n + 1 /\ n \in Nat
    BY <2>1, LivePosition DEF InStep
  <2>4. InOrder(client[c])
    BY <2>2 DEF SysInv, ClientsInStep
  <2>5. got > 0 => got \in 1 .. n + 1
    BY <2>2, <2>4 DEF InOrder, Got, Parts
  <2>6. got = n + 1 /\ got > 0
    BY <2>2, <2>3, <2>5
  <2> QED
    BY <2>2, <2>4, <2>6 DEF InOrder, Got
<1>2. SysInv => [A]_sysVars
  BY <1>1
<1> QED
  BY <1>2, SysInvariance, PTL DEF CompletionDelivered
-----------------------------------------------------------------------------
(* The downloads implement FileDownload. *)

\* What FileDownload sees of a client.
View(x) == [status |-> x.status, name |-> x.name, got |-> x.file]
Seen(cl) == [c \in Peers |-> View(cl[c])]
Views == [status : {"idle", "waiting", "complete", "failed"},
          name : Names \cup {None}, got : Seq(Names \X Nat)]

\* The updates of a download, as FileDownload writes them and as a whole.
With(D, c, v)     == [D EXCEPT ![c] = v]
Fails(D, c)       == [D EXCEPT ![c].status = "failed"]
Asks(D, c, name)  == [D EXCEPT ![c].status = "waiting", ![c].name = name]
Gets(D, c, f, st) == [D EXCEPT ![c].got = f, ![c].status = st]

LEMMA ViewFails ==
    ASSUME NEW D \in [Peers -> Views], NEW c \in Peers, NEW x, D[c] = View(x)
    PROVE  Fails(D, c) = With(D, c, [status |-> "failed", name |-> x.name,
                                     got |-> x.file])
<1>1. PICK d : d = D[c]
  OBVIOUS
<1>2. [d EXCEPT !.status = "failed"]
        = [status |-> "failed", name |-> x.name, got |-> x.file]
  BY <1>1 DEF View
<1>3. [D EXCEPT ![c].status = "failed"]
        = [D EXCEPT ![c] = [d EXCEPT !.status = "failed"]]
  BY <1>1 DEF Views
<1> QED
  BY <1>2, <1>3, Zenon DEF Fails, With

LEMMA ViewRequests ==
    ASSUME NEW D \in [Peers -> Views], NEW c \in Peers, NEW x, D[c] = View(x),
           NEW name
    PROVE  Asks(D, c, name) = With(D, c, [status |-> "waiting", name |-> name,
                                          got |-> x.file])
<1>1. PICK d : d = D[c]
  OBVIOUS
<1> DEFINE e == [d EXCEPT !.status = "waiting"]
<1>2. e = [status |-> "waiting", name |-> x.name, got |-> x.file]
  BY <1>1 DEF View
<1> HIDE DEF e
<1>3. [e EXCEPT !.name = name]
        = [status |-> "waiting", name |-> name, got |-> x.file]
  BY <1>2
<1>4. [D EXCEPT ![c].status = "waiting", ![c].name = name]
        = [D EXCEPT ![c] = [d EXCEPT !.status = "waiting", !.name = name]]
  BY <1>1 DEF Views
<1> QED
  BY <1>3, <1>4, Zenon DEF e, Asks, With

LEMMA ViewReceives ==
    ASSUME NEW D \in [Peers -> Views], NEW c \in Peers, NEW x, D[c] = View(x),
           NEW got, NEW status
    PROVE  Gets(D, c, got, status)
             = With(D, c, [status |-> status, name |-> x.name, got |-> got])
<1>1. PICK d : d = D[c]
  OBVIOUS
<1> DEFINE e == [d EXCEPT !.got = got]
<1>2. e = [status |-> x.status, name |-> x.name, got |-> got]
  BY <1>1 DEF View
<1> HIDE DEF e
<1>3. [e EXCEPT !.status = status]
        = [status |-> status, name |-> x.name, got |-> got]
  BY <1>2
<1>4. [D EXCEPT ![c].got = got, ![c].status = status]
        = [D EXCEPT ![c] = [d EXCEPT !.got = got, !.status = status]]
  BY <1>1 DEF Views
<1> QED
  BY <1>3, <1>4, Zenon DEF e, Gets, With

\* A client that is in order has the whole file when it has all its parts.
LEMMA WholeFile ==
    ASSUME NEW name \in DOMAIN FileBlocks, NEW got \in Seq(Names \X Nat),
           \A i \in 1 .. Len(got) : got[i] = <<name, i>>
    PROVE  got = Download!Content(name) <=> Len(got) = FileBlocks[name] + 1
<1> DEFINE n == FileBlocks[name] + 1
           content == [i \in 1 .. n |-> <<name, i>>]
<1>1. n \in Nat \ {0} /\ Len(got) \in Nat /\ DOMAIN got = 1 .. Len(got)
  BY Files
<1>2. Download!Content(name) = content
  BY DEF Download!Content
<1>3. got = [i \in 1 .. Len(got) |-> <<name, i>>]
  BY <1>1
<1> HIDE DEF n
<1>4. ASSUME got = content PROVE Len(got) = n
  <2>1. DOMAIN got = 1 .. n
    BY <1>4
  <2>2. \A i : i \in 1 .. Len(got) <=> i \in 1 .. n
    BY <1>1, <2>1, Zenon
  <2>3. n \in 1 .. Len(got)
    <3>1. n \in 1 .. n
      BY <1>1
    <3> QED
      BY <2>2, <3>1, Zenon
  <2>4. Len(got) \in 1 .. n
    <3>1. Len(got) \in 1 .. Len(got)
      BY <1>1, <2>3
    <3> QED
      BY <2>2, <3>1, Zenon
  <2>5. \A i, j \in Nat : i \in 1 .. j /\ j \in 1 .. i => i = j
    OBVIOUS
  <2> QED
    BY <1>1, <2>3, <2>4, <2>5, Zenon
<1> QED
  BY <1>2, <1>3, <1>4 DEF n

LEMMA ClientStepIsDownloadStep ==
    ASSUME SysInv, NEW c \in Peers, Client(c)
    PROVE  \/ \E name \in Names : Download!Request(c, name)
           \/ Download!Receive(c)
           \/ Download!Fail(c)
           \/ UNCHANGED client
<1> DEFINE x == client[c]
           D == Seen(client)
<1>1. client \in [Peers -> ClientStates] /\ x \in ClientStates /\ InOrder(x)
  BY DEF SysInv, ClientsInStep
<1>2. D[c] = View(x) /\ D \in [Peers -> Views]
  BY <1>1 DEF Seen, View, Views, ClientStates
<1>3. ASSUME NEW y, client' = [client EXCEPT ![c] = y]
      PROVE  Seen(client') = With(D, c, View(y))
  BY <1>1, <1>3 DEF Seen, With
<1>4. /\ View(x).status = x.status /\ View(x).name = x.name
      /\ View(x).got = x.file
  BY DEF View
<1> HIDE DEF D, x
<1>5. ASSUME NEW name \in ValidNames, ClientRequests(c, name)
      PROVE  \E n \in Names : Download!Request(c, n)
  <2>1. Seen(client') = With(D, c, View(Asking(x, name)))
    BY <1>3, <1>5, RequestsEffect DEF x
  <2>2. View(Asking(x, name))
          = [status |-> "waiting", name |-> name, got |-> x.file]
    BY DEF View, Asking
  <2>3. D[c].status = "idle" /\ name \in Names
    BY <1>2, <1>4, <1>5, Files DEF ClientRequests, x
  <2>4. Seen(client') = Asks(D, c, name)
    BY <1>2, <2>1, <2>2, ViewRequests
  <2>5. Download!Request(c, name)
    BY <2>3, <2>4 DEF Download!Request, Asks, Seen, View, D
  <2> QED
    BY <2>3, <2>5
<1>6. ASSUME NEW p \in net, p.msg.to = c, x.status = "waiting",
             ClientTakes(c, p)
      PROVE  Download!Receive(c)
  <2> DEFINE m == p.msg
             y == Taken(x, m)
             name == x.name
  <2>1. /\ name \in DOMAIN FileBlocks /\ IsPart(m, name, Len(x.file) + 1)
        /\ 2 * (Len(x.file) + 1) < BlockMod
    BY <1>6, TakesNext DEF ClientTakes, Got, x
  <2>2. y \in ClientStates /\ InOrder(y) /\ y.name = name
    BY <1>1, <1>6, <2>1, TakenInOrder
  <2>3. /\ m.chunk = <<name, Len(x.file) + 1>>
        /\ Len(x.file) + 1 \in 1 .. FileBlocks[name] + 1
        /\ m.final <=> Len(x.file) + 1 = FileBlocks[name] + 1
    BY <2>1 DEF IsPart, Parts
  <2>4. /\ y.file = Append(x.file, <<name, Len(x.file) + 1>>)
        /\ y.status = IF m.final THEN "complete" ELSE "waiting"
    BY <2>3 DEF Taken
  <2>5. Len(y.file) = Len(x.file) + 1 /\ Len(x.file) \in Nat
    BY <1>1, <2>4 DEF ClientStates
  <2>6. y.file = Download!Content(name) <=> m.final
    <3>1. /\ y.file \in Seq(Names \X Nat)
          /\ \A i \in 1 .. Len(y.file) : y.file[i] = <<name, i>>
      BY <2>2 DEF InOrder, ClientStates
    <3> HIDE DEF y
    <3>2. y.file = Download!Content(name)
            <=> Len(y.file) = FileBlocks[name] + 1
      BY <2>1, <3>1, WholeFile
    <3> QED
      BY <2>3, <2>5, <3>2
  <2>7. Seen(client') = With(D, c, View(y))
    BY <1>3, <1>6, TakesEffect DEF x
  <2>8. Len(x.file) <= FileBlocks[name]
    BY <2>1, <2>3, <2>5, Files
  <2>9. View(y) = [status |-> IF y.file = Download!Content(name)
                              THEN "complete" ELSE "waiting",
                   name |-> name, got |-> y.file]
    BY <2>2, <2>4, <2>6 DEF View
  <2> DEFINE status == IF y.file = Download!Content(name)
                       THEN "complete" ELSE "waiting"
  <2> HIDE DEF y, status
  <2>10. Seen(client') = Gets(D, c, y.file, status)
    BY <1>2, <2>7, <2>9, ViewReceives DEF status
  <2>11. /\ D[c].status = "waiting" /\ D[c].name = name /\ D[c].got = x.file
    BY <1>2, <1>4, <1>6
  <2>12. /\ Seen(client') = [D EXCEPT ![c].got = y.file, ![c].status = status]
         /\ Append(x.file, <<name, Len(x.file) + 1>>) = y.file
    BY <2>4, <2>10 DEF Gets
  <2>13. LET d == D[c]
             g == Append(d.got, <<d.name, Len(d.got) + 1>>)
         IN  /\ d.status = "waiting" /\ d.name \in DOMAIN FileBlocks
             /\ Len(d.got) <= FileBlocks[d.name]
             /\ Seen(client') = [D EXCEPT
                    ![c].got = g,
                    ![c].status = IF g = Download!Content(d.name)
                                  THEN "complete" ELSE "waiting"]
    BY <2>1, <2>8, <2>11, <2>12, Zenon DEF status
  <2> QED
    BY <2>13 DEF Download!Receive, Seen, View, D
<1>7. ASSUME NEW p, x.status = "waiting", ClientFails(c, p)
      PROVE  Download!Fail(c)
  <2>1. Seen(client') = With(D, c, View(GivingUp(x)))
    BY <1>3, <1>7, FailsEffect DEF x
  <2>2. View(GivingUp(x))
          = [status |-> "failed", name |-> x.name, got |-> x.file]
    BY DEF View, GivingUp
  <2>3. Seen(client') = Fails(D, c)
    BY <1>2, <2>1, <2>2, ViewFails
  <2> QED
    BY <1>2, <1>4, <1>7, <2>3 DEF Download!Fail, Fails, Seen, View, D
<1>8. ASSUME NEW p, ClientIgnores(c, p)
      PROVE  UNCHANGED client
  BY <1>8 DEF ClientIgnores
<1> QED
  BY <1>5, <1>6, <1>7, <1>8 DEF Client, x

\* The system implements FileDownload, step by step: what a client writes is
\* the file it asked for from its beginning, every part once and in order, and
\* it calls the download complete exactly when it has all of it; for files of
\* any length and whatever the network does.
THEOREM SystemImplementsDownload == SysSpec => ImplementsDownload
<1> DEFINE D == [c \in Peers |-> [status |-> client[c].status,
                                  name |-> client[c].name,
                                  got |-> client[c].file]]
<1>1. SysInit => Download!Init
  BY DEF SysInit, Download!Init
<1>2. SysInv /\ [SysNext]_sysVars => [Download!Next]_D
  <2> SUFFICES ASSUME SysInv, [SysNext]_sysVars PROVE [Download!Next]_D
    OBVIOUS
  <2>1. CASE UNCHANGED client
    BY <2>1
  <2>2. ASSUME NEW c \in Peers, Client(c)
        PROVE  [Download!Next]_D
    BY <2>1, <2>2, ClientStepIsDownloadStep DEF Download!Next
  <2>3. CASE UNCHANGED sysVars \/ ServerProcess \/ Network
    BY <2>1, <2>3, NetworkKeeps DEF sysVars, ServerProcess
  <2> QED
    BY <2>2, <2>3 DEF SysNext
<1> QED
  BY <1>1, <1>2, SysInvariance, PTL
  DEF SysSpec, ImplementsDownload, Download!Spec
=============================================================================

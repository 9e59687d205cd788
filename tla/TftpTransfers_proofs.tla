------------------------ MODULE TftpTransfers_proofs ------------------------
(***************************************************************************)
(* Proofs of what TftpServer does to its transfers: nothing but its own    *)
(* handler changes one, and what it sends is the next part of its file.    *)
(***************************************************************************)
EXTENDS TftpBlocks_proofs

USE PoolSizes, Files, NoneIsFresh, Switches DEF Null, Server

\* What belongs to the transfers of r, but for s, is the same in q.
OthersKept(q, r, s) ==
    \A i \in TransferSlots \ {s} : Belongings(q, i) = Belongings(r, i)

\* The transports and files of two live transfers are not the same.
LEMMA HoldingsDiffer ==
    ASSUME NEW Lost, NEW r, Good(r, Lost), NEW i \in TransferSlots, Live(r, i)
    PROVE  /\ r.transfer[i].file \in FileSlots
           /\ r.transfer[i].transport \in TransportSlots
           /\ r.file[r.transfer[i].file].inUse
           /\ r.transport[r.transfer[i].transport].used
           /\ r.transfer[i].transport # r.server
           /\ \A s \in TransferSlots \ {i} : Live(r, s) =>
                /\ r.transfer[i].file # r.transfer[s].file
                /\ r.transfer[i].transport # r.transfer[s].transport
BY DEF Good, WholeOrFree, NothingShared, NothingLeaks, Live, Objects, Transfers

LEMMA SameBelongings ==
    ASSUME NEW r, NEW q, NEW i, q.transfer[i] = r.transfer[i],
           Live(r, i) =>
             /\ q.file[r.transfer[i].file] = r.file[r.transfer[i].file]
             /\ q.transport[r.transfer[i].transport]
                  = r.transport[r.transfer[i].transport]
    PROVE  Belongings(q, i) = Belongings(r, i)
BY DEF Belongings, Live

LEMMA CleanUpKeepsOthers ==
    ASSUME NEW Lost, NEW r, Good(r, Lost), NEW s \in TransferSlots, Live(r, s),
           Registered(r, s)
    PROVE  OthersKept(CleanUp(r, s), r, s)
<1> DEFINE q == CleanUp(r, s)
<1>1. q = Cleaned(r, s)
  BY CleanUpGood
<1> HIDE DEF q
<1> SUFFICES ASSUME NEW i \in TransferSlots \ {s}
             PROVE  Belongings(q, i) = Belongings(r, i)
  BY DEF OthersKept, q
<1>2. Live(r, i) =>
        /\ r.transfer[i].file \in FileSlots
        /\ r.transfer[i].transport \in TransportSlots
        /\ r.transfer[i].file # r.transfer[s].file
        /\ r.transfer[i].transport # r.transfer[s].transport
  BY HoldingsDiffer
<1>3. r.transfer \in [TransferSlots -> Transfers]
  BY DEF Good, Objects
<1>4. /\ q.transfer[i] = r.transfer[i]
      /\ Live(r, i) =>
           /\ q.file[r.transfer[i].file] = r.file[r.transfer[i].file]
           /\ q.transport[r.transfer[i].transport]
                = r.transport[r.transfer[i].transport]
  BY <1>1, <1>2, <1>3 DEF Cleaned
<1> QED
  BY <1>4, SameBelongings

LEMMA AbortKeepsOthers ==
    ASSUME NEW Lost, NEW r, Good(r, Lost), NEW s \in TransferSlots, Live(r, s)
    PROVE  OthersKept(Abort(r, s), r, s)
<1>1. /\ \A i \in TransferSlots \ {s} :
            Abort(r, s).transfer[i] = r.transfer[i]
      /\ Abort(r, s).file = r.file /\ Abort(r, s).transport = r.transport
  BY AbortGood
<1> QED
  BY <1>1, SameBelongings DEF OthersKept

LEMMA SendingKeepsOthers ==
    ASSUME NEW Lost, NEW q, Good(q, Lost), NEW s \in TransferSlots, Live(q, s),
           NEW o, SentOn(o, q, s, Lost)
    PROVE  OthersKept(o, q, s)
<1> SUFFICES ASSUME NEW i \in TransferSlots \ {s}
             PROVE  Belongings(o, i) = Belongings(q, i)
  BY DEF OthersKept
<1>1. Live(q, i) =>
        /\ q.transfer[i].file \in FileSlots
        /\ q.transfer[i].file # q.transfer[s].file
  BY HoldingsDiffer
<1>2. /\ o.transfer[i] = q.transfer[i] /\ o.transport = q.transport
      /\ Live(q, i) =>
           o.file[q.transfer[i].file] = q.file[q.transfer[i].file]
  BY <1>1 DEF SentOn
<1> QED
  BY <1>2, SameBelongings

\* A request that is served touches no other transfer: it takes free objects.
LEMMA ServedKeepsOthers ==
    ASSUME NEW Lost, Inv(Lost), NEW fd \in Fds, NEW s \in TransferSlots,
           RequestServed(fd, s)
    PROVE  ~Live(res, s) /\ OthersKept(res', res, s)
<1> DEFINE p == Head(rxq[fd]).from
           n == Head(rxq[fd]).arg
<1>1. PICK t \in TransportSlots, sfd \in Fds, f \in FileSlots :
        /\ HasFile(fd, s, t, sfd, f)
        /\ res' = SendNextData(Step5(res, s, p, n, t, sfd, f), s)
  BY DEF RequestServed, Started, WithSocket, WithFile, Becomes,
         Step1, Step2, Step3, Step4, Step5
<1>2. /\ Accepts(fd, s) /\ n \in DOMAIN FileBlocks
      /\ ~res.transport[t].used /\ ~res.file[f].inUse
      /\ sfd \in Fds \ OpenFds(res)
  BY <1>1 DEF HasFile, HasSocket, FirstFreeTransport, FirstFreeFile
<1>3. p \in Peers /\ ~res.transfer[s].inUse
  BY <1>2, AcceptsFacts
<1> HIDE DEF p, n
<1> DEFINE q == Step5(res, s, p, n, t, sfd, f)
           o == SendNextData(q, s)
<1>4. Granted(q, res, s, n, f, Lost) /\ res' = o /\ Good(res, Lost)
  BY <1>1, <1>2, <1>3, RequestGood DEF Inv, Sound
<1> HIDE DEF q
<1>5. Good(q, Lost) /\ Live(q, s) /\ Extends(q, res, s) /\ SentOn(o, q, s, Lost)
  BY <1>4, SendNextGood DEF Granted
<1> HIDE DEF o
<1>6. OthersKept(o, q, s)
  BY <1>5, SendingKeepsOthers
<1>7. ASSUME NEW i \in TransferSlots \ {s}
      PROVE  Belongings(q, i) = Belongings(res, i)
  <2>1. q.transfer[i] = res.transfer[i]
    BY <1>5 DEF Extends, Objects
  <2>2. Live(res, i) => Live(q, i)
    BY <2>1 DEF Live
  <2>3. Live(res, i) =>
          /\ res.transfer[i].file \in FileSlots
          /\ res.transfer[i].transport \in TransportSlots
          /\ q.transfer[i].file # q.transfer[s].file
          /\ q.transfer[i].transport # q.transfer[s].transport
    BY <1>4, <1>5, <2>2, HoldingsDiffer
  <2>4. Live(res, i) =>
          /\ q.file[res.transfer[i].file] = res.file[res.transfer[i].file]
          /\ q.transport[res.transfer[i].transport]
                = res.transport[res.transfer[i].transport]
    BY <1>5, <2>1, <2>3 DEF Extends
  <2> QED
    BY <2>1, <2>4, SameBelongings
<1>8. OthersKept(o, res, s)
  BY <1>6, <1>7 DEF OthersKept
<1> QED
  BY <1>3, <1>4, <1>8 DEF Live

\* What the handler of a transfer does, to it and to the others.
LEMMA HandlerIsolates ==
    ASSUME NEW Lost, Inv(Lost), NEW fd \in Fds, NEW s \in TransferSlots,
           TransferHandler(s, fd)
    PROVE  /\ OthersKept(res', res, s)
           /\ \/ FromPeer(s, fd) \/ res' = res
              \/ AtEntry /\ res.regs[next].ctx = s /\ res' = Abort(res, s)
<1>1. Good(res, Lost) /\ Live(res, s) /\ Registered(res, s)
  BY CalledIsRegistered DEF Inv, Sound
<1>2. OthersKept(res, res, s)
  BY DEF OthersKept
<1>3. OthersKept(Abort(res, s), res, s)
  BY <1>1, AbortKeepsOthers
<1>4. OthersKept(CleanUp(Abort(res, s), s), res, s)
  <2> DEFINE a == Abort(res, s)
  <2>1. /\ Good(a, Lost) /\ Live(a, s) /\ Registered(a, s)
        /\ \A i \in TransferSlots \ {s} : a.transfer[i] = res.transfer[i]
    BY <1>1, AbortGood DEF Registered
  <2> HIDE DEF a
  <2>2. OthersKept(CleanUp(a, s), a, s)
    BY <2>1, CleanUpKeepsOthers
  <2> QED
    BY <1>3, <2>1, <2>2 DEF OthersKept, Live, a
<1>5. CASE TransferMarkedFailed(s, fd)
  <2>1. AtEntry /\ res.regs[next].ctx = s /\ res' = Abort(res, s)
    BY <1>5 DEF TransferMarkedFailed, ReceiveFails, Called, Becomes
  <2> QED
    BY <1>3, <2>1
<1>6. CASE PacketOfAnotherPeer(s, fd)
  BY <1>2, <1>6 DEF PacketOfAnotherPeer, Becomes
<1>7. CASE TransferRejects(s, fd) \/ NextDataFails(s, fd)
  <2>1. FromPeer(s, fd) /\ res' = CleanUp(Abort(res, s), s)
    BY <1>7 DEF TransferRejects, NextDataFails, Becomes
  <2> QED
    BY <1>4, <2>1
<1>8. CASE TransferCompletes(s, fd)
  <2>1. FromPeer(s, fd) /\ res' = CleanUp(res, s)
    BY <1>8 DEF TransferCompletes, Becomes
  <2> QED
    BY <1>1, <2>1, CleanUpKeepsOthers
<1>9. CASE AckAdvances(s, fd)
  <2>1. FromPeer(s, fd) /\ res' = SendNextData(res, s)
    BY <1>9 DEF AckAdvances, Becomes
  <2>2. OthersKept(SendNextData(res, s), res, s)
    BY <1>1, SendNextGood, SendingKeepsOthers
  <2> QED
    BY <2>1, <2>2
<1> QED
  BY <1>5, <1>6, <1>7, <1>8, <1>9 DEF TransferHandler

\* The start and the stop of the server take and give back its own transport.
LEMMA LifecycleIsolates ==
    ASSUME NEW Lost, Inv(Lost), ServerStart \/ ServerStop,
           NEW i \in TransferSlots
    PROVE  Belongings(res', i) = Belongings(res, i)
<1>0. Good(res, Lost)
  BY DEF Inv, Sound
<1>1. Live(res, i) =>
        /\ res.transfer[i].transport \in TransportSlots
        /\ res.transport[res.transfer[i].transport].used
        /\ res.transfer[i].transport # res.server
  BY <1>0, HoldingsDiffer
<1>2. CASE ServerStart
  <2>1. PICK t \in TransportSlots, fd \in Fds \ OpenFds(res) :
            /\ FirstFreeTransport(res, t)
            /\ res' = Register([TakeTransport(res, t, fd)
                                  EXCEPT !.server = t], fd, Server)
    BY <1>2 DEF ServerStart, Becomes
  <2>2. res.server = Null /\ ~res.transport[t].used
    BY <1>2, <2>1 DEF ServerStart, FirstFreeTransport
  <2>3. /\ res'.transfer = res.transfer /\ res'.file = res.file
        /\ \A j \in TransportSlots \ {t} : res'.transport[j] = res.transport[j]
    BY <1>0, <2>1, <2>2, ServerStartGood
  <2> QED
    BY <1>1, <2>2, <2>3, SameBelongings
<1>3. CASE ServerStop
  <2>1. res' = StopServer(res) /\ res.server # Null
    BY <1>3 DEF ServerStop, Becomes
  <2>2. /\ res'.transfer = res.transfer /\ res'.file = res.file
        /\ \A j \in TransportSlots \ {res.server} :
                res'.transport[j] = res.transport[j]
    BY <1>0, <2>1, ServerStopGood DEF StopServer
  <2> QED
    BY <1>1, <2>2, SameBelongings
<1> QED
  BY <1>2, <1>3

\* What belongs to a transfer changes by a request that is served, which
\* starts it, and by its own handler.
LEMMA StepTouches ==
    ASSUME NEW Lost, Inv(Lost), [Next]_vars, NEW i \in TransferSlots
    PROVE  \/ Belongings(res', i) = Belongings(res, i)
           \/ \E fd \in Fds : RequestServed(fd, i) \/ TransferHandler(i, fd)
<1>1. CASE \/ UNCHANGED vars \/ Poll \/ SkipIdle \/ EndPass \/ HandlerReturns
           \/ ReactorRun \/ PollFails \/ Environment
  BY <1>1 DEF vars, Poll, SkipIdle, EndPass, HandlerReturns, ReactorRun,
              PollFails, Environment, SocketError, Deliver
<1>2. CASE ServerStart \/ ServerStop
  BY <1>2, LifecycleIsolates
<1>3. ASSUME NEW fd \in Fds, ServerHandler(fd), ~RequestServed(fd, i)
      PROVE  Belongings(res', i) = Belongings(res, i)
  <2>1. CASE ServerReceiveFails(fd) \/ RequestRefused(fd)
    BY <2>1 DEF ServerReceiveFails, RequestRefused, Becomes
  <2>2. ASSUME NEW s \in TransferSlots,
               \/ RequestGetsNoSocket(fd, s)
               \/ RequestGetsNoFileSlot(fd, s)
               \/ RequestedFileNotOpened(fd, s)
               \/ RequestNotRegistered(fd, s)
               \/ FirstDataFails(fd, s)
        PROVE  res' = res
    BY <2>2, FailedRequestIsUndone DEF Becomes
  <2>3. ASSUME NEW s \in TransferSlots, RequestServed(fd, s)
        PROVE  Belongings(res', i) = Belongings(res, i)
    BY <1>3, <2>3, ServedKeepsOthers DEF OthersKept
  <2> QED
    BY <1>3, <2>1, <2>2, <2>3 DEF ServerHandler
<1>4. ASSUME NEW fd \in Fds, NEW s \in TransferSlots, TransferHandler(s, fd),
             s # i
      PROVE  Belongings(res', i) = Belongings(res, i)
  BY <1>4, HandlerIsolates DEF OthersKept
<1> QED
  BY <1>1, <1>2, <1>3, <1>4 DEF Next, Reactor, Lifecycle

\* A step by which what belongs to a live transfer changes is one of its own.
LEMMA StepIsolates ==
    ASSUME NEW Lost, Inv(Lost), [Next]_vars,
           NEW i \in TransferSlots, Live(res, i),
           Belongings(res', i) # Belongings(res, i)
    PROVE  \/ \E fd \in Fds : FromPeer(i, fd)
           \/ /\ AtEntry /\ res.regs[next].ctx = i
              /\ res' = Abort(res, i)
<1>1. PICK fd \in Fds : RequestServed(fd, i) \/ TransferHandler(i, fd)
  BY StepTouches
<1>2. TransferHandler(i, fd)
  BY <1>1, ServedKeepsOthers
<1> QED
  BY <1>2, HandlerIsolates

\* Isolation: whatever requests, stops, releases and datagrams of others do,
\* a transfer changes by its own peer's datagram, or by being marked failed
\* with all it owns untouched.
THEOREM TransfersIsolated == Spec => Isolation
<1> DEFINE A == \A s \in TransferSlots :
        Live(res, s) /\ Belongings(res', s) # Belongings(res, s) =>
            \/ \E fd \in Fds : FromPeer(s, fd)
            \/ /\ AtEntry /\ res.regs[next].ctx = s
               /\ res' = Abort(res, s)
<1>1. IInv /\ [Next]_vars => [A]_vars
  BY StepIsolates DEF IInv
<1> QED
  BY <1>1, Invariance, PTL DEF Spec, Isolation
-----------------------------------------------------------------------------
(* What is sent. *)

\* The packet m of transfer s carries part pos of its file.
Carries(m, r, s, pos) ==
    /\ Live(r, s) /\ pos \in Nat
    /\ pos = Position(r, s)
    /\ m.fd = r.transport[r.transfer[s].transport].fd
    /\ m.to = r.transfer[s].peer
    /\ m.chunk = <<r.transfer[s].name, pos>> /\ m.block = pos % BlockMod

\* A transfer in step holds a packet with the part it has just read.
LEMMA PacketInStep ==
    ASSUME NEW r \in Objects, BlocksInStep(r), NEW s \in TransferSlots,
           Live(r, s)
    PROVE  Carries(DataPacket(r, s), r, s, Position(r, s))
<1>1. InStep(r, s)
  BY BlocksInStepBySlot
<1>2. Position(r, s) \in Nat /\ r.transfer[s].block = Position(r, s) % BlockMod
  BY <1>1 DEF InStep
<1> QED
  BY <1>2 DEF DataPacket, Carries, Position

LEMMA AckSendsNext ==
    ASSUME IInv, BlocksInStep(res), NEW fd \in Fds, NEW s \in TransferSlots,
           AckAdvances(s, fd), BlocksInStep(res')
    PROVE  /\ res.regs[next].fd = fd /\ Live(res, s)
           /\ sent' = {DataPacket(res', s)}
           /\ Carries(DataPacket(res', s), res', s, Position(res', s))
           /\ Position(res', s) = Position(res, s) + 1
           /\ Position(res, s) \in Nat
           /\ res'.transfer[s].peer = Head(rxq[fd]).from
           /\ Head(rxq[fd]).kind = "ACK"
           /\ Head(rxq[fd]).arg = Position(res, s) % BlockMod
<1>1. /\ FromPeer(s, fd) /\ IsExpectedAck(s, Head(rxq[fd]))
      /\ res' = SendNextData(res, s) /\ sent' = {DataPacket(res', s)}
  BY DEF AckAdvances, Becomes
<1>2. res.regs[next].fd = fd /\ Owns(res, s, fd)
  BY <1>1 DEF FromPeer, Receives, Called
<1>3. Good(res, {}) /\ Live(res, s)
  BY <1>2, OwnerIsLive DEF IInv, Inv, Sound
<1>4. SentOn(res', res, s, {})
  BY <1>1, <1>3, SendNextGood
<1>5. /\ Position(res', s) = Position(res, s) + 1 /\ Live(res', s)
      /\ res'.transfer[s].peer = res.transfer[s].peer /\ res' \in Objects
  BY <1>4 DEF SentOn, Position, Good
<1>6. Carries(DataPacket(res', s), res', s, Position(res', s))
  BY <1>5, PacketInStep
<1>7. InStep(res, s)
  BY <1>3, BlocksInStepBySlot
<1>8. /\ Position(res, s) \in Nat
      /\ res.transfer[s].expected = Position(res, s) % BlockMod
  BY <1>7 DEF InStep
<1> QED
  BY <1>1, <1>2, <1>3, <1>5, <1>6, <1>8 DEF FromPeer, IsExpectedAck

LEMMA RequestSendsFirst ==
    ASSUME IInv, NEW fd \in Fds, NEW s \in TransferSlots,
           RequestServed(fd, s), BlocksInStep(res')
    PROVE  /\ res.regs[next].fd = fd /\ ~Live(res, s)
           /\ sent' = {DataPacket(res', s)}
           /\ Carries(DataPacket(res', s), res', s, Position(res', s))
           /\ Position(res', s) = 1
           /\ res'.transfer[s].peer = Head(rxq[fd]).from
           /\ res'.transfer[s].name = Head(rxq[fd]).arg
           /\ Head(rxq[fd]).kind = "RRQ"
<1> DEFINE p == Head(rxq[fd]).from
           n == Head(rxq[fd]).arg
<1>1. PICK t \in TransportSlots, sfd \in Fds, f \in FileSlots :
        /\ HasFile(fd, s, t, sfd, f)
        /\ res' = SendNextData(Step5(res, s, p, n, t, sfd, f), s)
        /\ sent' = {DataPacket(res', s)}
  BY DEF RequestServed, Started, WithSocket, WithFile, Becomes,
         Step1, Step2, Step3, Step4, Step5
<1>2. /\ Accepts(fd, s) /\ n \in DOMAIN FileBlocks
      /\ ~res.transport[t].used /\ ~res.file[f].inUse
      /\ sfd \in Fds \ OpenFds(res)
  BY <1>1 DEF HasFile, HasSocket, FirstFreeTransport, FirstFreeFile
<1>3. p \in Peers /\ ~res.transfer[s].inUse
  BY <1>2, AcceptsFacts DEF IInv
<1>4. res.regs[next].fd = fd /\ Head(rxq[fd]).kind = "RRQ"
  BY <1>2 DEF Accepts, Receives, Called
<1> HIDE DEF p, n
<1> DEFINE q == Step5(res, s, p, n, t, sfd, f)
<1>5. Granted(q, res, s, n, f, {}) /\ q.transfer[s].peer = p
  BY <1>2, <1>3, RequestGood DEF IInv, Inv, Sound
<1>6. res' = SendNextData(q, s)
  BY <1>1
<1> HIDE DEF q
<1>7. SentOn(res', q, s, {})
  BY <1>5, <1>6, SendNextGood DEF Granted
<1>8. /\ Position(res', s) = 1 /\ Live(res', s) /\ res' \in Objects
      /\ res'.transfer[s].peer = p /\ res'.transfer[s].name = n
  BY <1>5, <1>7 DEF Granted, SentOn, Position, Good
<1>9. Carries(DataPacket(res', s), res', s, Position(res', s))
  BY <1>8, PacketInStep
<1> QED
  BY <1>1, <1>3, <1>4, <1>8, <1>9 DEF Live, p, n

\* Every other step sends nothing, or an ERROR packet.
LEMMA OnlyTheseSendData ==
    ASSUME Next, NEW m \in sent', m.kind = "DATA"
    PROVE  \E fd \in Fds, s \in TransferSlots :
                RequestServed(fd, s) \/ AckAdvances(s, fd)
<1>1. CASE Poll \/ SkipIdle \/ EndPass \/ HandlerReturns \/ Lifecycle
  BY <1>1 DEF Poll, SkipIdle, EndPass, HandlerReturns, Lifecycle, ServerStart,
              ServerStop, ReactorRun, PollFails
<1>2. CASE Environment
  BY <1>2 DEF Environment, SocketError, Deliver
<1>3. ASSUME NEW fd \in Fds, ServerHandler(fd)
      PROVE  \E s \in TransferSlots : RequestServed(fd, s)
  <2>1. ~ServerReceiveFails(fd) /\ ~RequestRefused(fd)
    BY DEF ServerReceiveFails, RequestRefused
  <2>2. ASSUME NEW s \in TransferSlots
        PROVE  /\ ~RequestGetsNoSocket(fd, s) /\ ~RequestGetsNoFileSlot(fd, s)
               /\ ~RequestedFileNotOpened(fd, s)
               /\ ~RequestNotRegistered(fd, s) /\ ~FirstDataFails(fd, s)
    BY DEF RequestGetsNoSocket, RequestGetsNoFileSlot, RequestedFileNotOpened,
           RequestNotRegistered, FirstDataFails, ErrorPacket
  <2> QED
    BY <1>3, <2>1, <2>2 DEF ServerHandler
<1>4. ASSUME NEW fd \in Fds, NEW s \in TransferSlots, TransferHandler(s, fd)
      PROVE  AckAdvances(s, fd)
  BY <1>4 DEF TransferHandler, TransferMarkedFailed, PacketOfAnotherPeer,
              TransferRejects, TransferCompletes, NextDataFails
<1> QED
  BY <1>1, <1>2, <1>3, <1>4 DEF Next, Reactor

\* DataInOrder: DATA leaves from the socket of its transfer, to its peer, and
\* carries the first part of the file a request has asked for, or the part
\* after the one that was acknowledged, across any wraps of the block number.
THEOREM DataStaysInOrder == Spec => DataInOrder
<1> DEFINE A == \A m \in sent' : m.kind = "DATA" =>
        \E s \in TransferSlots :
            LET x == res'.transfer[s]
                pos == res'.file[x.file].pos
                d == Head(rxq[res.regs[next].fd])
            IN  /\ Live(res', s)
                /\ m.fd = res'.transport[x.transport].fd
                /\ m.to = x.peer /\ d.from = x.peer
                /\ m.chunk = <<x.name, pos>> /\ m.block = pos % BlockMod
                /\ IF Live(res, s)
                   THEN /\ pos = res.file[res.transfer[s].file].pos + 1
                        /\ d.kind = "ACK" /\ d.arg = (pos - 1) % BlockMod
                   ELSE pos = 1 /\ d.kind = "RRQ" /\ d.arg = x.name
<1>1. IInv /\ BlocksInStep(res) /\ [Next]_vars => [A]_vars
  <2> SUFFICES ASSUME IInv, BlocksInStep(res), Next,
                      NEW m \in sent', m.kind = "DATA"
               PROVE  \E s \in TransferSlots :
            LET x == res'.transfer[s]
                pos == res'.file[x.file].pos
                d == Head(rxq[res.regs[next].fd])
            IN  /\ Live(res', s)
                /\ m.fd = res'.transport[x.transport].fd
                /\ m.to = x.peer /\ d.from = x.peer
                /\ m.chunk = <<x.name, pos>> /\ m.block = pos % BlockMod
                /\ IF Live(res, s)
                   THEN /\ pos = res.file[res.transfer[s].file].pos + 1
                        /\ d.kind = "ACK" /\ d.arg = (pos - 1) % BlockMod
                   ELSE pos = 1 /\ d.kind = "RRQ" /\ d.arg = x.name
    OBVIOUS
  <2>1. BlocksInStep(res')
    BY BlocksInductive
  <2>2. PICK fd \in Fds, s \in TransferSlots :
            RequestServed(fd, s) \/ AckAdvances(s, fd)
    BY OnlyTheseSendData
  <2>3. CASE RequestServed(fd, s)
    <3>1. /\ res.regs[next].fd = fd /\ ~Live(res, s)
          /\ m = DataPacket(res', s)
          /\ Carries(m, res', s, Position(res', s)) /\ Position(res', s) = 1
          /\ res'.transfer[s].peer = Head(rxq[fd]).from
          /\ res'.transfer[s].name = Head(rxq[fd]).arg
          /\ Head(rxq[fd]).kind = "RRQ"
      BY <2>1, <2>3, RequestSendsFirst
    <3> QED
      BY <3>1 DEF Carries, Position
  <2>4. CASE AckAdvances(s, fd)
    <3>1. /\ res.regs[next].fd = fd /\ Live(res, s)
          /\ m = DataPacket(res', s)
          /\ Carries(m, res', s, Position(res', s))
          /\ Position(res', s) = Position(res, s) + 1
          /\ Position(res, s) \in Nat
          /\ res'.transfer[s].peer = Head(rxq[fd]).from
          /\ Head(rxq[fd]).kind = "ACK"
          /\ Head(rxq[fd]).arg = Position(res, s) % BlockMod
      BY <2>1, <2>4, AckSendsNext
    <3>2. Position(res', s) - 1 = Position(res, s)
      BY <3>1
    <3> QED
      BY <3>1, <3>2 DEF Carries, Position
  <2> QED
    BY <2>2, <2>3, <2>4
<1>2. Init => BlocksInStep(res)
  BY FreeFields DEF Init, BlocksInStep, Live
<1>3. IInv /\ BlocksInStep(res) /\ [Next]_vars => BlocksInStep(res)'
  BY BlocksInductive
<1> QED
  BY <1>1, <1>2, <1>3, Invariance, PTL DEF Spec, DataInOrder
=============================================================================

-------------------------- MODULE TftpBlocks_proofs --------------------------
(***************************************************************************)
(* Proof that block numbers and file positions of TftpServer stay in step, *)
(* for files of any length and block numbers of any width: the wrap of the *)
(* number included.                                                        *)
(***************************************************************************)
EXTENDS TftpServer_proofs

Position(r, s) == r.file[r.transfer[s].file].pos

InStep(r, s) ==
    LET x == r.transfer[s]
    IN  /\ Position(r, s) \in 1 .. FileBlocks[x.name] + 1
        /\ x.block = Position(r, s) % BlockMod /\ x.expected = x.block
        /\ x.final <=> Position(r, s) = FileBlocks[x.name] + 1

LEMMA BlocksInStepBySlot ==
    ASSUME NEW r
    PROVE  BlocksInStep(r)
             <=> \A s \in TransferSlots : Live(r, s) => InStep(r, s)
BY DEF BlocksInStep, InStep, Position

\* The number of the next block follows that of this one.
LEMMA NextBlockNumber ==
    ASSUME NEW p \in Nat
    PROVE  ((p % BlockMod) + 1) % BlockMod = (p + 1) % BlockMod
<1> DEFINE m == BlockMod
           a == p % m
           k == p \div m
<1>1. m \in Nat \ {0}
  BY PoolSizes
<1>2. a \in 0 .. m - 1 /\ k \in Int /\ p = m * k + a
  BY <1>1
<1> HIDE DEF m, a, k
<1>3. CASE a + 1 < m
  <2>1. (a + 1) % m = a + 1
    BY <1>1, <1>2, <1>3
  <2>2. p + 1 = m * k + (a + 1) /\ a + 1 \in 0 .. m - 1
    BY <1>1, <1>2, <1>3
  <2>3. (p + 1) % m = a + 1
    BY <1>1, <1>2, <2>2
  <2> QED
    BY <2>1, <2>3 DEF a, m
<1>4. CASE a + 1 = m
  <2>1. (a + 1) % m = 0
    BY <1>1, <1>4
  <2>2. p + 1 = m * (k + 1) + 0
    BY <1>1, <1>2, <1>4
  <2>3. (p + 1) % m = 0
    BY <1>1, <1>2, <2>2
  <2> QED
    BY <2>1, <2>3 DEF a, m
<1> QED
  BY <1>1, <1>2, <1>3, <1>4

\* A transfer that sends the next part of its file is in step after it.
LEMMA SendingKeepsStep ==
    ASSUME NEW q, Good(q, {}), NEW s \in TransferSlots, Live(q, s),
           NEW o, SentOn(o, q, s, {}),
           q.transfer[s].block = Position(q, s) % BlockMod,
           Position(q, s) <= FileBlocks[q.transfer[s].name]
    PROVE  InStep(o, s)
<1> DEFINE x == q.transfer[s]
           y == o.transfer[s]
           p == Position(q, s)
           n == FileBlocks[x.name]
<1>1. /\ x.name \in DOMAIN FileBlocks /\ q.file[x.file].name = x.name
      /\ x.file # Null /\ x \in Transfers /\ q \in Objects
  BY DEF Good, WholeOrFree, Live, Objects
<1>2. x.file \in FileSlots /\ n \in Nat
  BY <1>1, Files DEF Transfers
<1>3. p \in Nat
  BY <1>1, <1>2 DEF Position, Objects, OpenFiles
<1>4. /\ y.file = x.file /\ y.name = x.name
      /\ y.block = (x.block + 1) % BlockMod /\ y.expected = y.block
      /\ y.final = (p >= n)
      /\ Position(o, s) = p + 1
  BY <1>1 DEF SentOn, Position
<1>5. y.block = (p + 1) % BlockMod
  BY <1>3, <1>4, NextBlockNumber
<1>6. p <= n
  OBVIOUS
<1> HIDE DEF x, y, p, n
<1>7. p + 1 \in 1 .. n + 1 /\ ((p >= n) <=> (p + 1 = n + 1))
  BY <1>2, <1>3, <1>6
<1>8. /\ Position(o, s) \in 1 .. n + 1
      /\ y.final <=> Position(o, s) = n + 1
  BY <1>4, <1>7, Zenon
<1> QED
  BY <1>4, <1>5, <1>8 DEF InStep, x, y, n, p

\* A step of transfer s keeps the others in step: their files are not its.
LEMMA OthersStayInStep ==
    ASSUME NEW r, BlocksInStep(r), NEW o, NEW s \in TransferSlots,
           \A i \in TransferSlots \ {s} : Live(o, i) =>
              /\ o.transfer[i] = r.transfer[i]
              /\ o.file[o.transfer[i].file] = r.file[r.transfer[i].file],
           Live(o, s) => InStep(o, s)
    PROVE  BlocksInStep(o)
<1> SUFFICES ASSUME NEW i \in TransferSlots, Live(o, i)
             PROVE  InStep(o, i)
  BY BlocksInStepBySlot
<1>1. CASE i = s
  BY <1>1
<1>2. CASE i # s
  <2>1. o.transfer[i] = r.transfer[i] /\ Position(o, i) = Position(r, i)
    BY <1>2 DEF Position
  <2>2. Live(r, i)
    BY <2>1 DEF Live
  <2>3. InStep(r, i)
    BY <2>2, BlocksInStepBySlot
  <2> QED
    BY <2>1, <2>3 DEF InStep
<1> QED
  BY <1>1, <1>2

LEMMA CleanUpKeepsStep ==
    ASSUME NEW r, Good(r, {}), BlocksInStep(r), NEW s \in TransferSlots,
           Live(r, s)
    PROVE  BlocksInStep(CleanUp(r, s))
<1> DEFINE q == CleanUp(r, s)
<1>1. Good(q, {}) /\ q = Cleaned(r, s)
  BY CleanUpGood, LiveIsRegistered
<1> HIDE DEF q
<1>2. /\ q.transfer = [r.transfer EXCEPT ![s] = FreeTransfer]
      /\ q.file = [f \in FileSlots |->
                     IF f = r.transfer[s].file THEN FreeFile ELSE r.file[f]]
      /\ r.transfer \in [TransferSlots -> Transfers]
  BY <1>1 DEF Cleaned, Good, Objects
<1>3. ~Live(q, s)
  BY <1>2, FreeFields DEF Live
<1>4. ASSUME NEW i \in TransferSlots \ {s}, Live(q, i)
      PROVE  /\ q.transfer[i] = r.transfer[i]
             /\ q.file[q.transfer[i].file] = r.file[r.transfer[i].file]
  <2>1. q.transfer[i] = r.transfer[i] /\ Live(r, i)
    BY <1>2, <1>4 DEF Live
  <2>2. r.transfer[i].file # r.transfer[s].file
    BY <2>1 DEF Good, NothingShared
  <2>3. r.transfer[i].file \in FileSlots
    BY <1>2, <2>1 DEF Good, WholeOrFree, Live, Transfers
  <2> QED
    BY <1>2, <2>1, <2>2, <2>3
<1> QED
  BY <1>3, <1>4, OthersStayInStep DEF q

LEMMA AbortKeepsStep ==
    ASSUME NEW r, Good(r, {}), BlocksInStep(r), NEW s \in TransferSlots,
           Live(r, s)
    PROVE  BlocksInStep(Abort(r, s))
<1> DEFINE q == Abort(r, s)
<1>1. /\ Good(q, {}) /\ q.transfer[s] = Failed(r.transfer[s])
      /\ \A i \in TransferSlots \ {s} : q.transfer[i] = r.transfer[i]
      /\ q.file = r.file
  BY AbortGood
<1> HIDE DEF q
<1>2. r.transfer[s] \in Transfers
  BY DEF Good, Objects
<1>3. /\ q.transfer[s].file = r.transfer[s].file
      /\ q.transfer[s].name = r.transfer[s].name
      /\ q.transfer[s].block = r.transfer[s].block
      /\ q.transfer[s].expected = r.transfer[s].expected
      /\ q.transfer[s].final = r.transfer[s].final
  BY <1>1, <1>2 DEF Failed, Transfers
<1>4. InStep(r, s)
  BY BlocksInStepBySlot
<1>5. InStep(q, s)
  BY <1>1, <1>3, <1>4 DEF InStep, Position
<1> QED
  BY <1>1, <1>5, OthersStayInStep DEF q

\* The file of a live transfer other than s is not touched by s sending.
LEMMA SendingLeavesOthers ==
    ASSUME NEW q, Good(q, {}), NEW s \in TransferSlots, Live(q, s),
           NEW o, SentOn(o, q, s, {}),
           NEW i \in TransferSlots \ {s}, Live(o, i)
    PROVE  /\ o.transfer[i] = q.transfer[i] /\ Live(q, i)
           /\ o.file[o.transfer[i].file] = q.file[q.transfer[i].file]
           /\ q.transfer[i].file \in FileSlots
           /\ q.transfer[i].file # q.transfer[s].file
<1>1. o.transfer[i] = q.transfer[i] /\ Live(q, i)
  BY DEF SentOn, Live
<1>2. q.transfer[i].file # q.transfer[s].file
  BY <1>1 DEF Good, NothingShared
<1>3. q.transfer[i].file \in FileSlots
  BY <1>1 DEF Good, WholeOrFree, Live, Objects, Transfers
<1> QED
  BY <1>1, <1>2, <1>3 DEF SentOn

LEMMA AckKeepsStep ==
    ASSUME NEW q, Good(q, {}), BlocksInStep(q), NEW s \in TransferSlots,
           Live(q, s), ~q.transfer[s].final
    PROVE  BlocksInStep(SendNextData(q, s))
<1> DEFINE o == SendNextData(q, s)
<1>1. SentOn(o, q, s, {})
  BY SendNextGood
<1> HIDE DEF o
<1>2. InStep(q, s)
  BY BlocksInStepBySlot
<1>3. q.transfer[s].name \in DOMAIN FileBlocks
  BY DEF Good, WholeOrFree, Live
<1>4. FileBlocks[q.transfer[s].name] \in Nat
  BY <1>3, Files
<1>5. Position(q, s) <= FileBlocks[q.transfer[s].name]
  BY <1>2, <1>4 DEF InStep
<1>6. InStep(o, s)
  BY <1>1, <1>2, <1>5, SendingKeepsStep DEF InStep
<1> QED
  BY <1>1, <1>6, SendingLeavesOthers, OthersStayInStep DEF o

\* A request that is served starts with the first part of its file.
LEMMA ServedKeepsStep ==
    ASSUME IInv, BlocksInStep(res), NEW fd \in Fds, NEW s \in TransferSlots,
           RequestServed(fd, s)
    PROVE  BlocksInStep(res')
<1> DEFINE p == Head(rxq[fd]).from
           n == Head(rxq[fd]).arg
<1>1. PICK t \in TransportSlots, sfd \in Fds, f \in FileSlots :
        /\ HasFile(fd, s, t, sfd, f)
        /\ res' = SendNextData(Step5(res, s, p, n, t, sfd, f), s)
  BY DEF RequestServed, Started, WithSocket, WithFile, Becomes,
         Step1, Step2, Step3, Step4, Step5
<1>2. /\ Accepts(fd, s) /\ n \in DOMAIN FileBlocks
      /\ ~res.transport[t].used /\ ~res.file[f].inUse
      /\ sfd \in Fds \ OpenFds(res)
  BY <1>1 DEF HasFile, HasSocket, FirstFreeTransport, FirstFreeFile
<1>3. p \in Peers /\ ~res.transfer[s].inUse
  BY <1>2, AcceptsFacts DEF IInv
<1> HIDE DEF p, n
<1> DEFINE q == Step5(res, s, p, n, t, sfd, f)
           o == SendNextData(q, s)
<1>4. Granted(q, res, s, n, f, {}) /\ res' = o
  BY <1>1, <1>2, <1>3, RequestGood DEF IInv, Inv, Sound
<1> HIDE DEF q
<1>5. Good(q, {}) /\ Live(q, s) /\ Extends(q, res, s) /\ SentOn(o, q, s, {})
  BY <1>4, SendNextGood DEF Granted
<1> HIDE DEF o
<1>6. /\ q.transfer[s].block = 0 /\ Position(q, s) = 0
      /\ q.transfer[s].name \in DOMAIN FileBlocks
  BY <1>2, <1>4 DEF Granted, Position
<1>7. InStep(o, s)
  <2>1. BlockMod \in Nat \ {0} /\ FileBlocks[q.transfer[s].name] \in Nat
    BY <1>6, PoolSizes, Files
  <2>2. 0 % BlockMod = 0 /\ 0 <= FileBlocks[q.transfer[s].name]
    BY <2>1
  <2> QED
    BY <1>5, <1>6, <2>2, SendingKeepsStep
<1>8. ASSUME NEW i \in TransferSlots \ {s}, Live(o, i)
      PROVE  /\ o.transfer[i] = res.transfer[i]
             /\ o.file[o.transfer[i].file] = res.file[res.transfer[i].file]
  <2>1. /\ o.transfer[i] = q.transfer[i]
        /\ o.file[o.transfer[i].file] = q.file[q.transfer[i].file]
        /\ q.transfer[i].file \in FileSlots
        /\ q.transfer[i].file # q.transfer[s].file
    BY <1>5, <1>8, SendingLeavesOthers
  <2>2. q.transfer[i] = res.transfer[i]
    BY <1>5 DEF Extends, Objects
  <2>3. q.file[q.transfer[i].file] = res.file[q.transfer[i].file]
    BY <1>5, <2>1 DEF Extends
  <2> QED
    BY <2>1, <2>2, <2>3
<1> QED
  BY <1>4, <1>7, <1>8, OthersStayInStep

LEMMA TransferKeepsStep ==
    ASSUME IInv, BlocksInStep(res), NEW fd \in Fds, NEW s \in TransferSlots,
           TransferHandler(s, fd)
    PROVE  BlocksInStep(res')
<1>1. Good(res, {})
  BY DEF IInv, Inv, Sound
<1>2. Live(res, s)
  <2>1. Owns(res, s, fd)
    BY DEF TransferHandler, TransferMarkedFailed, PacketOfAnotherPeer,
           TransferRejects, TransferCompletes, AckAdvances, NextDataFails,
           FromPeer, Receives, ReceiveFails
  <2> QED
    BY <1>1, <2>1, OwnerIsLive
<1>3. /\ Good(Abort(res, s), {}) /\ Live(Abort(res, s), s)
      /\ BlocksInStep(Abort(res, s))
  BY <1>1, <1>2, AbortGood, AbortKeepsStep
<1>4. CASE TransferMarkedFailed(s, fd)
  BY <1>3, <1>4 DEF TransferMarkedFailed, Becomes
<1>5. CASE PacketOfAnotherPeer(s, fd)
  BY <1>5 DEF PacketOfAnotherPeer, Becomes
<1>6. CASE TransferRejects(s, fd) \/ NextDataFails(s, fd)
  <2>1. res' = CleanUp(Abort(res, s), s)
    BY <1>6 DEF TransferRejects, NextDataFails, Becomes
  <2> QED
    BY <1>3, <2>1, CleanUpKeepsStep
<1>7. CASE TransferCompletes(s, fd)
  <2>1. res' = CleanUp(res, s)
    BY <1>7 DEF TransferCompletes, Becomes
  <2> QED
    BY <1>1, <1>2, <2>1, CleanUpKeepsStep
<1>8. CASE AckAdvances(s, fd)
  <2>1. res' = SendNextData(res, s) /\ ~res.transfer[s].final
    BY <1>8 DEF AckAdvances, Becomes
  <2> QED
    BY <1>1, <1>2, <2>1, AckKeepsStep
<1> QED
  BY <1>4, <1>5, <1>6, <1>7, <1>8 DEF TransferHandler

LEMMA SameTransfersInStep ==
    ASSUME NEW r, BlocksInStep(r), NEW q,
           q.transfer = r.transfer, q.file = r.file
    PROVE  BlocksInStep(q)
BY DEF BlocksInStep, Live

LEMMA BlocksInductive ==
    IInv /\ BlocksInStep(res) /\ [Next]_vars => BlocksInStep(res')
<1> SUFFICES ASSUME IInv, BlocksInStep(res), [Next]_vars
             PROVE  BlocksInStep(res')
  OBVIOUS
<1>1. CASE UNCHANGED vars
  BY <1>1 DEF vars
<1>2. CASE Poll \/ SkipIdle \/ EndPass \/ HandlerReturns
  BY <1>2 DEF Poll, SkipIdle, EndPass, HandlerReturns
<1>3. ASSUME NEW fd \in Fds, ServerHandler(fd)
      PROVE  BlocksInStep(res')
  <2>1. CASE ServerReceiveFails(fd) \/ RequestRefused(fd)
    BY <2>1 DEF ServerReceiveFails, RequestRefused, Becomes
  <2>2. ASSUME NEW s \in TransferSlots,
               \/ RequestGetsNoSocket(fd, s)
               \/ RequestGetsNoFileSlot(fd, s)
               \/ RequestedFileNotOpened(fd, s)
               \/ RequestNotRegistered(fd, s)
               \/ FirstDataFails(fd, s)
        PROVE  res' = res
    BY <2>2, FailedRequestIsUndone DEF Becomes, IInv
  <2> QED
    BY <1>3, <2>1, <2>2, ServedKeepsStep DEF ServerHandler
<1>4. ASSUME NEW fd \in Fds, NEW s \in TransferSlots, TransferHandler(s, fd)
      PROVE  BlocksInStep(res')
  BY <1>4, TransferKeepsStep
<1>5. CASE ServerStart
  <2>1. PICK t \in TransportSlots, fd \in Fds \ OpenFds(res) :
            /\ FirstFreeTransport(res, t)
            /\ res' = Register([TakeTransport(res, t, fd)
                                  EXCEPT !.server = t], fd, Server)
    BY <1>5 DEF ServerStart, Becomes
  <2>2. Good(res, {}) /\ res.server = Null /\ ~res.transport[t].used
    BY <1>5, <2>1 DEF IInv, Inv, Sound, ServerStart, FirstFreeTransport
  <2>3. res'.transfer = res.transfer /\ res'.file = res.file
    BY <2>1, <2>2, ServerStartGood
  <2> QED
    BY <2>3, SameTransfersInStep
<1>6. CASE ServerStop
  <2>1. res' = StopServer(res) /\ Good(res, {}) /\ res.server # Null
    BY <1>6 DEF ServerStop, Becomes, IInv, Inv, Sound
  <2>2. res'.transfer = res.transfer /\ res'.file = res.file
    BY <2>1, ServerStopGood DEF StopServer
  <2> QED
    BY <2>2, SameTransfersInStep
<1>7. CASE ReactorRun \/ PollFails \/ Environment
  BY <1>7 DEF ReactorRun, PollFails, Environment, SocketError, Deliver
<1> QED
  BY <1>1, <1>2, <1>3, <1>4, <1>5, <1>6, <1>7
  DEF Next, Reactor, Lifecycle
-----------------------------------------------------------------------------
\* However long the file and however often the 16-bit block number wraps, the
\* block a transfer waits for is the part of the file it has last read, and
\* it is final exactly at the short part that ends the file.
THEOREM BlocksStayInStep == Spec => []BlockTracksFile
<1>1. Init => BlocksInStep(res)
  <2> SUFFICES ASSUME Init PROVE BlocksInStep(res)
    OBVIOUS
  <2>1. res.transfer = [s \in TransferSlots |-> FreeTransfer]
    BY DEF Init
  <2> QED
    BY <2>1, FreeFields DEF BlocksInStep, Live
<1>2. IInv /\ BlocksInStep(res) /\ [Next]_vars => BlocksInStep(res)'
  BY BlocksInductive
<1> QED
  BY <1>1, <1>2, Invariance, PTL DEF Spec, BlockTracksFile
=============================================================================

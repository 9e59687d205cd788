-------------------------- MODULE TftpServer_proofs --------------------------
(***************************************************************************)
(* Proofs about TftpServer, for every size of the pools, number of peers,  *)
(* set of files and width of a block number.                               *)
(*                                                                         *)
(* The inductive invariant is TypeOK with Good(res, {}), the properties of *)
(* the program's objects; Good(res, Lost) is the same for a program that   *)
(* may have forgotten the registrations of some transfers.  A handler is   *)
(* a sequence of operations on them, so the work is done by lemmas about   *)
(* operations: what a failing request has taken is given back exactly      *)
(* (CleanUp undoes it, the objects are the ones before), and each          *)
(* operation that does change the objects keeps Good.                      *)
(***************************************************************************)
EXTENDS TftpServer, SequenceTheorems, TLAPS

\* The registrations are the open sockets of the server and of live
\* transfers, each once; all but the transfers in Lost are registered.
Registered(r, s) == \E i \in DOMAIN r.regs : r.regs[i].ctx = s
TableExact(r, Lost) ==
    /\ \A i \in DOMAIN r.regs : Owns(r, r.regs[i].ctx, r.regs[i].fd)
    /\ \A i, j \in DOMAIN r.regs : r.regs[i].fd = r.regs[j].fd => i = j
    /\ \A s \in TransferSlots \ Lost : Live(r, s) => Registered(r, s)
    /\ r.server # Null => Registered(r, Server)

Good(r, Lost) ==
    /\ r \in Objects
    /\ WholeOrFree(r)
    /\ NothingShared(r)
    /\ NothingLeaks(r)
    /\ TableExact(r, Lost)

Sound(r, Lost) == Good(r, Lost) /\ Resumable(r)

\* The invariant and the same of the next state.
Inv(Lost)   == TypeOK /\ Sound(res, Lost)
After(Lost) == TypeOK' /\ Sound(res', Lost)

IInv == Inv({})

USE PoolSizes, Files, NoneIsFresh, Switches DEF Null, Server
-----------------------------------------------------------------------------
(* Sequences. *)

\* Removing the entry at an index keeps the others, in their order.
LEMMA RemoveAtEntries ==
    ASSUME NEW S, NEW seq \in Seq(S), NEW i \in 1 .. Len(seq)
    PROVE  /\ RemoveAt(seq, i) \in Seq(S)
           /\ Len(RemoveAt(seq, i)) = Len(seq) - 1
           /\ \A j \in 1 .. Len(seq) - 1 :
                RemoveAt(seq, i)[j] = IF j < i THEN seq[j] ELSE seq[j + 1]
<1> DEFINE front == SubSeq(seq, 1, i - 1)
           back  == SubSeq(seq, i + 1, Len(seq))
<1>0. \A j \in 1 .. Len(seq) : seq[j] \in S
  OBVIOUS
<1>1. /\ front \in Seq(S) /\ Len(front) = i - 1
      /\ \A j \in 1 .. i - 1 : front[j] = seq[j]
  <2>1. \A j \in 1 .. i - 1 : seq[j] \in S
    BY <1>0
  <2> QED
    BY <2>1, SubSeqProperties, Z3
<1>2. /\ back \in Seq(S) /\ Len(back) = Len(seq) - i
      /\ \A j \in 1 .. Len(seq) - i : back[j] = seq[j + i]
  <2>1. \A j \in i + 1 .. Len(seq) : seq[j] \in S
    BY <1>0
  <2>2. /\ back \in Seq(S)
        /\ Len(back) = IF i + 1 <= Len(seq) THEN Len(seq) - (i + 1) + 1 ELSE 0
        /\ \A j \in 1 .. Len(seq) - (i + 1) + 1 : back[j] = seq[i + 1 + j - 1]
    BY <2>1, SubSeqProperties, i + 1 \in Int, Len(seq) \in Int, SMTT(30)
  <2> QED
    BY <2>2, SMTT(30)
<1> HIDE DEF front, back
<1>3. /\ front \o back \in Seq(S)
      /\ Len(front \o back) = Len(front) + Len(back)
      /\ \A j \in 1 .. Len(front) + Len(back) : (front \o back)[j] =
            IF j <= Len(front) THEN front[j] ELSE back[j - Len(front)]
  BY <1>1, <1>2, ConcatProperties, ZenonT(40)
<1>4. RemoveAt(seq, i) = front \o back
  BY DEF RemoveAt, front, back
<1>5. Len(front) + Len(back) = Len(seq) - 1
  BY <1>1, <1>2
<1>6. ASSUME NEW j \in 1 .. Len(seq) - 1
      PROVE  (front \o back)[j] = IF j < i THEN seq[j] ELSE seq[j + 1]
  <2>1. CASE j < i
    <3>1. j \in 1 .. Len(front) + Len(back) /\ j <= Len(front)
      BY <1>1, <1>2, <2>1
    <3>2. (front \o back)[j] = front[j]
      BY <1>3, <3>1
    <3> QED
      BY <1>1, <2>1, <3>1, <3>2
  <2>2. CASE ~(j < i)
    <3>1. /\ j - (i - 1) \in 1 .. Len(seq) - i
          /\ j - (i - 1) + i = j + 1
      BY <2>2
    <3>2. (front \o back)[j] = back[j - (i - 1)]
      <4>1. j \in 1 .. Len(front) + Len(back) /\ ~(j <= Len(front))
        BY <1>1, <1>2, <2>2
      <4>2. (front \o back)[j] = back[j - Len(front)]
        BY <1>3, <4>1
      <4> QED
        BY <1>1, <4>2
    <3> QED
      BY <1>2, <2>2, <3>1, <3>2
  <2> QED
    BY <2>1, <2>2
<1> QED
  BY <1>3, <1>4, <1>5, <1>6

\* Removing the entry just appended gives the sequence back.
LEMMA RemoveAppended ==
    ASSUME NEW S, NEW seq \in Seq(S), NEW e \in S
    PROVE  RemoveAt(Append(seq, e), Len(seq) + 1) = seq
BY DEF RemoveAt
-----------------------------------------------------------------------------
\* The registration of a descriptor that is registered once is the one that
\* reactor_unregister removes.
LEMMA UnregisterOnce ==
    ASSUME NEW r \in Objects, NEW k \in DOMAIN r.regs,
           \A i, j \in DOMAIN r.regs : r.regs[i].fd = r.regs[j].fd => i = j
    PROVE  Unregister(r, r.regs[k].fd) = [r EXCEPT !.regs = RemoveAt(@, k)]
<1> DEFINE fd == r.regs[k].fd
           hits == {i \in DOMAIN r.regs : r.regs[i].fd = fd}
<1>1. hits = {k}
  OBVIOUS
<1>2. (CHOOSE i \in hits : \A j \in hits : i <= j) = k
  <2>1. k <= k
    BY DEF Objects
  <2> QED
    BY <1>1, <2>1
<1> QED
  BY <1>1, <1>2 DEF Unregister

-----------------------------------------------------------------------------
(* What the compound operations do to each field of the objects. *)

LEMMA SlotsAreNotNull ==
    /\ \A f \in FileSlots : f # Null
    /\ \A t \in TransportSlots : t # Null
    /\ \A s \in TransferSlots : s # Server
BY DEF FileSlots, TransportSlots, TransferSlots

\* Unregistering changes the registrations only.
LEMMA UnregisterEffect ==
    ASSUME NEW r \in Objects, NEW fd
    PROVE  /\ Unregister(r, fd).transfer = r.transfer
           /\ Unregister(r, fd).file = r.file
           /\ Unregister(r, fd).transport = r.transport
           /\ Unregister(r, fd).server = r.server
           /\ Unregister(r, fd) =
                [r EXCEPT !.regs = Unregister(r, fd).regs]
<1> DEFINE hits == {i \in DOMAIN r.regs : r.regs[i].fd = fd}
           first == CHOOSE i \in hits : \A j \in hits : i <= j
<1>1. Unregister(r, fd) =
        IF hits = {} THEN r ELSE [r EXCEPT !.regs = RemoveAt(@, first)]
  BY DEF Unregister
<1> HIDE DEF hits, first
<1>2. CASE hits = {}
  BY <1>1, <1>2 DEF Objects
<1>3. CASE hits # {}
  BY <1>1, <1>3 DEF Objects
<1> QED
  BY <1>2, <1>3

\* What a transfer holds when it is released goes, and nothing else.
Cleaned(r, s) ==
    LET x == r.transfer[s]
    IN  [transfer |-> [r.transfer EXCEPT ![s] = FreeTransfer],
         file |-> [f \in FileSlots |->
                      IF f = x.file THEN FreeFile ELSE r.file[f]],
         transport |-> [t \in TransportSlots |->
                      IF t = x.transport THEN FreeTransport
                      ELSE r.transport[t]],
         regs |-> IF x.registered /\ x.transport # Null
                  THEN Unregister(r, r.transport[x.transport].fd).regs
                  ELSE r.regs,
         server |-> r.server]

LEMMA CleanUpEffect ==
    ASSUME NEW r \in Objects, NEW s \in TransferSlots
    PROVE  CleanUp(r, s) = Cleaned(r, s)
<1> DEFINE x == r.transfer[s]
           u == IF x.registered /\ x.transport # Null
                THEN Unregister(r, r.transport[x.transport].fd) ELSE r
           v == IF x.file # Null THEN CloseAndReleaseFile(u, x.file) ELSE u
           w == IF x.transport # Null
                THEN ReleaseTransport(v, x.transport) ELSE v
<1>1. CleanUp(r, s) = [w EXCEPT !.transfer[s] = FreeTransfer]
  BY DEF CleanUp
<1>2. /\ u.transfer = r.transfer /\ u.file = r.file
      /\ u.transport = r.transport /\ u.server = r.server
      /\ u.regs = Cleaned(r, s).regs
      /\ u = [transfer |-> r.transfer, file |-> r.file,
              transport |-> r.transport, regs |-> u.regs,
              server |-> r.server]
  BY UnregisterEffect DEF Cleaned, Objects
<1> HIDE DEF u
<1>3. /\ x.file \in FileSlots \cup {Null}
      /\ x.transport \in TransportSlots \cup {Null}
  BY DEF Objects, Transfers
<1> HIDE DEF x
<1>4. /\ Cleaned(r, s).file = [f \in FileSlots |->
            IF f = x.file THEN FreeFile ELSE r.file[f]]
      /\ Cleaned(r, s).transport = [t \in TransportSlots |->
            IF t = x.transport THEN FreeTransport ELSE r.transport[t]]
      /\ r.file \in [FileSlots -> OpenFiles]
      /\ r.transport \in [TransportSlots -> Transports]
  BY DEF Cleaned, Objects, x
<1>5. v = [transfer |-> r.transfer, file |-> Cleaned(r, s).file,
           transport |-> r.transport, regs |-> u.regs,
           server |-> r.server]
  BY <1>2, <1>3, <1>4, SlotsAreNotNull DEF CloseAndReleaseFile
<1> HIDE DEF v
<1>6. w = [transfer |-> r.transfer, file |-> Cleaned(r, s).file,
           transport |-> Cleaned(r, s).transport, regs |-> u.regs,
           server |-> r.server]
  BY <1>3, <1>4, <1>5, SlotsAreNotNull DEF ReleaseTransport
<1> HIDE DEF w
<1>7. CleanUp(r, s) =
        [transfer |-> [r.transfer EXCEPT ![s] = FreeTransfer],
         file |-> Cleaned(r, s).file,
         transport |-> Cleaned(r, s).transport,
         regs |-> Cleaned(r, s).regs,
         server |-> r.server]
  BY <1>1, <1>2, <1>6
<1> QED
  BY <1>7 DEF Cleaned

-----------------------------------------------------------------------------
(* A refused request leaves no trace: CleanUp undoes the operations before *)
(* it, at whatever step of the request the failure is.                     *)

\* q is r but for transfer s, free in r, and for the file and the transport
\* that s holds in q, which are free in r.
Extends(q, r, s) ==
    /\ q \in Objects /\ r \in Objects
    /\ r.transfer[s] = FreeTransfer
    /\ q.transfer = [r.transfer EXCEPT ![s] = q.transfer[s]]
    /\ \A f \in FileSlots :
        IF f = q.transfer[s].file THEN r.file[f] = FreeFile
        ELSE q.file[f] = r.file[f]
    /\ \A t \in TransportSlots :
        IF t = q.transfer[s].transport THEN r.transport[t] = FreeTransport
        ELSE q.transport[t] = r.transport[t]
    /\ q.server = r.server

\* The entries of the pools after each operation.
OnTransport(x, t) == [x EXCEPT !.transport = t]
OnFile(x, f)      == [x EXCEPT !.file = f]
Enrolled(x)       == [x EXCEPT !.registered = TRUE]
Entry(fd, ctx)     == [fd |-> fd, ctx |-> ctx]
TakenTransport(fd) == [used |-> TRUE, fd |-> fd]
TakenFile          == [FreeFile EXCEPT !.inUse = TRUE]
Opened(y, n)       == [y EXCEPT !.open = TRUE, !.name = n]

LEMMA TakenIsGivenBack ==
    ASSUME NEW r, NEW q, NEW s \in TransferSlots, Extends(q, r, s),
           Cleaned(q, s).regs = r.regs
    PROVE  CleanUp(q, s) = r
<1>1. CleanUp(q, s) = Cleaned(q, s)
  BY CleanUpEffect DEF Extends
<1>2. [q.transfer EXCEPT ![s] = FreeTransfer] = r.transfer
  BY DEF Extends, Objects
<1>3. Cleaned(q, s).file = r.file
  BY DEF Cleaned, Extends, Objects
<1>4. Cleaned(q, s).transport = r.transport
  BY DEF Cleaned, Extends, Objects
<1>5. r = [transfer |-> r.transfer, file |-> r.file,
           transport |-> r.transport, regs |-> r.regs, server |-> r.server]
  BY DEF Extends, Objects
<1>6. Cleaned(q, s) =
        [transfer |-> r.transfer, file |-> r.file,
         transport |-> r.transport, regs |-> r.regs, server |-> r.server]
  BY <1>2, <1>3, <1>4 DEF Cleaned, Extends
<1> QED
  BY <1>1, <1>5, <1>6

\* tftp_transfer_start takes a context only.
LEMMA StartExtends ==
    ASSUME NEW r \in Objects, NEW s \in TransferSlots,
           NEW p \in Peers, NEW n \in Names, r.transfer[s] = FreeTransfer
    PROVE  LET q == StartTransfer(r, s, p, n)
           IN  /\ Extends(q, r, s)
               /\ q.transfer[s] = NewTransfer(p, n)
               /\ q.file = r.file /\ q.transport = r.transport
               /\ q.regs = r.regs
<1> DEFINE q == StartTransfer(r, s, p, n)
           x == NewTransfer(p, n)
<1>1. /\ FreeTransfer \in Transfers
      /\ FreeTransfer.file = Null /\ FreeTransfer.transport = Null
  BY DEF FreeTransfer, Transfers, Blocks
<1>2. x \in Transfers /\ x.file = Null /\ x.transport = Null
  BY <1>1 DEF Transfers, NewTransfer
<1>3. q = [r EXCEPT !.transfer[s] = x]
  BY DEF StartTransfer
<1> HIDE DEF x, q
<1>4. /\ q \in Objects
      /\ q.transfer = [r.transfer EXCEPT ![s] = x]
      /\ q.file = r.file /\ q.transport = r.transport
      /\ q.regs = r.regs /\ q.server = r.server
  BY <1>2, <1>3 DEF Objects
<1>5. q.transfer[s] = x
  BY <1>4 DEF Objects
<1>6. Extends(q, r, s)
  BY <1>2, <1>4, <1>5, SlotsAreNotNull DEF Extends
<1> QED
  BY <1>4, <1>5, <1>6 DEF q, x

\* Acquiring a transport adds it to what the transfer holds.
LEMMA TransportExtends ==
    ASSUME NEW r, NEW q, NEW s \in TransferSlots, Extends(q, r, s),
           NEW t \in TransportSlots, NEW fd \in Fds \cup {None},
           q.transfer[s].transport = Null, r.transport[t] = FreeTransport
    PROVE  LET o == TransferTakesTransport(q, s, t, fd)
           IN  /\ Extends(o, r, s)
               /\ o.transfer[s] = OnTransport(q.transfer[s], t)
               /\ o.file = q.file
               /\ o.transport = [q.transport EXCEPT ![t] = TakenTransport(fd)]
               /\ o.regs = q.regs
<1> DEFINE o == TransferTakesTransport(q, s, t, fd)
           x == OnTransport(q.transfer[s], t)
           y == TakenTransport(fd)
<1>0. q \in Objects /\ q.transfer[s] \in Transfers
  BY DEF Extends, Objects
<1>1. x \in Transfers /\ x.file = q.transfer[s].file /\ x.transport = t
  BY <1>0 DEF Transfers, OnTransport
<1>2. y \in Transports
  BY DEF Transports, TakenTransport
<1>3. /\ o.transfer = [q.transfer EXCEPT ![s] = x]
      /\ o.file = q.file
      /\ o.transport = [q.transport EXCEPT ![t] = y]
      /\ o.regs = q.regs /\ o.server = q.server
      /\ o = [transfer |-> o.transfer, file |-> o.file,
              transport |-> o.transport, regs |-> o.regs,
              server |-> o.server]
  <2>1. TakeTransport(q, t, fd) = [q EXCEPT !.transport[t] = y]
    BY DEF TakeTransport, TakenTransport
  <2>2. o = [TakeTransport(q, t, fd) EXCEPT !.transfer[s].transport = t]
    BY DEF TransferTakesTransport
  <2> HIDE DEF y, o
  <2>3. TakeTransport(q, t, fd) =
          [transfer |-> q.transfer, file |-> q.file,
           transport |-> [q.transport EXCEPT ![t] = y],
           regs |-> q.regs, server |-> q.server]
    BY <1>0, <2>1 DEF Objects
  <2>4. o = [transfer |-> [q.transfer EXCEPT ![s].transport = t],
             file |-> q.file,
             transport |-> [q.transport EXCEPT ![t] = y],
             regs |-> q.regs, server |-> q.server]
    BY <2>2, <2>3
  <2>5. [q.transfer EXCEPT ![s].transport = t] = [q.transfer EXCEPT ![s] = x]
    BY DEF OnTransport
  <2> HIDE DEF x
  <2> QED
    BY <2>4, <2>5
<1> HIDE DEF x, y, o
<1>4. o \in Objects
  <2>1. q.transfer \in [TransferSlots -> Transfers]
    BY <1>0 DEF Objects
  <2>2. [q.transfer EXCEPT ![s] = x] \in [TransferSlots -> Transfers]
    BY <1>1, <2>1
  <2>3. q.transport \in [TransportSlots -> Transports]
    BY <1>0 DEF Objects
  <2>4. [q.transport EXCEPT ![t] = y] \in [TransportSlots -> Transports]
    BY <1>2, <2>3
  <2> QED
    BY <1>0, <1>3, <2>2, <2>4 DEF Objects
<1>5. o.transfer[s] = x /\ o.transfer = [r.transfer EXCEPT ![s] = x]
  BY <1>3 DEF Extends, Objects
<1>6. \A i \in TransportSlots :
        o.transport[i] = IF i = t THEN y ELSE q.transport[i]
  BY <1>3 DEF Extends, Objects
<1>7. Extends(o, r, s)
  BY <1>1, <1>3, <1>4, <1>5, <1>6, SlotsAreNotNull DEF Extends
<1> QED
  BY <1>3, <1>5, <1>7 DEF o, x, y

\* So does acquiring a file.
LEMMA FileExtends ==
    ASSUME NEW r, NEW q, NEW s \in TransferSlots, Extends(q, r, s),
           NEW f \in FileSlots,
           q.transfer[s].file = Null, r.file[f] = FreeFile
    PROVE  LET o == TransferTakesFile(q, s, f)
           IN  /\ Extends(o, r, s)
               /\ o.transfer[s] = OnFile(q.transfer[s], f)
               /\ o.file[f] = TakenFile
               /\ o.transport = q.transport
               /\ o.regs = q.regs
<1> DEFINE o == TransferTakesFile(q, s, f)
           x == OnFile(q.transfer[s], f)
           y == TakenFile
<1>0. q \in Objects /\ q.transfer[s] \in Transfers
  BY DEF Extends, Objects
<1>1. /\ x \in Transfers /\ x.file = f
      /\ x.transport = q.transfer[s].transport
  BY <1>0 DEF Transfers, OnFile
<1>2. y \in OpenFiles
  BY DEF FreeFile, OpenFiles, TakenFile
<1>3. /\ o.transfer = [q.transfer EXCEPT ![s] = x]
      /\ o.file = [q.file EXCEPT ![f] = y]
      /\ o.transport = q.transport
      /\ o.regs = q.regs /\ o.server = q.server
      /\ o = [transfer |-> o.transfer, file |-> o.file,
              transport |-> o.transport, regs |-> o.regs,
              server |-> o.server]
  <2>1. o = [q EXCEPT !.file[f] = y, !.transfer[s].file = f]
    BY DEF TransferTakesFile, TakenFile
  <2> HIDE DEF y, o
  <2>2. o = [transfer |-> [q.transfer EXCEPT ![s].file = f],
             file |-> [q.file EXCEPT ![f] = y],
             transport |-> q.transport,
             regs |-> q.regs, server |-> q.server]
    BY <1>0, <2>1 DEF Objects
  <2>3. [q.transfer EXCEPT ![s].file = f] = [q.transfer EXCEPT ![s] = x]
    BY DEF OnFile
  <2> HIDE DEF x
  <2> QED
    BY <2>2, <2>3
<1> HIDE DEF x, y, o
<1>4. o \in Objects
  <2>1. q.transfer \in [TransferSlots -> Transfers]
    BY <1>0 DEF Objects
  <2>2. [q.transfer EXCEPT ![s] = x] \in [TransferSlots -> Transfers]
    BY <1>1, <2>1
  <2>3. q.file \in [FileSlots -> OpenFiles]
    BY <1>0 DEF Objects
  <2>4. [q.file EXCEPT ![f] = y] \in [FileSlots -> OpenFiles]
    BY <1>2, <2>3
  <2> QED
    BY <1>0, <1>3, <2>2, <2>4 DEF Objects
<1>5. o.transfer[s] = x /\ o.transfer = [r.transfer EXCEPT ![s] = x]
  BY <1>3 DEF Extends, Objects
<1>6. \A i \in FileSlots : o.file[i] = IF i = f THEN y ELSE q.file[i]
  BY <1>0, <1>3 DEF Objects
<1>7. Extends(o, r, s)
  BY <1>1, <1>3, <1>4, <1>5, <1>6, SlotsAreNotNull DEF Extends
<1> QED
  BY <1>3, <1>5, <1>6, <1>7 DEF o, x, y

\* Opening the file changes that file only.
LEMMA OpenExtends ==
    ASSUME NEW r, NEW q, NEW s \in TransferSlots, Extends(q, r, s),
           NEW f \in FileSlots, NEW n \in Names,
           q.transfer[s].file = f
    PROVE  LET o == OpenFile(q, f, n)
           IN  /\ Extends(o, r, s)
               /\ o.transfer = q.transfer
               /\ o.file[f] = Opened(q.file[f], n)
               /\ o.transport = q.transport
               /\ o.regs = q.regs
<1> DEFINE o == OpenFile(q, f, n)
           y == Opened(q.file[f], n)
<1>0. q \in Objects /\ q.file[f] \in OpenFiles
  BY DEF Extends, Objects
<1>1. y \in OpenFiles
  BY <1>0 DEF OpenFiles, Opened
<1>2. o = [q EXCEPT !.file = [q.file EXCEPT ![f] = y]]
  BY <1>0 DEF OpenFile, Objects, Opened
<1> HIDE DEF y, o
<1>3. /\ o.transfer = q.transfer
      /\ o.file = [q.file EXCEPT ![f] = y]
      /\ o.transport = q.transport
      /\ o.regs = q.regs /\ o.server = q.server
      /\ o \in Objects
  <2>1. q.file \in [FileSlots -> OpenFiles]
    BY <1>0 DEF Objects
  <2>2. [q.file EXCEPT ![f] = y] \in [FileSlots -> OpenFiles]
    BY <1>1, <2>1
  <2> QED
    BY <1>0, <1>2, <2>2 DEF Objects
<1>4. \A i \in FileSlots : o.file[i] = IF i = f THEN y ELSE q.file[i]
  BY <1>0, <1>3 DEF Objects
<1>5. Extends(o, r, s)
  BY <1>3, <1>4 DEF Extends
<1> QED
  BY <1>3, <1>4, <1>5 DEF o, y

Enlisted(o, q, r, s, fd) ==
    /\ Extends(o, r, s)
    /\ o.transfer[s] = Enrolled(q.transfer[s])
    /\ o.file = q.file
    /\ o.transport = q.transport
    /\ o.regs = Append(q.regs, Entry(fd, s))

\* Registering the transfer appends its descriptor to the registrations.
LEMMA RegisterExtends ==
    ASSUME NEW r, NEW q, NEW s \in TransferSlots, Extends(q, r, s),
           NEW fd \in Fds,
           q.transport[q.transfer[s].transport].fd = fd
    PROVE  Enlisted(RegisterTransfer(q, s), q, r, s, fd)
<1> DEFINE o == RegisterTransfer(q, s)
           x == Enrolled(q.transfer[s])
           e == Entry(fd, s)
<1>0. q \in Objects /\ q.transfer[s] \in Transfers
  BY DEF Extends, Objects
<1>1. /\ x \in Transfers /\ x.file = q.transfer[s].file
      /\ x.transport = q.transfer[s].transport
  BY <1>0 DEF Transfers, Enrolled
<1>2. e \in Registrations
  BY DEF Registrations, Entry
<1>3. Append(q.regs, e) \in Seq(Registrations)
  BY <1>0, <1>2 DEF Objects
<1>4. /\ o.transfer = [q.transfer EXCEPT ![s] = x]
      /\ o.file = q.file
      /\ o.transport = q.transport
      /\ o.regs = Append(q.regs, e) /\ o.server = q.server
      /\ o = [transfer |-> o.transfer, file |-> o.file,
              transport |-> o.transport, regs |-> o.regs,
              server |-> o.server]
  <2> DEFINE g == Append(q.regs, e)
  <2>1. Register(q, fd, s) = [q EXCEPT !.regs = g]
    BY <1>0 DEF Register, Objects, Entry
  <2>2. o = [Register(q, fd, s) EXCEPT !.transfer[s].registered = TRUE]
    BY DEF RegisterTransfer
  <2> HIDE DEF e, o, g
  <2>3. Register(q, fd, s) =
          [transfer |-> q.transfer, file |-> q.file,
           transport |-> q.transport, regs |-> g, server |-> q.server]
    BY <1>0, <2>1 DEF Objects
  <2>4. o = [Register(q, fd, s) EXCEPT !.transfer[s] =
                [q.transfer[s] EXCEPT !.registered = TRUE]]
    <3>1. Register(q, fd, s).transfer[s] = q.transfer[s]
      BY <2>3
    <3> QED
      BY <2>2, <3>1, Zenon
  <2>5. o = [Register(q, fd, s) EXCEPT !.transfer[s] = x]
    BY <2>4 DEF Enrolled
  <2> HIDE DEF x
  <2>6. o = [transfer |-> [q.transfer EXCEPT ![s] = x], file |-> q.file,
             transport |-> q.transport, regs |-> g, server |-> q.server]
    BY <2>3, <2>5
  <2> QED
    BY <2>6 DEF g
<1> HIDE DEF x, e, o
<1>5. o \in Objects
  <2>1. q.transfer \in [TransferSlots -> Transfers]
    BY <1>0 DEF Objects
  <2>2. [q.transfer EXCEPT ![s] = x] \in [TransferSlots -> Transfers]
    BY <1>1, <2>1
  <2> QED
    BY <1>0, <1>3, <1>4, <2>2 DEF Objects
<1>6. o.transfer[s] = x /\ o.transfer = [r.transfer EXCEPT ![s] = x]
  BY <1>4 DEF Extends, Objects
<1>7. Extends(o, r, s)
  BY <1>1, <1>4, <1>5, <1>6 DEF Extends
<1>8. Enlisted(o, q, r, s, fd)
  BY <1>4, <1>6, <1>7 DEF Enlisted, x, e
<1> QED
  BY <1>8 DEF o

\* Cleaning up a transfer that is not registered gives back all it took.
LEMMA UnregisteredIsGivenBack ==
    ASSUME NEW r, NEW q, NEW s \in TransferSlots, Extends(q, r, s),
           ~q.transfer[s].registered, q.regs = r.regs
    PROVE  CleanUp(q, s) = r
BY TakenIsGivenBack DEF Cleaned

\* So does cleaning up one whose registration is the last.
LEMMA RegisteredIsGivenBack ==
    ASSUME NEW r, NEW q, NEW s \in TransferSlots, Extends(q, r, s),
           NEW fd \in Fds,
           q.transfer[s].registered, q.transfer[s].transport # Null,
           q.transport[q.transfer[s].transport].fd = fd,
           \A i \in DOMAIN r.regs : r.regs[i].fd # fd,
           q.regs = Append(r.regs, Entry(fd, s))
    PROVE  CleanUp(q, s) = r
<1> DEFINE hits == {i \in DOMAIN q.regs : q.regs[i].fd = fd}
           first == CHOOSE i \in hits : \A j \in hits : i <= j
           last == Len(r.regs) + 1
           e == Entry(fd, s)
<1>1. /\ r.regs \in Seq(Registrations) /\ q \in Objects
      /\ e \in Registrations
      /\ e.fd = fd
      /\ last \in Nat
  BY DEF Extends, Objects, Registrations, Entry
<1> HIDE DEF e
<1>2. /\ DOMAIN q.regs = 1 .. last
      /\ q.regs[last] = e
      /\ \A i \in 1 .. Len(r.regs) : q.regs[i] = r.regs[i]
  BY <1>1, AppendProperties DEF e
<1>3. hits = {last}
  BY <1>1, <1>2
<1>4. first = last
  BY <1>1, <1>3
<1>5. Unregister(q, fd) = [q EXCEPT !.regs = RemoveAt(@, last)]
  BY <1>3, <1>4 DEF Unregister
<1>6. RemoveAt(q.regs, last) = r.regs
  BY <1>1, RemoveAppended DEF e
<1>7. Cleaned(q, s).regs = r.regs
  BY <1>1, <1>5, <1>6 DEF Cleaned, Objects
<1> QED
  BY <1>7, TakenIsGivenBack

\* The request of peer p for file n, step by step.
Step1(r, s, p, n) == StartTransfer(r, s, p, n)
Step2(r, s, p, n, t, fd) == TransferTakesTransport(Step1(r, s, p, n), s, t, fd)
Step3(r, s, p, n, t, fd, f) ==
    TransferTakesFile(Step2(r, s, p, n, t, fd), s, f)
Step4(r, s, p, n, t, fd, f) == OpenFile(Step3(r, s, p, n, t, fd, f), f, n)
Step5(r, s, p, n, t, fd, f) == RegisterTransfer(Step4(r, s, p, n, t, fd, f), s)

\* x is a transfer that has been started and holds nothing yet.
Fresh(x, p, n) ==
    /\ x \in Transfers
    /\ x.inUse = TRUE /\ x.registered = FALSE
    /\ x.peer = p /\ x.name = n /\ x.block = 0
    /\ x.file = Null /\ x.transport = Null

LEMMA NewTransferFields ==
    ASSUME NEW p \in Peers, NEW n \in Names
    PROVE  Fresh(NewTransfer(p, n), p, n)
<1>1. /\ FreeTransfer \in Transfers
      /\ FreeTransfer.registered = FALSE /\ FreeTransfer.block = 0
      /\ FreeTransfer.file = Null /\ FreeTransfer.transport = Null
  BY DEF FreeTransfer, Transfers, Blocks
<1> QED
  BY <1>1 DEF Transfers, NewTransfer, Fresh

\* A request that fails before it has a transport is given back ...
LEMMA StartUndone ==
    ASSUME NEW r \in Objects, NEW s \in TransferSlots,
           NEW p \in Peers, NEW n \in Names, r.transfer[s] = FreeTransfer
    PROVE  CleanUp(Step1(r, s, p, n), s) = r
<1> DEFINE x == NewTransfer(p, n)
           q == StartTransfer(r, s, p, n)
<1>1. /\ Extends(q, r, s) /\ q.transfer[s] = x /\ q.regs = r.regs
  BY StartExtends
<1>2. x.registered = FALSE
  <2>1. Fresh(x, p, n)
    BY NewTransferFields
  <2> HIDE DEF x
  <2> QED
    BY <2>1 DEF Fresh
<1> HIDE DEF q, x
<1>3. CleanUp(q, s) = r
  BY <1>1, <1>2, UnregisteredIsGivenBack
<1> QED
  BY <1>3 DEF Step1, q

\* ... and so is one that fails with a transport ...
Connected(q, r, s, p, n, t, fd) ==
    /\ Extends(q, r, s)
    /\ q.transfer[s].inUse = TRUE /\ q.transfer[s].registered = FALSE
    /\ q.transfer[s].peer = p /\ q.transfer[s].name = n
    /\ q.transfer[s].file = Null /\ q.transfer[s].transport = t
    /\ q.transfer[s].block = 0
    /\ q.transport[t] = [used |-> TRUE, fd |-> fd]
    /\ q.regs = r.regs

LEMMA ConnectUndone ==
    ASSUME NEW r \in Objects, NEW s \in TransferSlots,
           NEW p \in Peers, NEW n \in Names,
           NEW t \in TransportSlots, NEW fd \in Fds \cup {None},
           r.transfer[s] = FreeTransfer, r.transport[t] = FreeTransport
    PROVE  /\ Connected(Step2(r, s, p, n, t, fd), r, s, p, n, t, fd)
           /\ CleanUp(Step2(r, s, p, n, t, fd), s) = r
<1> DEFINE x0 == NewTransfer(p, n)
           q1 == StartTransfer(r, s, p, n)
<1>1. /\ Extends(q1, r, s) /\ q1.transfer[s] = x0
      /\ q1.transport = r.transport
      /\ q1.regs = r.regs
  BY StartExtends
<1>2. /\ x0 \in Transfers
      /\ x0.inUse = TRUE /\ x0.registered = FALSE
      /\ x0.peer = p /\ x0.name = n /\ x0.block = 0
      /\ x0.file = Null /\ x0.transport = Null
  <2>1. Fresh(x0, p, n)
    BY NewTransferFields
  <2> QED
    BY <2>1 DEF Fresh
<1>3. Step1(r, s, p, n) = q1
  BY DEF Step1
<1> HIDE DEF x0, q1
<1> DEFINE q2 == TransferTakesTransport(q1, s, t, fd)
           x1 == OnTransport(x0, t)
<1>4. /\ Extends(q2, r, s)
      /\ q2.transfer[s] = OnTransport(q1.transfer[s], t)
      /\ q2.transport = [q1.transport EXCEPT ![t] = TakenTransport(fd)]
      /\ q2.regs = q1.regs
  <2>1. q1.transfer[s].transport = Null
    BY <1>1, <1>2
  <2> QED
    BY <1>1, <2>1, TransportExtends
<1>5. /\ x1 \in Transfers /\ x1.inUse = TRUE /\ x1.registered = FALSE
      /\ x1.peer = p /\ x1.name = n /\ x1.block = 0
      /\ x1.file = Null /\ x1.transport = t
  BY <1>2 DEF Transfers, OnTransport
<1>6. Step2(r, s, p, n, t, fd) = q2
  BY <1>3 DEF Step2
<1> HIDE DEF q2, x1
<1>7. q2.transfer[s] = x1
  BY <1>1, <1>4 DEF x1
<1>8. q2.transport[t] = [used |-> TRUE, fd |-> fd]
  <2>1. q1.transport \in [TransportSlots -> Transports]
    BY <1>1 DEF Extends, Objects
  <2> QED
    BY <1>4, <2>1 DEF TakenTransport
<1>9. Connected(q2, r, s, p, n, t, fd)
  BY <1>1, <1>4, <1>5, <1>7, <1>8 DEF Connected
<1>10. CleanUp(q2, s) = r
  BY <1>1, <1>4, <1>5, <1>7, UnregisteredIsGivenBack
<1> QED
  BY <1>6, <1>9, <1>10

\* ... or with a transport and a file, open or not.
Prepared(q, r, s, p, n, t, fd, f) ==
    /\ Extends(q, r, s)
    /\ q.transfer[s].inUse = TRUE /\ q.transfer[s].registered = FALSE
    /\ q.transfer[s].peer = p /\ q.transfer[s].name = n
    /\ q.transfer[s].file = f /\ q.transfer[s].transport = t
    /\ q.transfer[s].block = 0
    /\ q.file[f].inUse = TRUE /\ q.file[f].open = TRUE
    /\ q.file[f].name = n /\ q.file[f].pos = 0
    /\ q.transport[t] = [used |-> TRUE, fd |-> fd]
    /\ q.regs = r.regs

LEMMA PrepareUndone ==
    ASSUME NEW r \in Objects, NEW s \in TransferSlots,
           NEW p \in Peers, NEW n \in Names,
           NEW t \in TransportSlots, NEW fd \in Fds \cup {None},
           NEW f \in FileSlots,
           r.transfer[s] = FreeTransfer, r.transport[t] = FreeTransport,
           r.file[f] = FreeFile
    PROVE  /\ CleanUp(Step3(r, s, p, n, t, fd, f), s) = r
           /\ CleanUp(Step4(r, s, p, n, t, fd, f), s) = r
           /\ Prepared(Step4(r, s, p, n, t, fd, f), r, s, p, n, t, fd, f)
<1> DEFINE q2 == Step2(r, s, p, n, t, fd)
           x1 == q2.transfer[s]
<1>1. Connected(q2, r, s, p, n, t, fd)
  BY ConnectUndone
<1> HIDE DEF q2
<1>2. /\ Extends(q2, r, s)
      /\ x1 \in Transfers /\ x1.inUse = TRUE /\ x1.registered = FALSE
      /\ x1.peer = p /\ x1.name = n /\ x1.block = 0
      /\ x1.file = Null /\ x1.transport = t
      /\ q2.transport[t] = [used |-> TRUE, fd |-> fd]
      /\ q2.regs = r.regs
  BY <1>1 DEF Connected, Extends, Objects
<1> DEFINE q3 == TransferTakesFile(q2, s, f)
           x == OnFile(x1, f)
<1>3. /\ Extends(q3, r, s)
      /\ q3.transfer[s] = x
      /\ q3.file[f] = TakenFile
      /\ q3.transport = q2.transport
      /\ q3.regs = r.regs
  BY <1>2, FileExtends
<1>4. Step3(r, s, p, n, t, fd, f) = q3
  BY DEF Step3, q2
<1> HIDE DEF x1
<1>5. /\ x.inUse = TRUE /\ x.registered = FALSE
      /\ x.peer = p /\ x.name = n /\ x.block = 0
      /\ x.file = f /\ x.transport = t
  BY <1>2 DEF Transfers, OnFile
<1> HIDE DEF q3, x
<1> DEFINE q4 == OpenFile(q3, f, n)
<1>6. /\ Extends(q4, r, s)
      /\ q4.transfer = q3.transfer
      /\ q4.file[f] = Opened(q3.file[f], n)
      /\ q4.transport = q3.transport
      /\ q4.regs = q3.regs
  <2>1. q3.transfer[s].file = f
    BY <1>3, <1>5
  <2> QED
    BY <1>3, <2>1, OpenExtends
<1>7. Step4(r, s, p, n, t, fd, f) = q4
  BY <1>4 DEF Step4
<1> HIDE DEF q4
<1>8. /\ q4.file[f].inUse = TRUE /\ q4.file[f].open = TRUE
      /\ q4.file[f].name = n /\ q4.file[f].pos = 0
  BY <1>3, <1>6 DEF FreeFile, TakenFile, Opened
<1>9. CleanUp(q3, s) = r
  BY <1>3, <1>5, UnregisteredIsGivenBack
<1>10. CleanUp(q4, s) = r
  BY <1>3, <1>5, <1>6, UnregisteredIsGivenBack
<1>11. Prepared(q4, r, s, p, n, t, fd, f)
  BY <1>2, <1>3, <1>5, <1>6, <1>8 DEF Prepared
<1> QED
  BY <1>4, <1>7, <1>9, <1>10, <1>11

-----------------------------------------------------------------------------
(* The operations that do change the objects keep Good. *)

\* What is not in use is free, and what is in use is owned.
LEMMA FreeIsClean ==
    ASSUME NEW Lost, NEW r, Good(r, Lost)
    PROVE  /\ \A s \in TransferSlots :
                ~r.transfer[s].inUse => r.transfer[s] = FreeTransfer
           /\ \A f \in FileSlots : ~r.file[f].inUse => r.file[f] = FreeFile
           /\ \A t \in TransportSlots :
                ~r.transport[t].used => r.transport[t] = FreeTransport
BY DEF Good, WholeOrFree, NothingLeaks

LEMMA FreeFields ==
    /\ FreeTransfer \in Transfers /\ FreeTransfer.inUse = FALSE
    /\ FreeTransfer.registered = FALSE
    /\ FreeTransfer.file = Null /\ FreeTransfer.transport = Null
    /\ FreeFile \in OpenFiles /\ FreeFile.inUse = FALSE /\ FreeFile.open = FALSE
    /\ FreeTransport \in Transports /\ FreeTransport.used = FALSE
    /\ FreeTransport.fd = None
BY DEF FreeTransfer, FreeFile, FreeTransport, Transfers, OpenFiles,
       Transports, Blocks

\* A registered descriptor is open.
LEMMA RegisteredIsOpen ==
    ASSUME NEW Lost, NEW r, Good(r, Lost), NEW i \in DOMAIN r.regs
    PROVE  /\ r.regs[i] \in Registrations
           /\ r.regs[i].fd \in OpenFds(r)
           /\ OwnTransport(r, r.regs[i].ctx) \in TransportSlots
           /\ r.transport[OwnTransport(r, r.regs[i].ctx)].fd = r.regs[i].fd
<1>1. r.regs[i] \in Registrations
  BY DEF Good, Objects
<1>2. r.regs[i].fd \in Fds /\ r.regs[i].ctx \in TransferSlots \cup {Server}
  BY <1>1 DEF Registrations
<1>3. Owns(r, r.regs[i].ctx, r.regs[i].fd)
  BY DEF Good, TableExact
<1>4. OwnTransport(r, r.regs[i].ctx) \in TransportSlots \cup {Null}
  BY <1>2 DEF OwnTransport, Good, Objects, Transfers
<1> QED
  BY <1>1, <1>2, <1>3, <1>4 DEF Owns, OpenFds

\* q is r with the request for n served by s, up to sending the first block.
Granted(q, r, s, n, f, Lost) ==
    /\ CleanUp(q, s) = r
    /\ Extends(q, r, s)
    /\ Good(q, Lost)
    /\ Live(q, s) /\ q.transfer[s].name = n /\ q.transfer[s].file = f
    /\ q.transfer[s].block = 0 /\ q.file[f].pos = 0
    /\ Len(q.regs) = Len(r.regs) + 1

\* A served request: its transfer is registered and the others are as before.
LEMMA RequestGood ==
    ASSUME NEW Lost, NEW r, Good(r, Lost),
           NEW s \in TransferSlots, NEW p \in Peers,
           NEW n \in DOMAIN FileBlocks, NEW t \in TransportSlots,
           NEW fd \in Fds \ OpenFds(r), NEW f \in FileSlots,
           ~r.transfer[s].inUse, ~r.transport[t].used, ~r.file[f].inUse
    PROVE  /\ Granted(Step5(r, s, p, n, t, fd, f), r, s, n, f, Lost)
           /\ Step5(r, s, p, n, t, fd, f).transfer[s].peer = p
<1> DEFINE q4 == Step4(r, s, p, n, t, fd, f)
           q  == Step5(r, s, p, n, t, fd, f)
           e  == Entry(fd, s)
<1>1. /\ r \in Objects /\ n \in Names
      /\ r.transfer[s] = FreeTransfer /\ r.transport[t] = FreeTransport
      /\ r.file[f] = FreeFile
  BY FreeIsClean, DOMAIN FileBlocks \subseteq Names DEF Good
<1>2. /\ Extends(q4, r, s)
      /\ q4.transfer[s].inUse = TRUE /\ q4.transfer[s].registered = FALSE
      /\ q4.transfer[s].peer = p /\ q4.transfer[s].name = n
      /\ q4.transfer[s].file = f /\ q4.transfer[s].transport = t
      /\ q4.file[f].inUse = TRUE /\ q4.file[f].open = TRUE
      /\ q4.file[f].name = n
      /\ q4.transport[t] = [used |-> TRUE, fd |-> fd]
      /\ q4.regs = r.regs
      /\ q4.transfer[s].block = 0 /\ q4.file[f].pos = 0
  <2>1. fd \in Fds \cup {None}
    OBVIOUS
  <2>2. Prepared(q4, r, s, p, n, t, fd, f)
    BY <1>1, <2>1, PrepareUndone
  <2> QED
    BY <2>2 DEF Prepared
<1>3. q = RegisterTransfer(q4, s)
  BY DEF Step5
<1> HIDE DEF q4, q
<1>4. /\ Extends(q, r, s)
      /\ q.transfer[s] = Enrolled(q4.transfer[s])
      /\ q.file = q4.file
      /\ q.transport = q4.transport
      /\ q.regs = Append(r.regs, e)
  <2>1. q4.transport[q4.transfer[s].transport].fd = fd
    BY <1>2
  <2>2. fd \in Fds
    OBVIOUS
  <2>3. Extends(q4, r, s) /\ q4.regs = r.regs
    BY <1>2
  <2>4. Enlisted(RegisterTransfer(q4, s), q4, r, s, fd)
    BY <2>1, <2>2, <2>3, RegisterExtends
  <2> QED
    BY <1>3, <2>3, <2>4 DEF Enlisted
<1> HIDE DEF e
<1>5. /\ q.transfer[s].inUse = TRUE /\ q.transfer[s].registered = TRUE
      /\ q.transfer[s].peer = p /\ q.transfer[s].name = n
      /\ q.transfer[s].file = f /\ q.transfer[s].transport = t
      /\ q.transfer[s].block = 0
  <2>1. q4.transfer[s] \in Transfers
    BY <1>2 DEF Extends, Objects
  <2> QED
    BY <1>2, <1>4, <2>1 DEF Enrolled, Transfers
<1>6. /\ q.transport[t].used = TRUE /\ q.transport[t].fd = fd
      /\ q.file[f].inUse = TRUE /\ q.file[f].open = TRUE
      /\ q.file[f].name = n /\ q.file[f].pos = 0
  BY <1>2, <1>4
<1>7. \A i \in DOMAIN r.regs : r.regs[i].fd # fd
  <2> SUFFICES ASSUME NEW i \in DOMAIN r.regs PROVE r.regs[i].fd # fd
    OBVIOUS
  <2> QED
    BY RegisteredIsOpen
<1>8. CleanUp(q, s) = r
  <2>1. q.transfer[s].transport # Null
    BY <1>5, SlotsAreNotNull
  <2>2. q.transport[q.transfer[s].transport].fd = fd
    BY <1>5, <1>6
  <2>3. q.regs = Append(r.regs, Entry(fd, s))
    BY <1>4 DEF e
  <2> QED
    BY <1>4, <1>5, <1>7, <2>1, <2>2, <2>3, RegisteredIsGivenBack,
       SMTT(30)
<1>9. /\ q \in Objects /\ q.server = r.server
      /\ \A i \in TransferSlots \ {s} : q.transfer[i] = r.transfer[i]
      /\ \A i \in FileSlots \ {f} : q.file[i] = r.file[i]
      /\ \A i \in TransportSlots \ {t} : q.transport[i] = r.transport[i]
  BY <1>4, <1>5 DEF Extends, Objects
<1>10. \A i \in TransferSlots \ {s} : Live(r, i) =>
        /\ r.transfer[i].file \in FileSlots \ {f}
        /\ r.transfer[i].transport \in TransportSlots \ {t}
  <2> SUFFICES ASSUME NEW i \in TransferSlots \ {s}, Live(r, i)
               PROVE  /\ r.transfer[i].file \in FileSlots \ {f}
                      /\ r.transfer[i].transport \in TransportSlots \ {t}
    OBVIOUS
  <2>1. /\ r.transfer[i].file \in FileSlots
        /\ r.transfer[i].transport \in TransportSlots
    BY <1>1 DEF Good, WholeOrFree, Live, Objects, Transfers
  <2>2. /\ r.file[r.transfer[i].file].inUse
        /\ r.transport[r.transfer[i].transport].used
    BY DEF Good, NothingLeaks
  <2> QED
    BY <2>1, <2>2
<1>11. r.server # t
  BY SlotsAreNotNull DEF Good, NothingLeaks
<1>12. WholeOrFree(q)
  BY <1>5, <1>6, <1>9, <1>10, SlotsAreNotNull
  DEF Good, WholeOrFree, Live
<1>13. NothingShared(q)
  <2>1. \A i \in TransportSlots : r.transport[i].fd # fd
    BY DEF OpenFds
  <2> QED
    BY <1>5, <1>6, <1>9, <1>10, <1>11, <2>1
    DEF Good, NothingShared, Live
<1>14. NothingLeaks(q)
  <2>1. ASSUME NEW i \in FileSlots
        PROVE  IF q.file[i].inUse
               THEN \E j \in TransferSlots : Live(q, j) /\ q.transfer[j].file = i
               ELSE q.file[i] = FreeFile
    <3>1. CASE i = f
      BY <1>5, <1>6, <3>1 DEF Live
    <3>2. CASE i # f
      <4>1. IF r.file[i].inUse
            THEN \E j \in TransferSlots : Live(r, j) /\ r.transfer[j].file = i
            ELSE r.file[i] = FreeFile
        BY DEF Good, NothingLeaks
      <4> QED
        BY <1>9, <3>2, <4>1 DEF Live
    <3> QED
      BY <3>1, <3>2
  <2>2. ASSUME NEW i \in TransportSlots
        PROVE  IF q.transport[i].used
               THEN /\ q.transport[i].fd # None
                    /\ \/ q.server = i
                       \/ \E j \in TransferSlots :
                            Live(q, j) /\ q.transfer[j].transport = i
               ELSE q.transport[i] = FreeTransport
    <3>1. CASE i = t
      BY <1>5, <1>6, <3>1 DEF Live
    <3>2. CASE i # t
      <4>1. IF r.transport[i].used
            THEN /\ r.transport[i].fd # None
                 /\ \/ r.server = i
                    \/ \E j \in TransferSlots :
                         Live(r, j) /\ r.transfer[j].transport = i
            ELSE r.transport[i] = FreeTransport
        BY DEF Good, NothingLeaks
      <4> QED
        BY <1>9, <3>2, <4>1 DEF Live
    <3> QED
      BY <3>1, <3>2
  <2>3. ASSUME NEW i \in TransferSlots, Live(q, i)
        PROVE  /\ q.file[q.transfer[i].file].inUse
               /\ q.transport[q.transfer[i].transport].used
    <3>1. CASE i = s
      BY <1>5, <1>6, <3>1
    <3>2. CASE i # s
      BY <1>9, <1>10, <2>3, <3>2 DEF Good, NothingLeaks, Live
    <3> QED
      BY <3>1, <3>2
  <2>4. q.server # Null => q.transport[q.server].used
    BY <1>1, <1>9, <1>11 DEF Good, NothingLeaks, Objects
  <2> QED
    BY <2>1, <2>2, <2>3, <2>4 DEF NothingLeaks
<1>15. TableExact(q, Lost)
  <2>1. /\ r.regs \in Seq(Registrations) /\ e \in Registrations
        /\ e.fd = fd /\ e.ctx = s
    BY <1>1 DEF Objects, Registrations, Entry, e
  <2>2. /\ DOMAIN q.regs = 1 .. Len(r.regs) + 1
        /\ DOMAIN r.regs = 1 .. Len(r.regs) /\ Len(r.regs) \in Nat
        /\ q.regs[Len(r.regs) + 1] = e
        /\ \A i \in DOMAIN r.regs : q.regs[i] = r.regs[i]
    BY <1>4, <2>1, AppendProperties
  <2>3. \A i \in DOMAIN r.regs : Owns(q, q.regs[i].ctx, q.regs[i].fd)
    <3> SUFFICES ASSUME NEW i \in DOMAIN r.regs
                 PROVE  Owns(q, r.regs[i].ctx, r.regs[i].fd)
      BY <2>2
    <3> DEFINE c == r.regs[i].ctx
    <3>1. /\ OwnTransport(r, c) \in TransportSlots
          /\ r.transport[OwnTransport(r, c)].fd = r.regs[i].fd
          /\ c \in TransferSlots \cup {Server}
          /\ r.regs[i].fd \in Fds
      BY RegisteredIsOpen DEF Registrations
    <3>2. OwnTransport(r, c) # t
      BY <1>1, <3>1, FreeFields
    <3>3. OwnTransport(q, c) = OwnTransport(r, c)
      BY <1>1, <1>9, <3>1, FreeFields, SlotsAreNotNull DEF OwnTransport
    <3> QED
      BY <1>9, <3>1, <3>2, <3>3, SlotsAreNotNull DEF Owns
  <2>4. Owns(q, e.ctx, e.fd)
    BY <1>5, <1>6, <2>1, SlotsAreNotNull DEF Owns, OwnTransport
  <2>5. \A i, j \in DOMAIN q.regs : q.regs[i].fd = q.regs[j].fd => i = j
    <3>1. \A i, j \in DOMAIN r.regs : r.regs[i].fd = r.regs[j].fd => i = j
      BY DEF Good, TableExact
    <3> QED
      <4> SUFFICES ASSUME NEW i \in DOMAIN q.regs, NEW j \in DOMAIN q.regs,
                          q.regs[i].fd = q.regs[j].fd
                   PROVE  i = j
        OBVIOUS
      <4>1. CASE i \in DOMAIN r.regs /\ j \in DOMAIN r.regs
        BY <2>2, <3>1, <4>1
      <4>2. \A k \in DOMAIN r.regs : q.regs[k].fd # q.regs[Len(r.regs) + 1].fd
        BY <1>7, <2>1, <2>2
      <4> QED
        BY <2>2, <4>1, <4>2, SMTT(30)
  <2>6. \A i \in TransferSlots \ Lost : Live(q, i) => Registered(q, i)
    <3> SUFFICES ASSUME NEW i \in TransferSlots \ Lost, Live(q, i)
                 PROVE  \E j \in DOMAIN q.regs : q.regs[j].ctx = i
      BY DEF Registered
    <3>1. CASE i = s
      <4>1. Len(r.regs) + 1 \in DOMAIN q.regs
        BY <2>2
      <4>2. q.regs[Len(r.regs) + 1].ctx = i
        BY <2>1, <2>2, <3>1
      <4> QED
        BY <4>1, <4>2
    <3>2. CASE i # s
      <4>1. Live(r, i)
        BY <1>9, <3>2 DEF Live
      <4>2. \E j \in DOMAIN r.regs : r.regs[j].ctx = i
        BY <4>1 DEF Good, TableExact, Registered
      <4> QED
        BY <2>2, <4>2
    <3> QED
      BY <3>1, <3>2
  <2>7. q.server # Null => Registered(q, Server)
    BY <1>9, <2>2, SMTT(30) DEF Good, TableExact, Registered
  <2> QED
    BY <2>2, <2>3, <2>4, <2>5, <2>6, <2>7, SMTT(30)
    DEF TableExact
<1>16. Len(q.regs) = Len(r.regs) + 1
  <2>1. r.regs \in Seq(Registrations)
    BY <1>1 DEF Objects
  <2> QED
    BY <1>4, <2>1
<1>17. Granted(q, r, s, n, f, Lost)
  BY <1>4, <1>5, <1>6, <1>8, <1>9, <1>12, <1>13, <1>14, <1>15, <1>16
  DEF Good, Live, Granted
<1> QED
  BY <1>5, <1>17 DEF q

\* regs is the registrations of r without that of ctx, whose descriptor is fd.
Dropped(regs, r, ctx, fd) ==
    /\ fd \in Fds
    /\ regs \in Seq(Registrations)
    /\ \A i \in DOMAIN regs : \E j \in DOMAIN r.regs :
        regs[i] = r.regs[j] /\ r.regs[j].ctx # ctx /\ r.regs[j].fd # fd
    /\ \A j \in DOMAIN r.regs : r.regs[j].ctx # ctx =>
        \E i \in DOMAIN regs : regs[i] = r.regs[j]
    /\ \A i, j \in DOMAIN regs : regs[i].fd = regs[j].fd => i = j

\* A descriptor is registered once, so unregistering it drops one entry.
LEMMA OneLess ==
    ASSUME NEW Lost, NEW r, Good(r, Lost), NEW k \in DOMAIN r.regs
    PROVE  Len(Unregister(r, r.regs[k].fd).regs) = Len(r.regs) - 1
<1>1. r \in Objects /\ r.regs \in Seq(Registrations)
  BY DEF Good, Objects
<1>2. Unregister(r, r.regs[k].fd).regs = RemoveAt(r.regs, k)
  <2>1. Unregister(r, r.regs[k].fd) = [r EXCEPT !.regs = RemoveAt(@, k)]
    BY <1>1, UnregisterOnce DEF Good, TableExact
  <2> QED
    BY <1>1, <2>1 DEF Objects
<1> QED
  BY <1>1, <1>2, RemoveAtEntries

\* A live context is registered once, so unregistering its descriptor drops
\* its registration and no other.
LEMMA RegistrationDropped ==
    ASSUME NEW Lost, NEW r, Good(r, Lost), NEW k \in DOMAIN r.regs
    PROVE  Dropped(Unregister(r, r.regs[k].fd).regs, r,
                   r.regs[k].ctx, r.regs[k].fd)
<1> DEFINE fd   == r.regs[k].fd
           ctx  == r.regs[k].ctx
           n    == Len(r.regs)
           regs == RemoveAt(r.regs, k)
<1>1. /\ r \in Objects /\ r.regs \in Seq(Registrations)
      /\ DOMAIN r.regs = 1 .. n /\ n \in Nat
  BY DEF Good, Objects
<1>2. \A i, j \in DOMAIN r.regs : r.regs[i].fd = r.regs[j].fd => i = j
  BY DEF Good, TableExact
<1>3. Unregister(r, fd).regs = regs
  <2>1. Unregister(r, fd) = [r EXCEPT !.regs = regs]
    BY <1>1, <1>2, UnregisterOnce
  <2> HIDE DEF regs, fd
  <2> QED
    BY <1>1, <2>1 DEF Objects
<1>4. \A j \in DOMAIN r.regs : j # k => r.regs[j].fd # fd /\ r.regs[j].ctx # ctx
  <2> SUFFICES ASSUME NEW j \in DOMAIN r.regs, j # k
               PROVE  r.regs[j].fd # fd /\ r.regs[j].ctx # ctx
    OBVIOUS
  <2>1. Owns(r, r.regs[j].ctx, r.regs[j].fd) /\ Owns(r, ctx, fd)
    BY DEF Good, TableExact
  <2> QED
    BY <1>2, <2>1 DEF Owns
<1> HIDE DEF regs
<1>5. /\ regs \in Seq(Registrations)
      /\ Len(regs) = n - 1
      /\ \A i \in 1 .. n - 1 :
            regs[i] = IF i < k THEN r.regs[i] ELSE r.regs[i + 1]
  BY <1>1, RemoveAtEntries DEF regs
<1>6. DOMAIN regs = 1 .. n - 1 /\ k \in 1 .. n
  BY <1>1, <1>5
<1>7. \A i \in DOMAIN regs : \E j \in DOMAIN r.regs : j # k /\ regs[i] = r.regs[j]
  <2> SUFFICES ASSUME NEW i \in DOMAIN regs
               PROVE  \E j \in DOMAIN r.regs : j # k /\ regs[i] = r.regs[j]
    OBVIOUS
  <2>1. CASE i < k
    BY <1>1, <1>5, <1>6, <2>1
  <2>2. CASE ~(i < k)
    <3>1. i + 1 \in DOMAIN r.regs /\ i + 1 # k
      BY <1>1, <1>6, <2>2
    <3> QED
      BY <1>5, <1>6, <2>2, <3>1
  <2> QED
    BY <2>1, <2>2
<1>8. \A j \in DOMAIN r.regs : j # k => \E i \in DOMAIN regs : regs[i] = r.regs[j]
  <2> SUFFICES ASSUME NEW j \in DOMAIN r.regs, j # k
               PROVE  \E i \in DOMAIN regs : regs[i] = r.regs[j]
    OBVIOUS
  <2>1. CASE j < k
    BY <1>1, <1>5, <1>6, <2>1
  <2>2. CASE j > k
    <3>1. j - 1 \in DOMAIN regs /\ ~(j - 1 < k) /\ j - 1 + 1 = j
      BY <1>1, <1>6, <2>2
    <3> QED
      BY <1>5, <1>6, <3>1
  <2> QED
    BY <1>1, <1>6, <2>1, <2>2
<1>9. \A i, j \in DOMAIN regs : regs[i].fd = regs[j].fd => i = j
  <2> SUFFICES ASSUME NEW i \in DOMAIN regs, NEW j \in DOMAIN regs,
                      regs[i].fd = regs[j].fd
               PROVE  i = j
    OBVIOUS
  <2> DEFINE At(m) == IF m < k THEN m ELSE m + 1
  <2>1. \A m \in DOMAIN regs : At(m) \in DOMAIN r.regs /\ regs[m] = r.regs[At(m)]
    BY <1>1, <1>5, <1>6, SMTT(30)
  <2>2. At(i) = At(j)
    BY <1>2, <2>1
  <2> QED
    BY <1>1, <1>6, <2>2
<1>10. fd \in Fds
  BY RegisteredIsOpen DEF Registrations
<1>11. \A i \in DOMAIN regs : \E j \in DOMAIN r.regs :
            regs[i] = r.regs[j] /\ r.regs[j].ctx # ctx /\ r.regs[j].fd # fd
  BY <1>4, <1>7
<1>12. \A j \in DOMAIN r.regs : r.regs[j].ctx # ctx =>
            \E i \in DOMAIN regs : regs[i] = r.regs[j]
  BY <1>8
<1>13. Dropped(regs, r, ctx, fd)
  BY <1>5, <1>9, <1>10, <1>11, <1>12 DEF Dropped
<1> QED
  BY <1>3, <1>13

\* Given that every other context keeps its transport, TableExact
\* survives the registration of ctx being dropped.
LEMMA ReleasedRegistrations ==
    ASSUME NEW Lost, NEW r, Good(r, Lost), NEW q,
           NEW ctx \in TransferSlots \cup {Server},
           NEW fd, Dropped(q.regs, r, ctx, fd),
           \A t \in TransportSlots : r.transport[t].fd # fd =>
                q.transport[t] = r.transport[t],
           \A c \in (TransferSlots \cup {Server}) \ {ctx} :
                OwnTransport(q, c) = OwnTransport(r, c),
           \A s \in TransferSlots : Live(q, s) => Live(r, s) /\ s # ctx,
           q.server # Null => r.server # Null /\ ctx # Server
    PROVE  TableExact(q, Lost)
<1>1. ASSUME NEW i \in DOMAIN q.regs
      PROVE  Owns(q, q.regs[i].ctx, q.regs[i].fd)
  <2>1. PICK j \in DOMAIN r.regs :
            q.regs[i] = r.regs[j] /\ r.regs[j].ctx # ctx /\ r.regs[j].fd # fd
    BY DEF Dropped
  <2> DEFINE c == r.regs[j].ctx
             t == OwnTransport(r, c)
  <2>2. /\ c \in TransferSlots \cup {Server} /\ t \in TransportSlots
        /\ r.transport[t].fd = r.regs[j].fd
    BY RegisteredIsOpen DEF Registrations
  <2>3. OwnTransport(q, c) = t /\ q.transport[t] = r.transport[t]
    BY <2>1, <2>2
  <2> QED
    BY <2>1, <2>2, <2>3, SlotsAreNotNull DEF Owns
<1>2. \A i, j \in DOMAIN q.regs : q.regs[i].fd = q.regs[j].fd => i = j
  BY DEF Dropped
<1>3. ASSUME NEW c \in (TransferSlots \cup {Server}) \ {ctx},
             \E j \in DOMAIN r.regs : r.regs[j].ctx = c
      PROVE  \E i \in DOMAIN q.regs : q.regs[i].ctx = c
  BY <1>3 DEF Dropped
<1>4. \A s \in TransferSlots \ Lost : Live(q, s) => Registered(q, s)
  BY <1>3 DEF Good, TableExact, Registered
<1>5. q.server # Null => Registered(q, Server)
  BY <1>3 DEF Good, TableExact, Registered
<1> QED
  BY <1>1, <1>2, <1>4, <1>5 DEF TableExact

\* Releasing a live transfer keeps Good: its registration, its file and its
\* transport go with it.
LEMMA CleanUpGood ==
    ASSUME NEW Lost, NEW r, Good(r, Lost), NEW s \in TransferSlots, Live(r, s),
           Registered(r, s)
    PROVE  /\ Good(CleanUp(r, s), Lost)
           /\ CleanUp(r, s) = Cleaned(r, s)
           /\ Len(CleanUp(r, s).regs) = Len(r.regs) - 1
<1> DEFINE q  == CleanUp(r, s)
           x  == r.transfer[s]
           fd == r.transport[x.transport].fd
<1>1. /\ r \in Objects /\ x \in Transfers
      /\ q = Cleaned(r, s)
  BY CleanUpEffect DEF Good, Objects
<1>2. /\ x.registered /\ x.file \in FileSlots /\ x.transport \in TransportSlots
  BY <1>1 DEF Good, WholeOrFree, Live, Transfers
<1>3. PICK k \in DOMAIN r.regs : r.regs[k].ctx = s
  BY DEF Registered
<1>4. r.regs[k].fd = fd
  BY <1>3, SlotsAreNotNull, RegisteredIsOpen DEF OwnTransport
<1>5. /\ Dropped(Unregister(r, fd).regs, r, s, fd)
      /\ Len(Unregister(r, fd).regs) = Len(r.regs) - 1
  BY <1>3, <1>4, RegistrationDropped, OneLess
<1>6. /\ q.transfer = [r.transfer EXCEPT ![s] = FreeTransfer]
      /\ q.file = [f \in FileSlots |->
                      IF f = x.file THEN FreeFile ELSE r.file[f]]
      /\ q.transport = [t \in TransportSlots |->
                      IF t = x.transport THEN FreeTransport
                      ELSE r.transport[t]]
      /\ q.regs = Unregister(r, fd).regs
      /\ q.server = r.server
      /\ q = [transfer |-> q.transfer, file |-> q.file,
              transport |-> q.transport, regs |-> q.regs,
              server |-> q.server]
  BY <1>1, <1>2, SlotsAreNotNull DEF Cleaned
<1> HIDE DEF q, fd
<1>7. /\ q.transfer[s] = FreeTransfer
      /\ \A i \in TransferSlots \ {s} : q.transfer[i] = r.transfer[i]
      /\ q.file[x.file] = FreeFile
      /\ \A i \in FileSlots \ {x.file} : q.file[i] = r.file[i]
      /\ q.transport[x.transport] = FreeTransport
      /\ \A i \in TransportSlots \ {x.transport} :
            q.transport[i] = r.transport[i]
  BY <1>1, <1>2, <1>6 DEF Objects
<1>8. q \in Objects
  <2>1. /\ FreeTransfer \in Transfers /\ FreeFile \in OpenFiles
        /\ FreeTransport \in Transports
    BY FreeFields
  <2>2. /\ q.transfer \in [TransferSlots -> Transfers]
        /\ q.file \in [FileSlots -> OpenFiles]
        /\ q.transport \in [TransportSlots -> Transports]
    BY <1>1, <1>6, <2>1 DEF Objects
  <2>3. q.regs \in Seq(Registrations) /\ q.server \in TransportSlots \cup {Null}
    BY <1>1, <1>5, <1>6 DEF Dropped, Objects
  <2> QED
    BY <1>6, <2>2, <2>3 DEF Objects
<1>9. \A i \in TransferSlots \ {s} : Live(r, i) =>
        /\ r.transfer[i].file \in FileSlots \ {x.file}
        /\ r.transfer[i].transport \in TransportSlots \ {x.transport}
  <2> SUFFICES ASSUME NEW i \in TransferSlots \ {s}, Live(r, i)
               PROVE  /\ r.transfer[i].file \in FileSlots \ {x.file}
                      /\ r.transfer[i].transport \in TransportSlots \ {x.transport}
    OBVIOUS
  <2>1. /\ r.transfer[i].file \in FileSlots
        /\ r.transfer[i].transport \in TransportSlots
    BY <1>1 DEF Good, WholeOrFree, Live, Objects, Transfers
  <2> QED
    BY <2>1 DEF Good, NothingShared
<1>10. \A i \in TransferSlots : Live(q, i) => i # s /\ Live(r, i)
  BY <1>7, FreeFields DEF Live
<1>11. x.transport # r.server
  BY DEF Good, NothingShared
<1>12. WholeOrFree(q)
  <2> SUFFICES ASSUME NEW i \in TransferSlots
               PROVE  IF q.transfer[i].inUse
                      THEN /\ q.transfer[i].registered
                           /\ q.transfer[i].peer \in Peers
                           /\ q.transfer[i].name \in DOMAIN FileBlocks
                           /\ q.transfer[i].file # Null
                           /\ q.file[q.transfer[i].file].open
                           /\ q.file[q.transfer[i].file].name
                                 = q.transfer[i].name
                           /\ q.transfer[i].transport # Null
                      ELSE q.transfer[i] = FreeTransfer
    BY DEF WholeOrFree
  <2>1. CASE i = s
    BY <1>7, <2>1, FreeFields
  <2>2. CASE i # s
    BY <1>7, <1>9, <2>2 DEF Good, WholeOrFree, Live
  <2> QED
    BY <2>1, <2>2
<1>13. NothingShared(q)
  <2>1. \A t1, t2 \in TransportSlots :
            q.transport[t1].fd = q.transport[t2].fd /\ q.transport[t1].fd # None
                => t1 = t2
    BY <1>7, FreeFields DEF Good, NothingShared
  <2>2. \A i \in TransferSlots : Live(q, i) => q.transfer[i].transport # q.server
    BY <1>6, <1>7, <1>10 DEF Good, NothingShared
  <2>3. \A s1, s2 \in TransferSlots :
            Live(q, s1) /\ Live(q, s2) /\ s1 # s2 =>
                /\ q.transfer[s1].file # q.transfer[s2].file
                /\ q.transfer[s1].transport # q.transfer[s2].transport
    BY <1>7, <1>10 DEF Good, NothingShared
  <2> QED
    BY <2>1, <2>2, <2>3 DEF NothingShared
<1>14. NothingLeaks(q)
  <2>1. ASSUME NEW i \in FileSlots
        PROVE  IF q.file[i].inUse
               THEN \E j \in TransferSlots : Live(q, j) /\ q.transfer[j].file = i
               ELSE q.file[i] = FreeFile
    <3>1. CASE i = x.file
      BY <1>7, <3>1, FreeFields
    <3>2. CASE i # x.file
      <4>1. IF r.file[i].inUse
            THEN \E j \in TransferSlots : Live(r, j) /\ r.transfer[j].file = i
            ELSE r.file[i] = FreeFile
        BY DEF Good, NothingLeaks
      <4> QED
        BY <1>7, <3>2, <4>1 DEF Live
    <3> QED
      BY <3>1, <3>2
  <2>2. ASSUME NEW i \in TransportSlots
        PROVE  IF q.transport[i].used
               THEN /\ q.transport[i].fd # None
                    /\ \/ q.server = i
                       \/ \E j \in TransferSlots :
                            Live(q, j) /\ q.transfer[j].transport = i
               ELSE q.transport[i] = FreeTransport
    <3>1. CASE i = x.transport
      BY <1>7, <3>1, FreeFields
    <3>2. CASE i # x.transport
      <4>1. IF r.transport[i].used
            THEN /\ r.transport[i].fd # None
                 /\ \/ r.server = i
                    \/ \E j \in TransferSlots :
                         Live(r, j) /\ r.transfer[j].transport = i
            ELSE r.transport[i] = FreeTransport
        BY DEF Good, NothingLeaks
      <4> QED
        BY <1>6, <1>7, <3>2, <4>1 DEF Live
    <3> QED
      BY <3>1, <3>2
  <2>3. ASSUME NEW i \in TransferSlots, Live(q, i)
        PROVE  /\ q.file[q.transfer[i].file].inUse
               /\ q.transport[q.transfer[i].transport].used
    BY <1>7, <1>9, <1>10, <2>3 DEF Good, NothingLeaks
  <2>4. q.server # Null => q.transport[q.server].used
    BY <1>1, <1>6, <1>7, <1>11 DEF Good, NothingLeaks, Objects
  <2> QED
    BY <2>1, <2>2, <2>3, <2>4 DEF NothingLeaks
<1>15. TableExact(q, Lost)
  <2>1. \A t \in TransportSlots : r.transport[t].fd # fd =>
            q.transport[t] = r.transport[t]
    BY <1>7 DEF fd
  <2>2. \A c \in (TransferSlots \cup {Server}) \ {s} :
            OwnTransport(q, c) = OwnTransport(r, c)
    BY <1>6, <1>7 DEF OwnTransport
  <2>3. Dropped(q.regs, r, s, fd)
    BY <1>5, <1>6
  <2>4. /\ \A i \in TransferSlots : Live(q, i) => Live(r, i) /\ i # s
        /\ q.server # Null => r.server # Null /\ s # Server
        /\ s \in TransferSlots \cup {Server}
    BY <1>6, <1>10, SlotsAreNotNull
  <2> QED
    BY <2>1, <2>2, <2>3, <2>4, ReleasedRegistrations
<1>16. Good(q, Lost)
  BY <1>8, <1>12, <1>13, <1>14, <1>15 DEF Good
<1> QED
  BY <1>1, <1>5, <1>6, <1>16 DEF q

\* o differs from q only in the progress of transfers and files in use.
SameHoldings(o, q) ==
    /\ o \in Objects
    /\ o.transport = q.transport /\ o.regs = q.regs /\ o.server = q.server
    /\ \A i \in TransferSlots :
        /\ o.transfer[i].inUse = q.transfer[i].inUse
        /\ IF q.transfer[i].inUse
           THEN /\ o.transfer[i].registered = q.transfer[i].registered
                /\ o.transfer[i].peer = q.transfer[i].peer
                /\ o.transfer[i].name = q.transfer[i].name
                /\ o.transfer[i].file = q.transfer[i].file
                /\ o.transfer[i].transport = q.transfer[i].transport
           ELSE o.transfer[i] = q.transfer[i]
    /\ \A i \in FileSlots :
        /\ o.file[i].inUse = q.file[i].inUse
        /\ IF q.file[i].inUse
           THEN /\ o.file[i].open = q.file[i].open
                /\ o.file[i].name = q.file[i].name
           ELSE o.file[i] = q.file[i]

LEMMA SameHoldingsGood ==
    ASSUME NEW Lost, NEW q, Good(q, Lost), NEW o, SameHoldings(o, q)
    PROVE  Good(o, Lost)
<1>1. /\ \A i \in TransferSlots : Live(o, i) <=> Live(q, i)
      /\ \A i \in TransferSlots : Live(q, i) =>
            /\ o.transfer[i].registered = q.transfer[i].registered
            /\ o.transfer[i].peer = q.transfer[i].peer
            /\ o.transfer[i].name = q.transfer[i].name
            /\ o.transfer[i].file = q.transfer[i].file
            /\ o.transfer[i].transport = q.transfer[i].transport
      /\ \A i \in TransferSlots : ~Live(q, i) => o.transfer[i] = q.transfer[i]
  BY DEF SameHoldings, Live
<1>2. /\ o \in Objects
      /\ o.transport = q.transport /\ o.regs = q.regs /\ o.server = q.server
      /\ \A i \in FileSlots :
            /\ o.file[i].inUse = q.file[i].inUse
            /\ IF q.file[i].inUse
               THEN /\ o.file[i].open = q.file[i].open
                    /\ o.file[i].name = q.file[i].name
               ELSE o.file[i] = q.file[i]
  BY DEF SameHoldings
<1>3. \A i \in TransferSlots : Live(q, i) =>
        /\ q.transfer[i].file \in FileSlots
        /\ q.file[q.transfer[i].file].inUse
  BY DEF Good, WholeOrFree, NothingLeaks, Live, Objects, Transfers
<1>4. WholeOrFree(o)
  BY <1>1, <1>2, <1>3 DEF Good, WholeOrFree, Live
<1>5. NothingShared(o)
  BY <1>1, <1>2 DEF Good, NothingShared
<1>6. NothingLeaks(o)
  BY <1>1, <1>2, <1>3 DEF Good, NothingLeaks
<1>7. TableExact(o, Lost)
  <2>1. \A c \in TransferSlots \cup {Server} :
            OwnTransport(o, c) = OwnTransport(q, c)
    <3> SUFFICES ASSUME NEW c \in TransferSlots \cup {Server}
                 PROVE  OwnTransport(o, c) = OwnTransport(q, c)
      OBVIOUS
    <3>1. CASE c = Server
      BY <1>2, <3>1 DEF OwnTransport
    <3>2. CASE c # Server
      BY <1>1, <3>2 DEF OwnTransport
    <3> QED
      BY <3>1, <3>2
  <2>2. ASSUME NEW i \in DOMAIN q.regs
        PROVE  Owns(o, o.regs[i].ctx, o.regs[i].fd)
    <3>1. q.regs[i].ctx \in TransferSlots \cup {Server}
      BY RegisteredIsOpen DEF Registrations
    <3>2. Owns(q, q.regs[i].ctx, q.regs[i].fd)
      BY DEF Good, TableExact
    <3> QED
      BY <1>2, <2>1, <3>1, <3>2 DEF Owns
  <2> QED
    BY <1>1, <1>2, <2>2 DEF Good, TableExact, Registered
<1> QED
  BY <1>2, <1>4, <1>5, <1>6, <1>7 DEF Good

\* The transfer's entry after Abort, and after a block is sent.
Failed(x) == [x EXCEPT !.state = "ERROR"]
Sending(x, b, last) ==
    [x EXCEPT !.block = b, !.expected = b, !.final = last, !.state = "WAIT_ACK"]
ReadOn(y) == [y EXCEPT !.pos = @ + 1]

LEMMA ReadOnEffect ==
    ASSUME NEW y \in OpenFiles
    PROVE  /\ ReadOn(y) \in OpenFiles
           /\ ReadOn(y).inUse = y.inUse /\ ReadOn(y).open = y.open
           /\ ReadOn(y).name = y.name /\ ReadOn(y).pos = y.pos + 1
BY DEF OpenFiles, ReadOn

\* Marking a transfer failed keeps what it holds.
LEMMA AbortGood ==
    ASSUME NEW Lost, NEW q, Good(q, Lost), NEW s \in TransferSlots, Live(q, s)
    PROVE  /\ Good(Abort(q, s), Lost)
           /\ Live(Abort(q, s), s)
           /\ Abort(q, s).transfer[s] = Failed(q.transfer[s])
           /\ Abort(q, s).transfer[s].state = "ERROR"
           /\ \A i \in TransferSlots \ {s} :
                Abort(q, s).transfer[i] = q.transfer[i]
           /\ Abort(q, s).file = q.file
           /\ Abort(q, s).transport = q.transport
           /\ Abort(q, s).server = q.server
           /\ Abort(q, s).regs = q.regs
<1> DEFINE o == Abort(q, s)
           x == Failed(q.transfer[s])
<1>1. q \in Objects /\ q.transfer[s] \in Transfers
  BY DEF Good, Objects
<1>2. /\ x \in Transfers
      /\ x.inUse = q.transfer[s].inUse
      /\ x.registered = q.transfer[s].registered
      /\ x.peer = q.transfer[s].peer /\ x.name = q.transfer[s].name
      /\ x.file = q.transfer[s].file
      /\ x.transport = q.transfer[s].transport
      /\ x.state = "ERROR"
  BY <1>1 DEF Transfers, Failed
<1>3. o = [q EXCEPT !.transfer[s] = x]
  <2>1. o = [q EXCEPT !.transfer[s] =
                [q.transfer[s] EXCEPT !.state = "ERROR"]]
    BY Zenon DEF Abort
  <2> QED
    BY <2>1 DEF Failed
<1> HIDE DEF x, o
<1>4. /\ o.transfer = [q.transfer EXCEPT ![s] = x]
      /\ o.file = q.file /\ o.transport = q.transport
      /\ o.regs = q.regs /\ o.server = q.server
      /\ o = [transfer |-> o.transfer, file |-> q.file,
              transport |-> q.transport, regs |-> q.regs, server |-> q.server]
  BY <1>1, <1>3 DEF Objects
<1>5. o \in Objects
  <2>1. o.transfer \in [TransferSlots -> Transfers]
    BY <1>1, <1>2, <1>4 DEF Objects
  <2> QED
    BY <1>1, <1>4, <2>1 DEF Objects
<1>6. /\ o.transfer[s] = x
      /\ \A i \in TransferSlots \ {s} : o.transfer[i] = q.transfer[i]
  BY <1>1, <1>4 DEF Objects
<1>7. SameHoldings(o, q)
  BY <1>2, <1>4, <1>5, <1>6 DEF SameHoldings, Live
<1>8. Good(o, Lost)
  BY <1>7, SameHoldingsGood
<1> QED
  BY <1>2, <1>4, <1>6, <1>8 DEF Live, o, x

\* o is q after transfer s has read and sent its next block.
SentOn(o, q, s, Lost) ==
    LET x == q.transfer[s]
        y == o.transfer[s]
    IN  /\ Good(o, Lost) /\ Live(o, s)
        /\ y.peer = x.peer /\ y.name = x.name
        /\ y.file = x.file /\ y.transport = x.transport
        /\ y.state = "WAIT_ACK"
        /\ y.block = (x.block + 1) % BlockMod /\ y.expected = y.block
        /\ y.final = (q.file[x.file].pos >= FileBlocks[q.file[x.file].name])
        /\ o.file[x.file].pos = q.file[x.file].pos + 1
        /\ \A i \in TransferSlots \ {s} : o.transfer[i] = q.transfer[i]
        /\ \A i \in FileSlots \ {x.file} : o.file[i] = q.file[i]
        /\ o.transport = q.transport /\ o.server = q.server
        /\ o.regs = q.regs

LEMMA SendNextGood ==
    ASSUME NEW Lost, NEW q, Good(q, Lost), NEW s \in TransferSlots, Live(q, s)
    PROVE  SentOn(SendNextData(q, s), q, s, Lost)
<1> DEFINE o == SendNextData(q, s)
           f == q.transfer[s].file
           b == (q.transfer[s].block + 1) % BlockMod
           last == q.file[f].pos >= FileBlocks[q.file[f].name]
           x == Sending(q.transfer[s], b, last)
           y == ReadOn(q.file[f])
<1>1. /\ q \in Objects /\ q.transfer[s] \in Transfers
      /\ f \in FileSlots /\ q.file[f] \in OpenFiles
      /\ q.file[f].inUse
  BY DEF Good, WholeOrFree, NothingLeaks, Live, Objects, Transfers
<1>2. b \in Blocks /\ last \in BOOLEAN
  BY <1>1 DEF Transfers, Blocks
<1>3. o = [q EXCEPT !.file[f] = y, !.transfer[s] = x]
  <2>1. o = [q EXCEPT !.file[f].pos = @ + 1,
                      !.transfer[s] =
                        [@ EXCEPT !.block = b, !.expected = b,
                                  !.final = last, !.state = "WAIT_ACK"]]
    BY Zenon DEF SendNextData
  <2> HIDE DEF b, last, o
  <2> DEFINE q1 == [q EXCEPT !.file[f].pos = @ + 1]
  <2>2. q1.transfer[s] = q.transfer[s]
    BY <1>1 DEF Objects
  <2>3. o = [q1 EXCEPT !.transfer[s] = x]
    BY <2>1, <2>2, Zenon DEF Sending
  <2>4. q1 = [q EXCEPT !.file[f] = y]
    BY Zenon DEF ReadOn
  <2> QED
    BY <2>3, <2>4, Zenon
<1> HIDE DEF b, last
<1>4. /\ x \in Transfers
      /\ x.inUse = q.transfer[s].inUse
      /\ x.registered = q.transfer[s].registered
      /\ x.peer = q.transfer[s].peer /\ x.name = q.transfer[s].name
      /\ x.file = f
      /\ x.transport = q.transfer[s].transport
      /\ x.state = "WAIT_ACK" /\ x.block = b /\ x.expected = b
      /\ x.final = last
  BY <1>1, <1>2 DEF Transfers, Sending
<1>5. /\ y \in OpenFiles
      /\ y.inUse = q.file[f].inUse /\ y.open = q.file[f].open
      /\ y.name = q.file[f].name /\ y.pos = q.file[f].pos + 1
  BY <1>1, ReadOnEffect
<1> HIDE DEF x, y, o, f
<1>6. /\ o.transfer = [q.transfer EXCEPT ![s] = x]
      /\ o.file = [q.file EXCEPT ![f] = y] /\ o.transport = q.transport
      /\ o.regs = q.regs /\ o.server = q.server
      /\ o = [transfer |-> o.transfer, file |-> o.file,
              transport |-> q.transport, regs |-> q.regs, server |-> q.server]
  <2> DEFINE q1 == [q EXCEPT !.file[f] = y]
  <2>1. o = [q1 EXCEPT !.transfer[s] = x]
    BY <1>3, Zenon
  <2>2. q1 = [transfer |-> q.transfer, file |-> [q.file EXCEPT ![f] = y],
              transport |-> q.transport, regs |-> q.regs, server |-> q.server]
    BY <1>1 DEF Objects
  <2> HIDE DEF q1
  <2> QED
    BY <2>1, <2>2
<1>7. o \in Objects
  <2>1. /\ o.transfer \in [TransferSlots -> Transfers]
        /\ o.file \in [FileSlots -> OpenFiles]
    BY <1>1, <1>4, <1>5, <1>6 DEF Objects
  <2> QED
    BY <1>1, <1>6, <2>1 DEF Objects
<1>8. /\ o.transfer[s] = x
      /\ \A i \in TransferSlots \ {s} : o.transfer[i] = q.transfer[i]
      /\ o.file[f] = y
      /\ \A i \in FileSlots \ {f} : o.file[i] = q.file[i]
  BY <1>1, <1>6 DEF Objects
<1>9. SameHoldings(o, q)
  BY <1>1, <1>4, <1>5, <1>6, <1>7, <1>8 DEF SameHoldings, Live, f
<1>10. Good(o, Lost)
  BY <1>9, SameHoldingsGood
<1>11. SentOn(o, q, s, Lost)
  BY <1>4, <1>5, <1>6, <1>8, <1>10 DEF Live, SentOn, f, b, last
<1> QED
  BY <1>11 DEF o

\* Starting and stopping the server keep Good as well: it takes a free
\* transport and registers it, and gives both back.
LEMMA ServerStartGood ==
    ASSUME NEW Lost, NEW r, Good(r, Lost), r.server = Null,
           NEW t \in TransportSlots,
           ~r.transport[t].used, NEW fd \in Fds \ OpenFds(r)
    PROVE  /\ Good(Register([TakeTransport(r, t, fd) EXCEPT !.server = t],
                          fd, Server), Lost)
           /\ Register([TakeTransport(r, t, fd) EXCEPT !.server = t],
                     fd, Server).transfer = r.transfer
           /\ Register([TakeTransport(r, t, fd) EXCEPT !.server = t],
                     fd, Server).file = r.file
           /\ Register([TakeTransport(r, t, fd) EXCEPT !.server = t],
                     fd, Server).server = t
           /\ Len(Register([TakeTransport(r, t, fd) EXCEPT !.server = t],
                     fd, Server).regs) = Len(r.regs) + 1
           /\ \A i \in TransportSlots \ {t} :
                Register([TakeTransport(r, t, fd) EXCEPT !.server = t],
                         fd, Server).transport[i] = r.transport[i]
<1> DEFINE taken == [TakeTransport(r, t, fd) EXCEPT !.server = t]
           q == Register(taken, fd, Server)
           e == Entry(fd, Server)
           y == TakenTransport(fd)
<1>1. /\ r \in Objects /\ r.transport[t] = FreeTransport
      /\ fd \in Fds /\ fd # None
      /\ r.regs \in Seq(Registrations)
  BY FreeIsClean DEF Good, Objects
<1>2. /\ y \in Transports /\ y.used = TRUE /\ y.fd = fd
  BY <1>1 DEF Transports, TakenTransport
<1>3. e \in Registrations /\ e.fd = fd /\ e.ctx = Server
  BY <1>1 DEF Registrations, Entry
<1>4. TakeTransport(r, t, fd) = [r EXCEPT !.transport[t] = y]
  BY DEF TakeTransport, TakenTransport
<1>5. q = [taken EXCEPT !.regs = Append(@, e)]
  BY DEF Register, Entry
<1> HIDE DEF y, e, q
<1>6. /\ q.transfer = r.transfer /\ q.file = r.file
      /\ q.transport = [r.transport EXCEPT ![t] = y]
      /\ q.regs = Append(r.regs, e) /\ q.server = t
      /\ q = [transfer |-> r.transfer, file |-> r.file,
              transport |-> q.transport, regs |-> q.regs, server |-> t]
  <2> DEFINE a == TakeTransport(r, t, fd)
  <2>1. a = [transfer |-> r.transfer, file |-> r.file,
             transport |-> [r.transport EXCEPT ![t] = y],
             regs |-> r.regs, server |-> r.server]
    BY <1>1, <1>4 DEF Objects
  <2> HIDE DEF a
  <2>2. taken = [transfer |-> r.transfer, file |-> r.file,
                 transport |-> [r.transport EXCEPT ![t] = y],
                 regs |-> r.regs, server |-> t]
    <3>1. taken = [a EXCEPT !.server = t]
      BY DEF a
    <3> HIDE DEF taken
    <3> QED
      BY <2>1, <3>1
  <2> HIDE DEF taken
  <2> QED
    BY <1>5, <2>2
<1>7. /\ q.transport[t] = y
      /\ \A i \in TransportSlots \ {t} : q.transport[i] = r.transport[i]
  BY <1>1, <1>6 DEF Objects
<1>8. q \in Objects
  <2>1. q.transport \in [TransportSlots -> Transports]
    BY <1>1, <1>2, <1>6 DEF Objects
  <2>2. q.regs \in Seq(Registrations)
    BY <1>1, <1>3, <1>6
  <2> QED
    BY <1>1, <1>6, <2>1, <2>2 DEF Objects
<1>9. \A i \in TransferSlots : Live(r, i) =>
        r.transfer[i].transport \in TransportSlots \ {t}
  <2> SUFFICES ASSUME NEW i \in TransferSlots, Live(r, i)
               PROVE  r.transfer[i].transport \in TransportSlots \ {t}
    OBVIOUS
  <2>1. r.transfer[i].transport \in TransportSlots
    BY <1>1 DEF Good, WholeOrFree, Live, Objects, Transfers
  <2>2. r.transport[r.transfer[i].transport].used
    BY DEF Good, NothingLeaks
  <2> QED
    BY <2>1, <2>2
<1>10. WholeOrFree(q)
  BY <1>6 DEF Good, WholeOrFree
<1>11. NothingShared(q)
  <2>1. \A i \in TransportSlots : r.transport[i].fd # fd
    BY DEF OpenFds
  <2> QED
    BY <1>2, <1>6, <1>7, <1>9, <2>1 DEF Good, NothingShared, Live
<1>12. NothingLeaks(q)
  <2>1. ASSUME NEW i \in TransportSlots
        PROVE  IF q.transport[i].used
               THEN /\ q.transport[i].fd # None
                    /\ \/ q.server = i
                       \/ \E j \in TransferSlots :
                            Live(q, j) /\ q.transfer[j].transport = i
               ELSE q.transport[i] = FreeTransport
    <3>1. CASE i = t
      BY <1>1, <1>2, <1>6, <1>7, <3>1
    <3>2. CASE i # t
      BY <1>6, <1>7, <3>2, SlotsAreNotNull
      DEF Good, NothingLeaks, Live
    <3> QED
      BY <3>1, <3>2
  <2>2. \A i \in FileSlots :
          IF q.file[i].inUse
          THEN \E j \in TransferSlots : Live(q, j) /\ q.transfer[j].file = i
          ELSE q.file[i] = FreeFile
    BY <1>6 DEF Good, NothingLeaks, Live
  <2>3. ASSUME NEW i \in TransferSlots, Live(q, i)
        PROVE  /\ q.file[q.transfer[i].file].inUse
               /\ q.transport[q.transfer[i].transport].used
    BY <1>6, <1>7, <1>9, <2>3 DEF Good, NothingLeaks, Live
  <2> QED
    BY <1>2, <1>6, <1>7, <2>1, <2>2, <2>3 DEF NothingLeaks
<1>13. TableExact(q, Lost)
  <2>1. /\ DOMAIN q.regs = 1 .. Len(r.regs) + 1
        /\ DOMAIN r.regs = 1 .. Len(r.regs) /\ Len(r.regs) \in Nat
        /\ q.regs[Len(r.regs) + 1] = e
        /\ \A i \in DOMAIN r.regs : q.regs[i] = r.regs[i]
    BY <1>1, <1>3, <1>6, AppendProperties
  <2>2. \A i \in DOMAIN r.regs : r.regs[i].fd # fd
    <3> SUFFICES ASSUME NEW i \in DOMAIN r.regs PROVE r.regs[i].fd # fd
      OBVIOUS
    <3> QED
      BY RegisteredIsOpen
  <2>3. ASSUME NEW i \in DOMAIN r.regs
        PROVE  Owns(q, q.regs[i].ctx, q.regs[i].fd)
    <3> DEFINE c == r.regs[i].ctx
    <3>1. /\ c \in TransferSlots \cup {Server}
          /\ OwnTransport(r, c) \in TransportSlots
          /\ r.transport[OwnTransport(r, c)].fd = r.regs[i].fd
          /\ r.regs[i].fd \in Fds
      BY RegisteredIsOpen DEF Registrations
    <3>2. c # Server
      BY <3>1, SlotsAreNotNull DEF OwnTransport
    <3>3. OwnTransport(q, c) = OwnTransport(r, c)
      BY <1>6, <3>2 DEF OwnTransport
    <3>4. OwnTransport(r, c) # t
      BY <1>1, <3>1, FreeFields
    <3> QED
      BY <1>7, <2>1, <3>1, <3>3, <3>4, SlotsAreNotNull DEF Owns
  <2>4. Owns(q, e.ctx, e.fd)
    BY <1>2, <1>3, <1>6, <1>7, SlotsAreNotNull DEF Owns, OwnTransport
  <2>5. \A i, j \in DOMAIN q.regs : q.regs[i].fd = q.regs[j].fd => i = j
    <3>1. \A i, j \in DOMAIN r.regs : r.regs[i].fd = r.regs[j].fd => i = j
      BY DEF Good, TableExact
    <3> SUFFICES ASSUME NEW i \in DOMAIN q.regs, NEW j \in DOMAIN q.regs,
                        q.regs[i].fd = q.regs[j].fd
                 PROVE  i = j
      OBVIOUS
    <3>2. CASE i \in DOMAIN r.regs /\ j \in DOMAIN r.regs
      BY <2>1, <3>1, <3>2
    <3>3. \A k \in DOMAIN r.regs : q.regs[k].fd # q.regs[Len(r.regs) + 1].fd
      BY <1>3, <2>1, <2>2
    <3> QED
      BY <2>1, <3>2, <3>3, SMTT(30)
  <2>6. \A i \in TransferSlots \ Lost : Live(q, i) => Registered(q, i)
    BY <1>6, <2>1 DEF Good, TableExact, Live, Registered
  <2>7. Registered(q, Server)
    BY <1>3, <2>1 DEF Registered
  <2> QED
    BY <2>1, <2>3, <2>4, <2>5, <2>6, <2>7, SMTT(30) DEF TableExact
<1>14. Good(q, Lost)
  BY <1>8, <1>10, <1>11, <1>12, <1>13 DEF Good
<1>15. Len(q.regs) = Len(r.regs) + 1
  BY <1>1, <1>6
<1> QED
  BY <1>6, <1>7, <1>14, <1>15 DEF q

LEMMA ServerStopGood ==
    ASSUME NEW Lost, NEW r, Good(r, Lost), r.server # Null
    PROVE  LET fd == r.transport[r.server].fd
               q  == [ReleaseTransport(Unregister(r, fd), r.server)
                        EXCEPT !.server = Null]
           IN  /\ Good(q, Lost)
               /\ q.transfer = r.transfer
               /\ q.file = r.file
               /\ q.server = Null
               /\ q.transport[r.server] = FreeTransport
               /\ \A i \in TransportSlots \ {r.server} :
                    q.transport[i] = r.transport[i]
               /\ Len(q.regs) = Len(r.regs) - 1
<1> DEFINE t  == r.server
           fd == r.transport[t].fd
           u  == Unregister(r, fd)
           v  == ReleaseTransport(u, t)
           q  == [v EXCEPT !.server = Null]
<1>1. /\ r \in Objects /\ t \in TransportSlots
  BY DEF Good, Objects
<1>2. PICK k \in DOMAIN r.regs : r.regs[k].ctx = Server
  BY DEF Good, TableExact, Registered
<1>3. r.regs[k].fd = fd
  BY <1>2, RegisteredIsOpen DEF OwnTransport
<1>4. Dropped(u.regs, r, Server, fd) /\ Len(u.regs) = Len(r.regs) - 1
  BY <1>2, <1>3, RegistrationDropped, OneLess
<1>5. /\ q.transfer = r.transfer /\ q.file = r.file
      /\ q.transport = [r.transport EXCEPT ![t] = FreeTransport]
      /\ q.regs = u.regs /\ q.server = Null
      /\ q = [transfer |-> r.transfer, file |-> r.file,
              transport |-> q.transport, regs |-> u.regs, server |-> Null]
  <2>1. u = [transfer |-> r.transfer, file |-> r.file,
             transport |-> r.transport, regs |-> u.regs, server |-> t]
    BY <1>1, UnregisterEffect DEF Objects
  <2> HIDE DEF u, t
  <2>2. v = [transfer |-> r.transfer, file |-> r.file,
             transport |-> [r.transport EXCEPT ![t] = FreeTransport],
             regs |-> u.regs, server |-> t]
    BY <2>1 DEF ReleaseTransport
  <2> HIDE DEF v
  <2> QED
    BY <2>2
<1> HIDE DEF t, fd, u, v, q
<1>6. /\ q.transport[t] = FreeTransport
      /\ \A i \in TransportSlots \ {t} : q.transport[i] = r.transport[i]
  BY <1>1, <1>5 DEF Objects
<1>7. q \in Objects
  <2>1. q.transport \in [TransportSlots -> Transports]
    BY <1>1, <1>5, FreeFields DEF Objects
  <2> QED
    BY <1>1, <1>4, <1>5, <2>1 DEF Dropped, Objects
<1>8. \A i \in TransferSlots : Live(r, i) =>
        r.transfer[i].transport \in TransportSlots \ {t}
  <2> SUFFICES ASSUME NEW i \in TransferSlots, Live(r, i)
               PROVE  r.transfer[i].transport \in TransportSlots \ {t}
    OBVIOUS
  <2>1. r.transfer[i].transport \in TransportSlots
    BY <1>1 DEF Good, WholeOrFree, Live, Objects, Transfers
  <2> QED
    BY <2>1 DEF Good, NothingShared, t
<1>9. WholeOrFree(q)
  BY <1>5 DEF Good, WholeOrFree
<1>10. NothingShared(q)
  <2>1. \A t1, t2 \in TransportSlots :
            q.transport[t1].fd = q.transport[t2].fd /\ q.transport[t1].fd # None
                => t1 = t2
    BY <1>6, FreeFields DEF Good, NothingShared
  <2>2. \A i \in TransferSlots : Live(q, i) => q.transfer[i].transport # q.server
    BY <1>5, <1>8, SlotsAreNotNull DEF Live
  <2> QED
    BY <1>5, <2>1, <2>2 DEF Good, NothingShared, Live
<1>11. NothingLeaks(q)
  <2>1. ASSUME NEW i \in TransportSlots
        PROVE  IF q.transport[i].used
               THEN /\ q.transport[i].fd # None
                    /\ \/ q.server = i
                       \/ \E j \in TransferSlots :
                            Live(q, j) /\ q.transfer[j].transport = i
               ELSE q.transport[i] = FreeTransport
    <3>1. CASE i = t
      BY <1>6, <3>1, FreeFields
    <3>2. CASE i # t
      BY <1>5, <1>6, <3>2 DEF Good, NothingLeaks, Live, t
    <3> QED
      BY <3>1, <3>2
  <2>2. \A i \in FileSlots :
          IF q.file[i].inUse
          THEN \E j \in TransferSlots : Live(q, j) /\ q.transfer[j].file = i
          ELSE q.file[i] = FreeFile
    BY <1>5 DEF Good, NothingLeaks, Live
  <2>3. ASSUME NEW i \in TransferSlots, Live(q, i)
        PROVE  /\ q.file[q.transfer[i].file].inUse
               /\ q.transport[q.transfer[i].transport].used
    BY <1>5, <1>6, <1>8, <2>3 DEF Good, NothingLeaks, Live
  <2> QED
    BY <1>5, <2>1, <2>2, <2>3 DEF NothingLeaks
<1>12. TableExact(q, Lost)
  <2>1. \A i \in TransportSlots : r.transport[i].fd # fd =>
            q.transport[i] = r.transport[i]
    BY <1>6 DEF fd
  <2>2. \A c \in (TransferSlots \cup {Server}) \ {Server} :
            OwnTransport(q, c) = OwnTransport(r, c)
    BY <1>5, SlotsAreNotNull DEF OwnTransport
  <2>3. \A i \in TransferSlots : Live(q, i) => Live(r, i) /\ i # Server
    BY <1>5, SlotsAreNotNull DEF Live
  <2>4. Dropped(q.regs, r, Server, fd) /\ q.server = Null
    BY <1>4, <1>5
  <2>5. Server \in TransferSlots \cup {Server}
    OBVIOUS
  <2> QED
    BY <2>1, <2>2, <2>3, <2>4, <2>5, ReleasedRegistrations
<1>13. Good(q, Lost)
  BY <1>7, <1>9, <1>10, <1>11, <1>12, SMTT(40) DEF Good
<1> QED
  BY <1>4, <1>5, <1>6, <1>13 DEF q, v, u, fd, t

-----------------------------------------------------------------------------
(* The actions. *)

\* A handler that leaves the objects r keeps the invariant if r is sound.
LEMMA BecomesKeeps ==
    ASSUME NEW Lost, Inv(Lost), NEW r, Sound(r, Lost),
           NEW consumed \in SUBSET Fds,
           \A fd \in consumed : rxq[fd] # <<>>, NEW cleared,
           Becomes(r, consumed, cleared), Advance \/ UNCHANGED loop
    PROVE  After(Lost)
<1>1. res' = r /\ r \in Objects
  BY DEF Becomes, Sound, Good
<1>2. rxq' \in [Fds -> Seq(Datagrams)]
  <2>1. rxq \in [Fds -> Seq(Datagrams)]
    BY DEF Inv, TypeOK
  <2>2. \A fd \in consumed : Tail(rxq[fd]) \in Seq(Datagrams)
    BY <2>1
  <2>3. <<>> \in Seq(Datagrams)
    OBVIOUS
  <2>4. rxq' = [fd \in Fds |->
                  IF fd \notin OpenFds(r) THEN <<>>
                  ELSE IF fd \in consumed THEN Tail(rxq[fd]) ELSE rxq[fd]]
    BY DEF Becomes
  <2> QED
    BY <2>1, <2>2, <2>3, <2>4
<1>3. broken' \subseteq Fds
  BY DEF Becomes, Inv, TypeOK
<1>4. /\ phase' \in {"idle", "poll", "dispatch"}
      /\ next' \in Nat \ {0}
      /\ ready' \in Seq(SUBSET Events)
  BY DEF Advance, loop, Inv, TypeOK
<1>5. TypeOK'
  BY <1>1, <1>2, <1>3, <1>4 DEF TypeOK
<1>6. Sound(res', Lost)
  BY <1>1
<1> QED
  BY <1>5, <1>6 DEF After

\* One transfer has changed, and if it is live it waits or has failed.
LEMMA ResumableKept ==
    ASSUME NEW r, Resumable(r), NEW q, NEW s \in TransferSlots,
           \A i \in TransferSlots \ {s} : q.transfer[i] = r.transfer[i],
           Live(q, s) => q.transfer[s].state \in {"WAIT_ACK", "ERROR"}
    PROVE  Resumable(q)
BY DEF Resumable, Live

\* What an accepted request finds.
LEMMA AcceptsFacts ==
    ASSUME NEW Lost, Inv(Lost), NEW fd \in Fds, NEW s \in TransferSlots,
           Accepts(fd, s)
    PROVE  /\ rxq[fd] # <<>>
           /\ Head(rxq[fd]).from \in Peers
           /\ Head(rxq[fd]).arg \in Names
           /\ ~res.transfer[s].inUse
           /\ res \in Objects
           /\ res.transfer[s] = FreeTransfer
<1>1. rxq[fd] # <<>> /\ Head(rxq[fd]).kind = "RRQ" /\ ~res.transfer[s].inUse
  BY DEF Accepts, Receives, FirstFreeTransfer
<1>2. Head(rxq[fd]) \in Datagrams
  BY <1>1 DEF Inv, TypeOK
<1>3. Head(rxq[fd]).from \in Peers /\ Head(rxq[fd]).arg \in Names
  BY <1>1, <1>2 DEF Datagrams
<1> QED
  BY <1>1, <1>3, FreeIsClean DEF Inv, Sound, Good

\* A request refused at any step leaves the objects as they were.
LEMMA FailedRequestIsUndone ==
    ASSUME NEW Lost, Inv(Lost), NEW fd \in Fds, NEW s \in TransferSlots,
           \/ RequestGetsNoSocket(fd, s)
           \/ RequestGetsNoFileSlot(fd, s)
           \/ RequestedFileNotOpened(fd, s)
           \/ RequestNotRegistered(fd, s)
           \/ FirstDataFails(fd, s)
    PROVE  Becomes(res, {fd}, {}) /\ rxq[fd] # <<>>
<1> DEFINE p == Head(rxq[fd]).from
           n == Head(rxq[fd]).arg
<1>1. Accepts(fd, s)
  BY DEF RequestGetsNoSocket, RequestGetsNoFileSlot, RequestedFileNotOpened,
         RequestNotRegistered, FirstDataFails, HasFile
<1>2. /\ rxq[fd] # <<>> /\ p \in Peers /\ n \in Names
      /\ ~res.transfer[s].inUse
      /\ res \in Objects /\ res.transfer[s] = FreeTransfer
  BY <1>1, AcceptsFacts
<1>3. Good(res, Lost)
  BY DEF Inv, Sound
<1>4. /\ Started(fd, s) = Step1(res, s, p, n)
      /\ \A t, sfd : TransferTakesTransport(Started(fd, s), s, t, sfd)
                        = Step2(res, s, p, n, t, sfd)
      /\ \A t, sfd : WithSocket(fd, s, t, sfd) = Step2(res, s, p, n, t, sfd)
      /\ \A t, sfd, f : TransferTakesFile(WithSocket(fd, s, t, sfd), s, f)
                        = Step3(res, s, p, n, t, sfd, f)
      /\ \A t, sfd, f : WithFile(fd, s, t, sfd, f)
                        = Step4(res, s, p, n, t, sfd, f)
      /\ \A t, sfd, f : RegisterTransfer(WithFile(fd, s, t, sfd, f), s)
                        = Step5(res, s, p, n, t, sfd, f)
  BY DEF Started, WithSocket, WithFile, Step1, Step2, Step3, Step4, Step5
<1> HIDE DEF p, n
<1>5. \A t \in TransportSlots :
        FirstFreeTransport(res, t) => res.transport[t] = FreeTransport
  BY <1>3, FreeIsClean DEF FirstFreeTransport
<1>6. \A f \in FileSlots : FirstFreeFile(res, f) => res.file[f] = FreeFile
  BY <1>3, FreeIsClean DEF FirstFreeFile
<1>7. CASE RequestGetsNoSocket(fd, s)
  <2>1. CASE Becomes(CleanUp(Started(fd, s), s), {fd}, {})
    BY <1>2, <1>4, <2>1, StartUndone
  <2>2. CASE \E t \in TransportSlots :
                /\ FirstFreeTransport(res, t)
                /\ Becomes(CleanUp(TransferTakesTransport(
                               Started(fd, s), s, t, None), s), {fd}, {})
    <3>1. PICK t \in TransportSlots :
                /\ FirstFreeTransport(res, t)
                /\ Becomes(CleanUp(Step2(res, s, p, n, t, None), s), {fd}, {})
      BY <1>4, <2>2
    <3>2. None \in Fds \cup {None}
      OBVIOUS
    <3>3. CleanUp(Step2(res, s, p, n, t, None), s) = res
      BY <1>2, <1>5, <3>1, <3>2, ConnectUndone
    <3> QED
      BY <1>2, <3>1, <3>3
  <2> QED
    BY <1>7, <2>1, <2>2 DEF RequestGetsNoSocket
<1>8. CASE RequestGetsNoFileSlot(fd, s)
  <2>1. PICK t \in TransportSlots, sfd \in Fds :
            /\ HasSocket(t, sfd)
            /\ Becomes(CleanUp(Step2(res, s, p, n, t, sfd), s), {fd}, {})
    BY <1>4, <1>8 DEF RequestGetsNoFileSlot
  <2>2. sfd \in Fds \cup {None} /\ res.transport[t] = FreeTransport
    BY <1>5, <2>1 DEF HasSocket
  <2>3. CleanUp(Step2(res, s, p, n, t, sfd), s) = res
    BY <1>2, <2>2, ConnectUndone
  <2> QED
    BY <1>2, <2>1, <2>3
<1>9. ASSUME NEW t \in TransportSlots, NEW sfd \in Fds, NEW f \in FileSlots,
             HasSocket(t, sfd), FirstFreeFile(res, f)
      PROVE  /\ CleanUp(Step3(res, s, p, n, t, sfd, f), s) = res
             /\ CleanUp(Step4(res, s, p, n, t, sfd, f), s) = res
             /\ n \in DOMAIN FileBlocks =>
                    CleanUp(Step5(res, s, p, n, t, sfd, f), s) = res
  <2>1. /\ sfd \in Fds \cup {None} /\ res.transport[t] = FreeTransport
        /\ res.file[f] = FreeFile
        /\ ~res.transport[t].used /\ ~res.file[f].inUse
        /\ sfd \in Fds \ OpenFds(res)
    BY <1>5, <1>6, <1>9 DEF HasSocket, FirstFreeTransport, FirstFreeFile
  <2>2. n \in DOMAIN FileBlocks =>
            Granted(Step5(res, s, p, n, t, sfd, f), res, s, n, f, Lost)
    BY <1>2, <1>3, <2>1, RequestGood
  <2> QED
    BY <1>2, <2>1, <2>2, PrepareUndone DEF Granted
<1>10. CASE RequestedFileNotOpened(fd, s)
  <2>1. PICK t \in TransportSlots, sfd \in Fds, f \in FileSlots :
            /\ HasSocket(t, sfd) /\ FirstFreeFile(res, f)
            /\ Becomes(CleanUp(Step3(res, s, p, n, t, sfd, f), s), {fd}, {})
    BY <1>4, <1>10 DEF RequestedFileNotOpened
  <2> QED
    BY <1>2, <1>9, <2>1
<1>11. CASE RequestNotRegistered(fd, s)
  <2>1. PICK t \in TransportSlots, sfd \in Fds, f \in FileSlots :
            /\ HasSocket(t, sfd) /\ FirstFreeFile(res, f)
            /\ Becomes(CleanUp(Step4(res, s, p, n, t, sfd, f), s), {fd}, {})
    BY <1>4, <1>11 DEF RequestNotRegistered, HasFile
  <2> QED
    BY <1>2, <1>9, <2>1
<1>12. CASE FirstDataFails(fd, s)
  <2>1. PICK t \in TransportSlots, sfd \in Fds, f \in FileSlots :
            /\ HasSocket(t, sfd) /\ FirstFreeFile(res, f)
            /\ n \in DOMAIN FileBlocks
            /\ Becomes(CleanUp(Step5(res, s, p, n, t, sfd, f), s), {fd}, {})
    BY <1>4, <1>12 DEF FirstDataFails, HasFile, n
  <2> QED
    BY <1>2, <1>9, <2>1
<1> QED
  BY <1>7, <1>8, <1>10, <1>11, <1>12

\* A request that is served keeps the invariant.
LEMMA ServedKeeps ==
    ASSUME NEW Lost, Inv(Lost), NEW fd \in Fds, NEW s \in TransferSlots,
           RequestServed(fd, s)
    PROVE  /\ After(Lost)
           /\ Live(res', s)
           /\ res'.server = res.server
           /\ Len(res'.regs) = Len(res.regs) + 1
<1> DEFINE p == Head(rxq[fd]).from
           n == Head(rxq[fd]).arg
<1>1. PICK t \in TransportSlots, sfd \in Fds, f \in FileSlots :
        /\ HasFile(fd, s, t, sfd, f)
        /\ Becomes(SendNextData(Step5(res, s, p, n, t, sfd, f), s), {fd}, {})
  BY DEF RequestServed, Started, WithSocket, WithFile,
         Step1, Step2, Step3, Step4, Step5
<1>2. /\ Accepts(fd, s) /\ n \in DOMAIN FileBlocks
      /\ ~res.transport[t].used /\ ~res.file[f].inUse
      /\ sfd \in Fds \ OpenFds(res)
  BY <1>1 DEF HasFile, HasSocket, FirstFreeTransport, FirstFreeFile
<1>3. rxq[fd] # <<>> /\ p \in Peers /\ ~res.transfer[s].inUse
  BY <1>2, AcceptsFacts
<1> HIDE DEF p, n
<1> DEFINE q == Step5(res, s, p, n, t, sfd, f)
           o == SendNextData(q, s)
<1>4. Granted(q, res, s, n, f, Lost)
  BY <1>2, <1>3, RequestGood DEF Inv, Sound
<1> HIDE DEF q
<1>5. SentOn(o, q, s, Lost)
  BY <1>4, SendNextGood DEF Granted
<1> HIDE DEF o
<1>6. \A i \in TransferSlots \ {s} : o.transfer[i] = res.transfer[i]
  <2>1. \A i \in TransferSlots \ {s} : q.transfer[i] = res.transfer[i]
    BY <1>4 DEF Granted, Extends, Objects
  <2> QED
    BY <1>5, <2>1 DEF SentOn
<1>7. Sound(o, Lost)
  BY <1>5, <1>6, ResumableKept DEF Inv, Sound, SentOn
<1>8. /\ Becomes(o, {fd}, {}) /\ {fd} \in SUBSET Fds
      /\ \A i \in {fd} : rxq[i] # <<>>
  BY <1>1, <1>3 DEF o, q
<1>9. Live(res', s)
  BY <1>5, <1>8 DEF SentOn, Becomes
<1>10. res'.server = res.server /\ Len(res'.regs) = Len(res.regs) + 1
  BY <1>4, <1>5, <1>8 DEF Granted, Extends, SentOn, Becomes
<1> QED
  BY <1>7, <1>8, <1>9, <1>10, BecomesKeeps DEF RequestServed

\* The context of a handler that owns its descriptor is live.
LEMMA OwnerIsLive ==
    ASSUME NEW Lost, NEW r, Good(r, Lost), NEW s \in TransferSlots,
           NEW fd, Owns(r, s, fd)
    PROVE  Live(r, s)
BY SlotsAreNotNull, FreeIsClean, FreeFields DEF Owns, OwnTransport, Live

\* No transfer's registration has been forgotten: the live ones have theirs.
LEMMA LiveIsRegistered ==
    ASSUME NEW r, Good(r, {}), NEW s \in TransferSlots, Live(r, s)
    PROVE  Registered(r, s)
BY DEF Good, TableExact

LEMMA CleanUpSound ==
    ASSUME NEW Lost, NEW r, Good(r, Lost), NEW s \in TransferSlots, Live(r, s),
           Registered(r, s),
           \A i \in TransferSlots \ {s} : Live(r, i) =>
                r.transfer[i].state \in {"WAIT_ACK", "ERROR"}
    PROVE  Sound(CleanUp(r, s), Lost)
<1>1. Good(CleanUp(r, s), Lost) /\ CleanUp(r, s) = Cleaned(r, s)
  BY CleanUpGood
<1>2. Cleaned(r, s).transfer = [r.transfer EXCEPT ![s] = FreeTransfer]
  BY DEF Cleaned
<1>3. Resumable(CleanUp(r, s))
  BY <1>1, <1>2, FreeFields DEF Resumable, Live, Good, Objects
<1> QED
  BY <1>1, <1>3 DEF Sound

LEMMA AbortSound ==
    ASSUME NEW Lost, NEW r, Sound(r, Lost), NEW s \in TransferSlots, Live(r, s),
           Registered(r, s)
    PROVE  Sound(Abort(r, s), Lost) /\ Sound(CleanUp(Abort(r, s), s), Lost)
<1>1. /\ Good(Abort(r, s), Lost) /\ Live(Abort(r, s), s)
      /\ Abort(r, s).transfer[s].state = "ERROR"
      /\ \A i \in TransferSlots \ {s} :
            Abort(r, s).transfer[i] = r.transfer[i]
      /\ Registered(Abort(r, s), s)
  BY AbortGood DEF Sound, Registered
<1>2. Resumable(Abort(r, s))
  BY <1>1, ResumableKept DEF Sound
<1>3. Sound(CleanUp(Abort(r, s), s), Lost)
  BY <1>1, <1>2, CleanUpSound DEF Resumable
<1> QED
  BY <1>1, <1>2, <1>3 DEF Sound

\* The transfer whose handler runs is live and registered.
LEMMA CalledIsRegistered ==
    ASSUME NEW Lost, Inv(Lost), NEW fd \in Fds, NEW s \in TransferSlots,
           TransferHandler(s, fd)
    PROVE  Live(res, s) /\ Registered(res, s)
<1>1. Owns(res, s, fd) /\ \E ev : Called(s, fd, ev)
  BY DEF TransferHandler, TransferMarkedFailed, PacketOfAnotherPeer,
       TransferRejects, TransferCompletes, AckAdvances, NextDataFails,
       FromPeer, Receives, ReceiveFails
<1>2. next \in DOMAIN res.regs /\ res.regs[next].ctx = s
  BY <1>1 DEF Called, AtEntry, Inv, TypeOK, Objects
<1> QED
  BY <1>1, <1>2, OwnerIsLive DEF Inv, Sound, Registered

\* So does every return of a transfer's handler.
LEMMA TransferHandlerKeeps ==
    ASSUME NEW Lost, Inv(Lost), NEW fd \in Fds, NEW s \in TransferSlots,
           TransferHandler(s, fd)
    PROVE  After(Lost)
<1>1. Sound(res, Lost)
  BY DEF Inv
<1>2. Advance
  BY DEF TransferHandler, TransferMarkedFailed, PacketOfAnotherPeer,
         TransferRejects, TransferCompletes, AckAdvances, NextDataFails
<1>3. Live(res, s) /\ Registered(res, s)
  BY CalledIsRegistered
<1>4. /\ {fd} \in SUBSET Fds /\ {} \in SUBSET Fds
      /\ \A i \in {} : rxq[i] # <<>>
  OBVIOUS
<1>5. CASE TransferMarkedFailed(s, fd)
  <2>1. Sound(Abort(res, s), Lost)
    BY <1>1, <1>3, AbortSound
  <2>2. Becomes(Abort(res, s), {}, {}) \/ Becomes(Abort(res, s), {}, {fd})
    BY <1>5 DEF TransferMarkedFailed
  <2> QED
    BY <1>2, <1>4, <2>1, <2>2, BecomesKeeps
<1>6. CASE PacketOfAnotherPeer(s, fd)
  <2>1. Becomes(res, {fd}, {}) /\ \A i \in {fd} : rxq[i] # <<>>
    BY <1>6 DEF PacketOfAnotherPeer, Receives
  <2> QED
    BY <1>1, <1>2, <1>4, <2>1, BecomesKeeps
<1>7. CASE TransferRejects(s, fd) \/ NextDataFails(s, fd)
  <2>1. /\ Becomes(CleanUp(Abort(res, s), s), {fd}, {})
        /\ \A i \in {fd} : rxq[i] # <<>>
    BY <1>7 DEF TransferRejects, NextDataFails, FromPeer, Receives
  <2>2. Sound(CleanUp(Abort(res, s), s), Lost)
    BY <1>1, <1>3, AbortSound
  <2> QED
    BY <1>2, <1>4, <2>1, <2>2, BecomesKeeps
<1>8. CASE TransferCompletes(s, fd)
  <2>1. /\ Becomes(CleanUp(res, s), {fd}, {})
        /\ \A i \in {fd} : rxq[i] # <<>>
    BY <1>8 DEF TransferCompletes, FromPeer, Receives
  <2>2. Sound(CleanUp(res, s), Lost)
    BY <1>1, <1>3, CleanUpSound DEF Sound, Resumable
  <2> QED
    BY <1>2, <1>4, <2>1, <2>2, BecomesKeeps
<1>9. CASE AckAdvances(s, fd)
  <2> DEFINE o == SendNextData(res, s)
  <2>1. /\ Becomes(o, {fd}, {}) /\ \A i \in {fd} : rxq[i] # <<>>
    BY <1>9 DEF AckAdvances, FromPeer, Receives
  <2>2. SentOn(o, res, s, Lost)
    BY <1>1, <1>3, SendNextGood DEF Sound
  <2> HIDE DEF o
  <2>3. Sound(o, Lost)
    BY <1>1, <2>2, ResumableKept DEF Sound, SentOn
  <2> QED
    BY <1>2, <1>4, <2>1, <2>3, BecomesKeeps
<1> QED
  BY <1>5, <1>6, <1>7, <1>8, <1>9 DEF TransferHandler

LEMMA ServerHandlerKeeps ==
    ASSUME NEW Lost, Inv(Lost), NEW fd \in Fds, ServerHandler(fd)
    PROVE  After(Lost)
<1>1. Sound(res, Lost)
  BY DEF Inv
<1>2. /\ {fd} \in SUBSET Fds /\ {} \in SUBSET Fds
      /\ \A i \in {} : rxq[i] # <<>>
  OBVIOUS
<1>3. CASE ServerReceiveFails(fd)
  BY <1>1, <1>2, <1>3, BecomesKeeps DEF ServerReceiveFails
<1>4. CASE RequestRefused(fd)
  <2>1. /\ Becomes(res, {fd}, {}) /\ Advance
        /\ \A i \in {fd} : rxq[i] # <<>>
    BY <1>4 DEF RequestRefused, Receives
  <2> QED
    BY <1>1, <1>2, <2>1, BecomesKeeps
<1>5. ASSUME NEW s \in TransferSlots,
             \/ RequestGetsNoSocket(fd, s)
             \/ RequestGetsNoFileSlot(fd, s)
             \/ RequestedFileNotOpened(fd, s)
             \/ RequestNotRegistered(fd, s)
             \/ FirstDataFails(fd, s)
      PROVE  After(Lost)
  <2>1. Becomes(res, {fd}, {}) /\ \A i \in {fd} : rxq[i] # <<>>
    BY <1>5, FailedRequestIsUndone
  <2>2. Advance
    BY <1>5 DEF RequestGetsNoSocket, RequestGetsNoFileSlot,
           RequestedFileNotOpened, RequestNotRegistered, FirstDataFails
  <2> QED
    BY <1>1, <1>2, <2>1, <2>2, BecomesKeeps
<1> QED
  BY <1>3, <1>4, <1>5, ServedKeeps DEF ServerHandler

\* No step of the reactor starts or stops the server, or fills the table
\* beyond its size.
LEMMA ReactorKeepsRoom ==
    ASSUME NEW Lost, Inv(Lost), Reactor, Len(res.regs) <= MaxHandlers
    PROVE  res'.server = res.server /\ Len(res'.regs) <= MaxHandlers
<1>1. res.regs \in Seq(Registrations) /\ Sound(res, Lost)
  BY DEF Inv, Sound, Good, Objects
<1>2. CASE Poll \/ SkipIdle \/ EndPass \/ HandlerReturns
  BY <1>2 DEF Poll, SkipIdle, EndPass, HandlerReturns
<1>3. ASSUME NEW fd \in Fds, ServerHandler(fd)
      PROVE  res'.server = res.server /\ Len(res'.regs) <= MaxHandlers
  <2>1. CASE ServerReceiveFails(fd) \/ RequestRefused(fd)
    BY <2>1 DEF ServerReceiveFails, RequestRefused, Becomes
  <2>2. ASSUME NEW s \in TransferSlots,
               \/ RequestGetsNoSocket(fd, s)
               \/ RequestGetsNoFileSlot(fd, s)
               \/ RequestedFileNotOpened(fd, s)
               \/ RequestNotRegistered(fd, s)
               \/ FirstDataFails(fd, s)
        PROVE  res' = res
    BY <2>2, FailedRequestIsUndone DEF Becomes
  <2>3. ASSUME NEW s \in TransferSlots, RequestServed(fd, s)
        PROVE  res'.server = res.server /\ Len(res'.regs) <= MaxHandlers
    <3>1. Len(res.regs) < MaxHandlers
      BY <2>3 DEF RequestServed
    <3>2. res'.server = res.server /\ Len(res'.regs) = Len(res.regs) + 1
      BY <2>3, ServedKeeps
    <3> QED
      BY <1>1, <3>1, <3>2
  <2> QED
    BY <1>3, <2>1, <2>2, <2>3 DEF ServerHandler
<1>4. ASSUME NEW fd \in Fds, NEW s \in TransferSlots, TransferHandler(s, fd)
      PROVE  res'.server = res.server /\ Len(res'.regs) <= MaxHandlers
  <2>1. Live(res, s) /\ Registered(res, s)
    BY <1>4, CalledIsRegistered
  <2> DEFINE a == Abort(res, s)
  <2>2. /\ Good(a, Lost) /\ Live(a, s) /\ Registered(a, s)
        /\ a.server = res.server /\ a.regs = res.regs
    BY <1>1, <2>1, AbortGood DEF Sound, Registered
  <2> HIDE DEF a
  <2>3. ASSUME NEW r, Good(r, Lost), Live(r, s), Registered(r, s),
               r.server = res.server, r.regs = res.regs
        PROVE  /\ CleanUp(r, s).server = res.server
               /\ Len(CleanUp(r, s).regs) <= MaxHandlers
    <3>1. /\ CleanUp(r, s) = Cleaned(r, s)
          /\ Len(CleanUp(r, s).regs) = Len(r.regs) - 1
      BY <2>3, CleanUpGood
    <3> QED
      BY <1>1, <2>3, <3>1 DEF Cleaned
  <2>4. CASE TransferMarkedFailed(s, fd)
    BY <2>2, <2>4 DEF TransferMarkedFailed, Becomes, a
  <2>5. CASE PacketOfAnotherPeer(s, fd)
    BY <2>5 DEF PacketOfAnotherPeer, Becomes
  <2>6. CASE TransferRejects(s, fd) \/ NextDataFails(s, fd)
    <3>1. res' = CleanUp(a, s)
      BY <2>6 DEF TransferRejects, NextDataFails, Becomes, a
    <3> QED
      BY <2>2, <2>3, <3>1
  <2>7. CASE TransferCompletes(s, fd)
    <3>1. res' = CleanUp(res, s)
      BY <2>7 DEF TransferCompletes, Becomes
    <3> QED
      BY <1>1, <2>1, <2>3, <3>1 DEF Sound
  <2>8. CASE AckAdvances(s, fd)
    <3>1. res' = SendNextData(res, s)
      BY <2>8 DEF AckAdvances, Becomes
    <3>2. SentOn(res', res, s, Lost)
      BY <1>1, <2>1, <3>1, SendNextGood DEF Sound
    <3> QED
      BY <3>2 DEF SentOn
  <2> QED
    BY <1>4, <2>4, <2>5, <2>6, <2>7, <2>8 DEF TransferHandler
<1> QED
  BY <1>2, <1>3, <1>4 DEF Reactor

\* Starting and stopping the server.
LEMMA LifecycleKeeps ==
    ASSUME NEW Lost, Inv(Lost), ServerStart \/ ServerStop
    PROVE  After(Lost)
<1>1. Good(res, Lost) /\ Resumable(res) /\ {} \in SUBSET Fds
      /\ \A i \in {} : rxq[i] # <<>>
  BY DEF Inv, Sound
<1>2. CASE ServerStart
  <2>1. PICK t \in TransportSlots, fd \in Fds \ OpenFds(res) :
            /\ FirstFreeTransport(res, t)
            /\ Becomes(Register([TakeTransport(res, t, fd)
                                   EXCEPT !.server = t], fd, Server), {}, {})
    BY <1>2 DEF ServerStart
  <2> DEFINE q == Register([TakeTransport(res, t, fd) EXCEPT !.server = t],
                           fd, Server)
  <2>2. Good(q, Lost) /\ q.transfer = res.transfer
    BY <1>1, <1>2, <2>1, ServerStartGood DEF ServerStart, FirstFreeTransport
  <2>3. Becomes(q, {}, {}) /\ UNCHANGED loop
    BY <1>2, <2>1 DEF ServerStart
  <2> HIDE DEF q
  <2>4. Sound(q, Lost)
    BY <1>1, <2>2 DEF Sound, Resumable, Live
  <2> QED
    BY <1>1, <2>3, <2>4, BecomesKeeps
<1>3. CASE ServerStop
  <2> DEFINE fd == res.transport[res.server].fd
             q  == [ReleaseTransport(Unregister(res, fd), res.server)
                      EXCEPT !.server = Null]
  <2>1. Becomes(q, {}, {}) /\ UNCHANGED loop /\ res.server # Null
    BY <1>3 DEF ServerStop, StopServer
  <2>2. Good(q, Lost) /\ q.transfer = res.transfer
    BY <1>1, <2>1, ServerStopGood
  <2> HIDE DEF q
  <2>3. Sound(q, Lost)
    BY <1>1, <2>2, SMTT(30) DEF Sound, Resumable, Live
  <2> QED
    BY <1>1, <2>1, <2>3, BecomesKeeps
<1> QED
  BY <1>2, <1>3

\* Steps that leave the objects alone.
LEMMA ObjectsUnchangedKeeps ==
    ASSUME NEW Lost, Inv(Lost), UNCHANGED res, TypeOK'
    PROVE  After(Lost)
BY DEF Inv, After

LEMMA Initial ==
    ASSUME NEW Lost, Init
    PROVE  Inv(Lost)
<1>1. /\ FreeTransfer \in Transfers /\ FreeTransfer.inUse = FALSE
      /\ FreeFile \in OpenFiles /\ FreeFile.inUse = FALSE
      /\ FreeTransport \in Transports /\ FreeTransport.used = FALSE
      /\ FreeTransport.fd = None
  BY FreeFields
<1>2. /\ res.transfer = [s \in TransferSlots |-> FreeTransfer]
      /\ res.file = [f \in FileSlots |-> FreeFile]
      /\ res.transport = [t \in TransportSlots |-> FreeTransport]
      /\ res.regs = <<>> /\ res.server = Null
      /\ res = [transfer |-> res.transfer, file |-> res.file,
                transport |-> res.transport, regs |-> res.regs,
                server |-> res.server]
  BY DEF Init
<1>3. res \in Objects
  <2>1. <<>> \in Seq(Registrations)
    OBVIOUS
  <2> QED
    BY <1>1, <1>2, <2>1 DEF Objects
<1>4. TypeOK
  BY <1>3 DEF Init, TypeOK
<1>5. \A s \in TransferSlots : ~Live(res, s) /\ res.transfer[s] = FreeTransfer
  BY <1>1, <1>2 DEF Live
<1>6. WholeOrFree(res) /\ Resumable(res)
  BY <1>5 DEF WholeOrFree, Resumable, Live
<1>7. NothingShared(res)
  BY <1>1, <1>2, <1>5 DEF NothingShared
<1>8. NothingLeaks(res)
  BY <1>1, <1>2, <1>5 DEF NothingLeaks
<1>9. TableExact(res, Lost)
  BY <1>2, <1>5 DEF TableExact
<1> QED
  BY <1>3, <1>4, <1>6, <1>7, <1>8, <1>9 DEF Inv, Sound, Good

LEMMA StepKeeps ==
    ASSUME NEW Lost, Inv(Lost), [Next]_vars
    PROVE  After(Lost)
<1>1. TypeOK
  BY DEF Inv
<1>2. CASE UNCHANGED vars
  BY <1>1, <1>2, ObjectsUnchangedKeeps DEF vars, TypeOK
<1>3. CASE Poll
  <2>1. /\ ready' = [i \in DOMAIN res.regs |-> Revents(res.regs[i].fd)]
        /\ DOMAIN res.regs = 1 .. Len(res.regs) /\ Len(res.regs) \in Nat
    BY <1>1, <1>3 DEF Poll, TypeOK, Objects
  <2>2. \A fd : Revents(fd) \in SUBSET Events
    BY DEF Revents, Events
  <2>3. ready' \in Seq(SUBSET Events)
    BY <2>1, <2>2
  <2> QED
    BY <1>1, <1>3, <2>3, ObjectsUnchangedKeeps DEF Poll, TypeOK
<1>4. CASE SkipIdle \/ HandlerReturns
  BY <1>1, <1>4, ObjectsUnchangedKeeps
  DEF SkipIdle, HandlerReturns, Advance, TypeOK
<1>5. CASE EndPass
  <2>1. <<>> \in Seq(SUBSET Events)
    OBVIOUS
  <2> QED
    BY <1>1, <1>5, <2>1, ObjectsUnchangedKeeps DEF EndPass, TypeOK
<1>6. ASSUME NEW fd \in Fds, ServerHandler(fd)
      PROVE  After(Lost)
  BY <1>6, ServerHandlerKeeps
<1>7. ASSUME NEW fd \in Fds, NEW s \in TransferSlots, TransferHandler(s, fd)
      PROVE  After(Lost)
  BY <1>7, TransferHandlerKeeps
<1>8. CASE ServerStart \/ ServerStop
  BY <1>8, LifecycleKeeps
<1>9. CASE ReactorRun \/ PollFails
  BY <1>1, <1>9, ObjectsUnchangedKeeps DEF ReactorRun, PollFails, TypeOK
<1>10. ASSUME NEW fd \in Fds, SocketError(fd)
       PROVE  After(Lost)
  BY <1>1, <1>10, ObjectsUnchangedKeeps DEF SocketError, loop, TypeOK
<1>11. ASSUME NEW fd \in Fds, NEW d \in Offered(fd), Deliver(fd, d)
       PROVE  After(Lost)
  <2>1. d \in Datagrams
    BY DEF Offered
  <2>2. rxq' \in [Fds -> Seq(Datagrams)]
    BY <1>1, <1>11, <2>1 DEF Deliver, TypeOK
  <2> QED
    BY <1>1, <1>11, <2>2, ObjectsUnchangedKeeps DEF Deliver, loop, TypeOK
<1> QED
  BY <1>2, <1>3, <1>4, <1>5, <1>6, <1>7, <1>8, <1>9, <1>10, <1>11
  DEF Next, Reactor, Lifecycle, Environment

LEMMA AfterIsNext ==
    ASSUME NEW Lost, After(Lost)
    PROVE  Inv(Lost)'
BY ZenonT(30)
DEF After, Inv, Sound, Good, Resumable, WholeOrFree, NothingShared,
    NothingLeaks, TableExact, Registered, Owns, OwnTransport, Live

LEMMA Inductive == IInv /\ [Next]_vars => IInv'
<1>1. ASSUME IInv, [Next]_vars PROVE After({})
  BY <1>1, StepKeeps DEF IInv
<1>2. After({}) => IInv'
  BY AfterIsNext DEF IInv
<1> QED
  BY <1>1, <1>2
-----------------------------------------------------------------------------
\* The invariant the theorems below follow from.
LEMMA Invariance == Spec => []IInv
<1>1. Init => IInv
  BY Initial DEF IInv
<1> QED
  BY <1>1, Inductive, PTL DEF Spec

\* In every reachable state every object of the program has the type of its
\* C declaration: no handler writes outside the pools or breaks a link.
THEOREM TypeCorrect == Spec => []TypeOK
<1>1. IInv => TypeOK
  BY DEF IInv, Inv
<1> QED
  BY <1>1, Invariance, PTL

\* Between any two steps of the reactor every context, file, transport and
\* descriptor has exactly the owner that will release it, however a request
\* or a transfer ended: tftp_transfer_release and tftp_server_stop give back
\* all that was taken and nothing else.
THEOREM OwnershipHolds == Spec => []Ownership
<1>1. IInv => Ownership
  BY DEF IInv, Inv, Sound, Good, Ownership
<1> QED
  BY <1>1, Invariance, PTL

\* The registrations are those of the live contexts: whatever entries are
\* added and removed while reactor_run_once runs through them, no handler is
\* called for a context that has been released or given to someone else.
THEOREM DispatchIsSafe == Spec => []DispatchSafe
<1>1. IInv => DispatchSafe
  BY DEF IInv, Inv, Sound, Good, DispatchSafe,
     RegistrationsExact, TableExact, Registered
<1> QED
  BY <1>1, Invariance, PTL

\* A request that is not answered with data leaves nothing behind.
LEMMA RefusalUndone ==
    ASSUME NEW Lost, Inv(Lost), [Next]_vars, NEW fd \in Fds,
           Receives(Server, fd), \A m \in sent' : m.kind # "DATA"
    PROVE  res' = res
<1>1. phase = "dispatch" /\ res.regs[next].ctx = Server
  BY DEF Receives, Called, AtEntry
<1>2. CASE Poll \/ SkipIdle \/ EndPass \/ HandlerReturns
  BY <1>2 DEF Poll, SkipIdle, EndPass, HandlerReturns
<1>3. ASSUME NEW g \in Fds, ServerHandler(g)
      PROVE  res' = res
  <2>1. CASE ServerReceiveFails(g) \/ RequestRefused(g)
    BY <2>1 DEF ServerReceiveFails, RequestRefused, Becomes
  <2>2. ASSUME NEW s \in TransferSlots,
               \/ RequestGetsNoSocket(g, s)
               \/ RequestGetsNoFileSlot(g, s)
               \/ RequestedFileNotOpened(g, s)
               \/ RequestNotRegistered(g, s)
               \/ FirstDataFails(g, s)
        PROVE  res' = res
    <3>1. Becomes(res, {g}, {})
      BY <2>2, FailedRequestIsUndone
    <3> QED
      BY <3>1 DEF Becomes
  <2>3. ASSUME NEW s \in TransferSlots, RequestServed(g, s)
        PROVE  FALSE
    <3>1. \E r : sent' = {DataPacket(r, s)}
      BY <2>3 DEF RequestServed
    <3>2. \A r : DataPacket(r, s).kind = "DATA"
      BY DEF DataPacket
    <3> QED
      BY <3>1, <3>2
  <2> QED
    BY <1>3, <2>1, <2>2, <2>3 DEF ServerHandler
<1>4. ASSUME NEW g \in Fds, NEW s \in TransferSlots, TransferHandler(s, g)
      PROVE  FALSE
  <2>1. \E ev \in SUBSET Events : Called(s, g, ev)
    BY <1>4 DEF TransferHandler, TransferMarkedFailed, PacketOfAnotherPeer,
       TransferRejects, TransferCompletes, AckAdvances, NextDataFails,
       FromPeer, Receives, ReceiveFails, Events
  <2>2. res.regs[next].ctx = s
    BY <2>1 DEF Called
  <2> QED
    BY <1>1, <2>2, SlotsAreNotNull
<1>5. CASE Lifecycle
  BY <1>1, <1>5 DEF Lifecycle, ServerStart, ServerStop, ReactorRun, PollFails
<1>6. CASE Environment
  BY <1>6 DEF Environment, SocketError, Deliver
<1> QED
  BY <1>2, <1>3, <1>4, <1>5, <1>6 DEF Next, Reactor, vars

\* Whatever step of a request fails (the transport pool, socket, the file
\* pool, fopen, the registration, the first read or send), the pools and the
\* registrations, in their order, are those from before the request.
THEOREM RefusalsUndone == Spec => RefusalLeavesNoTrace
<1> DEFINE A == /\ \E fd \in Fds : Receives(Server, fd)
                /\ \A m \in sent' : m.kind # "DATA"
                => res' = res
<1>1. IInv /\ [Next]_vars => [A]_vars
  BY RefusalUndone DEF IInv
<1> QED
  BY <1>1, Invariance, PTL DEF Spec, RefusalLeavesNoTrace
=============================================================================

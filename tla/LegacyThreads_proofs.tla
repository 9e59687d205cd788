------------------------ MODULE LegacyThreads_proofs ------------------------
(***************************************************************************)
(* What the legacy programs keep to, for any number of clients and threads, *)
(* files of any length and bytes of any width.                             *)
(*                                                                         *)
(* First, the server drops nothing it has acknowledged, however the threads *)
(* share the socket.  An acknowledgement on its way stands for a block on a *)
(* disk, in a place that no thread writes to again.  Most steps do not     *)
(* touch this: they are Harmless, and one lemma does for all of them.      *)
(*                                                                         *)
(* Then, a client that is alone is served intact.  Whatever is on its way  *)
(* is then its request, and nothing else has happened; or of the one thread *)
(* that works for it, and thread and client are at most one block apart.   *)
(***************************************************************************)
EXTENDS LegacyThreads, TLAPS

Uploader(c) == client[c].op = "upload"
Writer(w)   == worker[w].op = "WRQ"

\* The positions of the file of d that nobody will write to again, or truncate:
\* no request to write it is on its way, and its thread, if any, is past them.
Settled == [d \in Clients |-> {i \in Positions :
    /\ client[d].status # "idle"
    /\ \A p \in net : p.kind = "WRQ" => p.arg # d
    /\ \A w \in Workers : Writer(w) /\ worker[w].name = d =>
        worker[w].state = "serves" /\ i < worker[w].block}]

\* The blocks at position i of some file, for good.
Kept == [i \in Positions |->
    {disk[d][i] : d \in {d \in Clients : i \in Settled[d]}}]

Shape ==
    /\ DOMAIN worker = Workers
    /\ \A w \in Workers : DOMAIN worker[w] =
        {"state", "op", "peer", "name", "block", "pos", "retries"}
    /\ DOMAIN client = Clients
    /\ \A c \in Clients :
        /\ DOMAIN client[c] = {"op", "status", "name", "block", "file"}
        /\ client[c].status = "idle" <=> client[c].op = "none"
        /\ client[c].block \in Nat
        /\ client[c].status = "idle" => client[c].block = 0
    /\ DOMAIN disk = Clients
    /\ \A d \in Clients : DOMAIN disk[d] = Positions

\* A client asks once to write its file.
RequestsOnce ==
    /\ \A p \in net : p.kind = "WRQ" =>
        /\ p.arg \in Clients /\ p = Request(p.arg, "WRQ", p.arg)
        /\ client[p.arg].status # "idle"
    /\ \A p \in net : p.to = Server => p.from \in Clients

\* So one thread at most writes it, once its request has arrived.
OneWriter ==
    /\ \A w \in Workers :
        /\ worker[w].op = "RRQ" => worker[w].peer \in Clients
        /\ Writer(w) =>
            /\ worker[w].state \in {"created", "serves"}
            /\ worker[w].state = "serves" => worker[w].block \in Nat \ {0}
            /\ worker[w].name \in Clients /\ worker[w].peer \in Clients
            /\ client[worker[w].name].status # "idle"
            /\ \A p \in net : p.kind = "WRQ" => p.arg # worker[w].name
    /\ \A v, w \in Workers :
        Writer(v) /\ Writer(w) /\ worker[v].name = worker[w].name => v = w

\* A block on its way to the server is one that its client has reached.
IsBlockOf(p, c, j) ==
    p.from = c /\ p.arg = OnWire(j) /\ p.chunk = Chunk(c, j)
BlocksReached ==
    \A p \in net : p.kind = "DATA" /\ p.to = Server =>
        \E c \in Clients : Uploader(c) /\
            \E j \in Positions : j <= client[c].block /\ IsBlockOf(p, c, j)

\* An acknowledgement on its way to a client is of block 0, or of a position
\* where a block that the client has reached is kept.
AcksKept ==
    \A p \in net : p.kind = "ACK" /\ p.to \in Clients =>
        \E m \in Nat :
            /\ p.arg = OnWire(m)
            /\ m # 0 =>
                /\ m \in Positions
                /\ \E j \in Nat : /\ m <= j /\ j <= client[p.to].block
                                  /\ Chunk(p.to, j) \in Kept[m]

BlocksKept ==
    \A c \in Clients : Uploader(c) =>
        \A i \in 1..(client[c].block - 1) :
            i \in Positions /\ Chunk(c, i) \in Kept[i]

Core ==
    /\ Shape /\ RequestsOnce /\ OneWriter
    /\ BlocksReached /\ AcksKept /\ BlocksKept

IInv == copies \in Nat /\ (copies = 0 => Core)
-----------------------------------------------------------------------------
(* Numbers. *)

LEMMA TimesKeepsOrder ==
    ASSUME NEW a \in Int, NEW b \in Int, a <= b, NEW k \in Nat
    PROVE  a * k <= b * k
<1>1. (b - a) * k >= 0
  BY Z3
<1>2. (b - a) * k = (b * k) - (a * k)
  BY Z3
<1> QED
  BY <1>1, <1>2

\* A block number is never read back greater than it was.
LEMMA DecodeAtMost ==
    ASSUME NEW j \in Nat
    PROVE  Decode(OnWire(j)) \in Int /\ Decode(OnWire(j)) <= j
<1> DEFINE n == ByteMod * ByteMod
           v == OnWire(j)
           a == v % ByteMod
           b == v \div ByteMod
           low  == SignedChar(a)
           high == SignedChar(b)
<1>1. ByteMod \in Nat \ {0}
  BY ByteHasValues
<1>2. n \in Nat \ {0}
  BY <1>1, Z3
<1>3. v \in Nat /\ v <= j
  <2> HIDE DEF n
  <2>1. v = j % n
    BY DEF OnWire, n
  <2>2. j % n \in 0..(n - 1) /\ j = (n * (j \div n)) + (j % n) /\ j \div n \in Nat
    BY <1>2
  <2>3. n * (j \div n) >= 0
    BY <1>2, <2>2, Z3
  <2> QED
    BY <1>2, <2>1, <2>2, <2>3
<1> HIDE DEF v
<1>4. a \in Nat /\ b \in Nat /\ v = (b * ByteMod) + a
  BY <1>1, <1>3
<1> HIDE DEF a, b
<1>5. low \in Int /\ low <= a /\ high \in Int /\ high <= b
  BY <1>1, <1>4 DEF SignedChar
<1>6. high * ByteMod <= b * ByteMod
  BY <1>1, <1>4, <1>5, TimesKeepsOrder
<1>7. Decode(v) = IF low < 0 THEN low ELSE (high * ByteMod) + low
  BY DEF Decode, a, b
<1> HIDE DEF low, high
<1>8. high * ByteMod \in Int /\ b * ByteMod \in Int
  BY <1>1, <1>4, <1>5, Z3
<1> QED
  BY <1>3, <1>4, <1>5, <1>6, <1>7, <1>8 DEF v

LEMMA NumberOfZero == OnWire(0) = 0 /\ Decode(0) = 0
<1>1. ByteMod \in Nat \ {0}
  BY ByteHasValues
<1>2. ByteMod * ByteMod \in Nat \ {0}
  BY <1>1, Z3
<1>3. OnWire(0) = 0
  BY <1>2 DEF OnWire
<1>4. 0 % ByteMod = 0 /\ 0 \div ByteMod = 0 /\ SignedChar(0) = 0
  BY <1>1 DEF SignedChar
<1>5. 0 * ByteMod = 0
  BY <1>1, Z3
<1> QED
  BY <1>3, <1>4, <1>5 DEF Decode
-----------------------------------------------------------------------------
(* Steps that write nothing, or only where nothing is settled. *)

SettledStay == \A d \in Clients : Settled[d] \subseteq Settled'[d]
\* What is settled is not written.
WritesElsewhere ==
    \A d \in Clients : \A i \in Settled[d] : disk'[d][i] = disk[d][i]

LEMMA KeptStay ==
    ASSUME SettledStay, WritesElsewhere
    PROVE  \A i \in Positions : Kept[i] \subseteq Kept'[i]
<1> SUFFICES ASSUME NEW i \in Positions, NEW k \in Kept[i]
             PROVE  k \in Kept'[i]
  OBVIOUS
<1>1. PICK d \in Clients : i \in Settled[d] /\ k = disk[d][i]
  BY DEF Kept
<1>2. i \in Settled'[d] /\ k = disk'[d][i]
  BY <1>1 DEF SettledStay, WritesElsewhere
<1> QED
  BY <1>2 DEF Kept

\* No client forgets what it does, or how far it is.
ClientsGoOn ==
    \A c \in Clients :
        /\ client[c].status # "idle" => client'[c].status # "idle"
        /\ Uploader(c) => client'[c].op = "upload"
        /\ client'[c].block \in Nat /\ client[c].block <= client'[c].block

\* After the step, the acknowledgement is of a kept block.
AckKeptAfter(p) ==
    \E m \in Nat :
        /\ p.arg = OnWire(m)
        /\ m # 0 =>
            /\ m \in Positions
            /\ \E j \in Nat : /\ m <= j /\ j <= client'[p.to].block
                              /\ Chunk(p.to, j) \in Kept'[m]

\* An acknowledgement stays one of a kept block, however others go on.
LEMMA AcksStay ==
    ASSUME AcksKept, ClientsGoOn, Shape,
           \A i \in Positions : Kept[i] \subseteq Kept'[i],
           \A p \in net' : p.kind = "ACK" /\ p.to \in Clients =>
               p \in net \/ AckKeptAfter(p)
    PROVE  AcksKept'
<1> SUFFICES ASSUME NEW p \in net, p.kind = "ACK", p.to \in Clients
             PROVE  AckKeptAfter(p)
  BY DEF AcksKept, AckKeptAfter
<1> USE DEF AckKeptAfter
<1>1. PICK m \in Nat :
        /\ p.arg = OnWire(m)
        /\ m # 0 =>
            /\ m \in Positions
            /\ \E j \in Nat : /\ m <= j /\ j <= client[p.to].block
                              /\ Chunk(p.to, j) \in Kept[m]
  BY DEF AcksKept
<1>2. CASE m = 0
  BY <1>1, <1>2
<1>3. CASE m # 0
  <2>1. PICK j \in Nat : /\ m <= j /\ j <= client[p.to].block
                         /\ Chunk(p.to, j) \in Kept[m]
    BY <1>1, <1>3
  <2>2. j <= client'[p.to].block
    BY <2>1 DEF ClientsGoOn, Shape
  <2> QED
    BY <1>1, <1>3, <2>1, <2>2
<1> QED
  BY <1>2, <1>3

\* After the step, the block is one that its client has reached.
ReachedAfter(p) ==
    \E c \in Clients : client'[c].op = "upload" /\
        \E j \in Positions : j <= client'[c].block /\ IsBlockOf(p, c, j)

\* Blocks on their way stay ones that were reached.
LEMMA BlocksStay ==
    ASSUME BlocksReached, ClientsGoOn, Shape,
           \A p \in net' : p.kind = "DATA" /\ p.to = Server =>
               p \in net \/ ReachedAfter(p)
    PROVE  BlocksReached'
<1> SUFFICES ASSUME NEW p \in net, p.kind = "DATA", p.to = Server
             PROVE  ReachedAfter(p)
  BY DEF BlocksReached, Uploader, ReachedAfter
<1> USE DEF ReachedAfter
<1>1. PICK c \in Clients : Uploader(c) /\
        \E j \in Positions : j <= client[c].block /\ IsBlockOf(p, c, j)
  BY DEF BlocksReached
<1>2. PICK j \in Positions : j <= client[c].block /\ IsBlockOf(p, c, j)
  BY <1>1
<1>3. client'[c].op = "upload" /\ j <= client'[c].block
  BY <1>1, <1>2, SizesAreNatural DEF ClientsGoOn, Shape, Positions, Last
<1> QED
  BY <1>2, <1>3
-----------------------------------------------------------------------------
(* Harmless steps: nothing is written, no client uploads more, no thread    *)
(* becomes a writer, and no packet is sent that this proof is about.        *)

\* As it was, but for its retries; or no writer (any more).
WorkerHarmless(w) ==
    \/ worker'[w] = worker[w]
    \/ /\ worker[w].op = "WRQ" /\ worker'[w].op = "WRQ"
       /\ worker'[w].state = worker[w].state /\ worker'[w].name = worker[w].name
       /\ worker'[w].block = worker[w].block /\ worker'[w].peer = worker[w].peer
    \/ /\ worker'[w].op # "WRQ"
       /\ worker'[w].op = "RRQ" => worker'[w].peer \in Clients

PacketHarmless(p) ==
    /\ p.kind # "WRQ"
    /\ p.to = Server => p.from \in Clients /\ p.kind # "DATA"
    /\ p.to \in Clients => p.kind # "ACK"

Harmless ==
    /\ disk' = disk /\ Shape' /\ ClientsGoOn
    /\ \A c \in Clients : client'[c].op = "upload" =>
        Uploader(c) /\ client'[c].block = client[c].block
    /\ \A w \in Workers : WorkerHarmless(w)
    /\ \A p \in net' : p \in net \/ PacketHarmless(p)

LEMMA HarmlessKeeps ==
    ASSUME Core, Harmless
    PROVE  Core'
<1>1. RequestsOnce'
  BY DEF Core, Harmless, PacketHarmless, RequestsOnce, ClientsGoOn
<1>2. ASSUME NEW w \in Workers, Writer(w)'
      PROVE  /\ Writer(w)
             /\ worker'[w].state = worker[w].state
             /\ worker'[w].name = worker[w].name
             /\ worker'[w].block = worker[w].block
             /\ worker'[w].peer = worker[w].peer
  BY <1>2 DEF Harmless, WorkerHarmless, Writer
<1>3. OneWriter'
  <2>1. ASSUME NEW w \in Workers, Writer(w)'
        PROVE  /\ worker'[w].state \in {"created", "serves"}
               /\ worker'[w].state = "serves" => worker'[w].block \in Nat \ {0}
               /\ worker'[w].name \in Clients /\ worker'[w].peer \in Clients
               /\ client'[worker'[w].name].status # "idle"
               /\ \A p \in net' : p.kind = "WRQ" => p.arg # worker'[w].name
    BY <1>2, <2>1 DEF Core, OneWriter, Harmless, PacketHarmless, ClientsGoOn
  <2>2. ASSUME NEW w \in Workers, worker'[w].op = "RRQ"
        PROVE  worker'[w].peer \in Clients
    BY <2>2 DEF Core, OneWriter, Harmless, WorkerHarmless
  <2>3. ASSUME NEW v \in Workers, NEW w \in Workers, Writer(v)', Writer(w)',
               worker'[v].name = worker'[w].name
        PROVE  v = w
    BY <1>2, <2>3 DEF Core, OneWriter
  <2> QED
    BY <2>1, <2>2, <2>3 DEF OneWriter
<1>4. SettledStay
  <2> SUFFICES ASSUME NEW d \in Clients, NEW i \in Settled[d]
               PROVE  i \in Settled'[d]
    BY DEF SettledStay
  <2>1. /\ i \in Positions
        /\ client[d].status # "idle"
        /\ \A p \in net : p.kind = "WRQ" => p.arg # d
        /\ \A w \in Workers : Writer(w) /\ worker[w].name = d =>
            worker[w].state = "serves" /\ i < worker[w].block
    BY DEF Settled
  <2>2. \A p \in net' : p.kind = "WRQ" => p.arg # d
    BY <2>1 DEF Harmless, PacketHarmless
  <2>3. \A w \in Workers : Writer(w)' /\ worker'[w].name = d =>
            worker'[w].state = "serves" /\ i < worker'[w].block
    BY <1>2, <2>1
  <2>4. client'[d].status # "idle"
    BY <2>1 DEF Harmless, ClientsGoOn
  <2> QED
    BY <2>1, <2>2, <2>3, <2>4 DEF Settled
<1>5. \A i \in Positions : Kept[i] \subseteq Kept'[i]
  <2>1. WritesElsewhere
    BY DEF WritesElsewhere, Harmless
  <2> QED
    BY <1>4, <2>1, KeptStay
<1>6. BlocksReached'
  BY BlocksStay DEF Core, Harmless, PacketHarmless
<1>7. AcksKept'
  BY <1>5, AcksStay DEF Core, Harmless, PacketHarmless
<1>8. BlocksKept'
  BY <1>5 DEF Core, Harmless, BlocksKept, Uploader
<1> QED
  BY <1>1, <1>3, <1>6, <1>7, <1>8 DEF Core, Harmless

WorkerFields == {"state", "op", "peer", "name", "block", "pos", "retries"}

LEMMA OneWorkerMoves ==
    ASSUME Core, UNCHANGED <<client, disk>>,
           NEW w \in Workers, NEW r, DOMAIN r = WorkerFields,
           worker' = [worker EXCEPT ![w] = r],
           WorkerHarmless(w),
           \A p \in net' : p \in net \/ PacketHarmless(p)
    PROVE  Core'
<1>1. Shape'
  BY DEF Core, Shape, WorkerFields
<1>2. ClientsGoOn
  BY DEF Core, Shape, ClientsGoOn, Uploader
<1>3. \A v \in Workers : WorkerHarmless(v)
  BY DEF Core, Shape, WorkerHarmless
<1> QED
  BY <1>1, <1>2, <1>3, HarmlessKeeps DEF Harmless, Uploader

LEMMA OnlyPackets ==
    ASSUME Core, UNCHANGED <<worker, client, disk>>,
           \A p \in net' : p \in net \/ PacketHarmless(p)
    PROVE  Core'
<1>1. Shape' /\ ClientsGoOn
  BY DEF Core, Shape, ClientsGoOn, Uploader
<1> QED
  BY <1>1, HarmlessKeeps DEF Harmless, Uploader, WorkerHarmless

LEMMA MainKeeps ==
    ASSUME Core, NEW p \in net, p.to = Server, MainStarts(p) \/ MainDrops(p)
    PROVE  Core' \/ (MainStarts(p) /\ p.kind = "WRQ")
<1>1. CASE MainDrops(p)
  BY <1>1, OnlyPackets DEF MainDrops, Receives
<1>2. CASE MainStarts(p) /\ p.kind = "RRQ"
  <2>1. PICK w \in Workers : worker' = [worker EXCEPT ![w] =
               [Idle EXCEPT !.state = "created", !.op = p.kind,
                            !.peer = p.from, !.name = p.arg]]
    BY <1>2 DEF MainStarts
  <2> DEFINE r == [Idle EXCEPT !.state = "created", !.op = p.kind,
                               !.peer = p.from, !.name = p.arg]
  <2>2. DOMAIN r = WorkerFields /\ r.op = "RRQ" /\ r.peer = p.from
    BY <1>2 DEF Idle, WorkerFields
  <2>3. p.from \in Clients
    BY DEF Core, RequestsOnce
  <2>4. worker'[w] = r
    BY <2>1 DEF Core, Shape
  <2>5. WorkerHarmless(w)
    <3> HIDE DEF r
    <3> QED
      BY <2>2, <2>3, <2>4 DEF WorkerHarmless
  <2>6. UNCHANGED <<client, disk>> /\ net' = (net \ {p})
    BY <1>2 DEF MainStarts, Receives
  <2> HIDE DEF r
  <2>7. worker' = [worker EXCEPT ![w] = r]
    BY <2>1 DEF r
  <2> QED
    BY <2>2, <2>5, <2>6, <2>7, OneWorkerMoves
<1> QED
  BY <1>1, <1>2 DEF MainStarts

\* The threads: all but the two steps that write.
LEMMA ReadKeeps ==
    ASSUME Core, NEW w \in Workers,
           \/ ReadStarts(w) \/ ReadTimesOut(w)
           \/ \E p \in net : p.to = Server /\ ReadReceives(w, p)
    PROVE  Core'
<1> USE ServerIsNoClient DEF Server
<1>1. worker[w].op = "RRQ" /\ worker[w].peer \in Clients
  BY DEF ReadStarts, ReadTimesOut, ReadReceives, In, Core, OneWriter
<1>2. DOMAIN worker[w] = WorkerFields /\ DOMAIN Idle = WorkerFields
      /\ Idle.op = "none"
  BY DEF Core, Shape, WorkerFields, Idle
<1>3. UNCHANGED <<client, disk>>
  BY DEF ReadStarts, ReadTimesOut, ReadReceives
<1>4. ASSUME NEW r, Become(w, r), DOMAIN r = WorkerFields,
             r.op = "none" \/ (r.op = "RRQ" /\ r.peer \in Clients),
             \A p \in net' : p \in net \/ PacketHarmless(p)
      PROVE  Core'
  <2>1. worker' = [worker EXCEPT ![w] = r] /\ worker'[w] = r
    BY <1>4 DEF Become, Core, Shape
  <2>2. WorkerHarmless(w)
    BY <1>4, <2>1 DEF WorkerHarmless
  <2> QED
    BY <1>3, <1>4, <2>1, <2>2, OneWorkerMoves
<1>5. ASSUME NEW c \in Clients, NEW block, NEW chunk, NEW try
      PROVE  PacketHarmless(Data(c, Server, block, chunk, try))
             /\ PacketHarmless(Error(c))
  BY DEF PacketHarmless, Data, Error, Packet
<1>6. CASE ReadStarts(w)
  <2>1. CASE worker[w].name \in Stored
    <3> DEFINE r == [worker[w] EXCEPT !.state = "serves", !.block = 1, !.pos = 1]
    <3>1. DOMAIN r = WorkerFields /\ r.op = "RRQ" /\ r.peer \in Clients
      BY <1>1, <1>2, Zenon DEF WorkerFields
    <3>2. Sends(w, r)
      BY <1>6, <2>1 DEF ReadStarts
    <3> HIDE DEF r
    <3> QED
      BY <1>4, <1>5, <3>1, <3>2 DEF Sends
  <2>2. CASE worker[w].name \notin Stored
    BY <1>1, <1>2, <1>4, <1>5, <1>6, <2>2 DEF ReadStarts
  <2> QED
    BY <2>1, <2>2
<1>7. CASE ReadTimesOut(w)
  <2>1. CASE worker[w].retries < MaxRetries
    <3> DEFINE r == [worker[w] EXCEPT !.retries = @ + 1]
    <3>1. DOMAIN r = WorkerFields /\ r.op = "RRQ" /\ r.peer \in Clients
      BY <1>1, <1>2
    <3>2. Sends(w, r)
      BY <1>7, <2>1 DEF ReadTimesOut
    <3> HIDE DEF r
    <3> QED
      BY <1>4, <1>5, <3>1, <3>2 DEF Sends
  <2>2. CASE ~(worker[w].retries < MaxRetries)
    BY <1>2, <1>4, <1>7, <2>2 DEF ReadTimesOut
  <2> QED
    BY <2>1, <2>2
<1>8. ASSUME NEW p \in net, p.to = Server, ReadReceives(w, p)
      PROVE  Core'
  <2>1. CASE worker[w].pos = Last
    BY <1>2, <1>4, <1>8, <2>1 DEF ReadReceives, Receives
  <2>2. CASE worker[w].pos # Last
    <3> DEFINE r == [worker[w] EXCEPT
                    !.peer = p.from, !.pos = @ + 1, !.retries = 0,
                    !.block = IF Acknowledged(w, p) THEN @ + 1 ELSE @]
    <3>1. p.from \in Clients
      BY <1>8 DEF Core, RequestsOnce
    <3>2. DOMAIN r = WorkerFields /\ r.op = "RRQ" /\ r.peer \in Clients
      BY <1>1, <1>2, <3>1 DEF WorkerFields
    <3>3. /\ Become(w, r)
          /\ Receives(p, {Data(r.peer, Server, r.block, Chunk(r.name, r.pos), 0)})
      BY <1>8, <2>2 DEF ReadReceives
    <3> HIDE DEF r
    <3> QED
      BY <1>4, <1>5, <3>2, <3>3 DEF Receives
  <2> QED
    BY <2>1, <2>2
<1> QED
  BY <1>6, <1>7, <1>8

LEMMA WriteWaitKeeps ==
    ASSUME Core, NEW w \in Workers,
           \/ WriteRefused(w) \/ WriteTimesOut(w)
           \/ \E p \in net : p.to = Server /\ WriteIgnores(w, p)
    PROVE  Core'
<1> USE ServerIsNoClient DEF Server
<1>1. /\ worker[w].op = "WRQ" /\ worker[w].peer \in Clients
      /\ UNCHANGED <<client, disk>>
  BY DEF WriteRefused, WriteTimesOut, WriteIgnores, In, Core, OneWriter, Writer
<1>2. DOMAIN worker[w] = WorkerFields /\ DOMAIN Idle = WorkerFields
      /\ Idle.op = "none"
  BY DEF Core, Shape, WorkerFields, Idle
<1>3. \A p \in net' : p \in net \/ PacketHarmless(p)
  BY <1>1 DEF WriteRefused, WriteTimesOut, WriteIgnores, Receives, PacketHarmless,
              Error, Packet
<1>4. ASSUME Become(w, Idle)
      PROVE  Core'
  <2>1. worker' = [worker EXCEPT ![w] = Idle] /\ worker'[w] = Idle
    BY <1>4 DEF Become, Core, Shape
  <2>2. WorkerHarmless(w)
    BY <1>2, <2>1 DEF WorkerHarmless
  <2> QED
    BY <1>1, <1>2, <1>3, <2>1, <2>2, OneWorkerMoves
<1>5. ASSUME NEW n, Become(w, [worker[w] EXCEPT !.retries = n])
      PROVE  Core'
  <2> DEFINE r == [worker[w] EXCEPT !.retries = n]
  <2>1. worker' = [worker EXCEPT ![w] = r]
    BY <1>5 DEF Become
  <2>2. /\ DOMAIN r = WorkerFields
        /\ r.op = "WRQ" /\ r.state = worker[w].state /\ r.name = worker[w].name
        /\ r.block = worker[w].block /\ r.peer = worker[w].peer
    BY <1>1, <1>2 DEF WorkerFields
  <2> HIDE DEF r
  <2>3. worker'[w] = r
    BY <2>1 DEF Core, Shape
  <2>4. WorkerHarmless(w)
    BY <1>1, <2>2, <2>3 DEF WorkerHarmless
  <2> QED
    BY <1>1, <1>3, <2>1, <2>2, <2>4, OneWorkerMoves
<1>6. CASE WriteRefused(w)
  BY <1>4, <1>6 DEF WriteRefused
<1>7. CASE WriteTimesOut(w)
  <2>1. CASE worker[w].retries < MaxRetries
    <3>1. Become(w, [worker[w] EXCEPT !.retries = worker[w].retries + 1])
      BY <1>7, <2>1, Zenon DEF WriteTimesOut
    <3> QED
      BY <1>5, <3>1
  <2>2. CASE ~(worker[w].retries < MaxRetries)
    BY <1>4, <1>7, <2>2 DEF WriteTimesOut
  <2> QED
    BY <2>1, <2>2
<1>8. ASSUME NEW p \in net, WriteIgnores(w, p)
      PROVE  Core'
  <2>1. Become(w, [worker[w] EXCEPT !.retries = 0])
    BY <1>8 DEF WriteIgnores
  <2> QED
    BY <1>5, <2>1
<1> QED
  BY <1>6, <1>7, <1>8

\* The client, except where it uploads.
ClientFields == {"op", "status", "name", "block", "file"}

LEMMA OneClientMoves ==
    ASSUME Core, UNCHANGED <<worker, disk>>,
           NEW c \in Clients, NEW r, DOMAIN r = ClientFields,
           client' = [client EXCEPT ![c] = r],
           r.op \in {"download", "upload"}, r.status # "idle",
           r.block \in Nat, client[c].block <= r.block,
           r.op = "upload" <=> Uploader(c),
           r.op = "upload" => r.block = client[c].block,
           \A p \in net' : p \in net \/ PacketHarmless(p)
    PROVE  Core'
<1>1. \A d \in Clients : client'[d] = IF d = c THEN r ELSE client[d]
  BY DEF Core, Shape
<1>2. Shape'
  BY <1>1 DEF Core, Shape, ClientFields
<1>3. ClientsGoOn
  BY <1>1 DEF Core, Shape, ClientsGoOn, Uploader
<1>4. \A d \in Clients : client'[d].op = "upload" =>
        Uploader(d) /\ client'[d].block = client[d].block
  BY <1>1 DEF Uploader
<1> QED
  BY <1>2, <1>3, <1>4, HarmlessKeeps DEF Harmless, WorkerHarmless

LEMMA DownloadKeeps ==
    ASSUME Core, NEW c \in Clients,
           \/ Downloads(c)
           \/ \E p \in net : \/ DownloadTakes(c, p) \/ DownloadIgnores(c, p)
                             \/ DownloadFails(c, p) \/ UploadEnds(c, p)
    PROVE  Core'
<1> USE ServerIsNoClient DEF Server
<1>1. /\ DOMAIN client[c] = ClientFields
      /\ client[c].status = "idle" <=> client[c].op = "none"
      /\ client[c].block \in Nat
      /\ client[c].status = "idle" => client[c].block = 0
  BY DEF Core, Shape, ClientFields
<1>2. CASE Downloads(c)
  <2>1. PICK name \in Stored \cup Absent :
        /\ Turn(c, [client[c] EXCEPT !.op = "download", !.status = "waiting",
                                     !.name = name, !.block = 1])
        /\ net' = net \cup {Request(c, "RRQ", name)}
    BY <1>2 DEF Downloads
  <2> DEFINE r == [client[c] EXCEPT !.op = "download", !.status = "waiting",
                                    !.name = name, !.block = 1]
  <2>2. /\ DOMAIN r = ClientFields
        /\ r.op = "download" /\ r.status = "waiting" /\ r.block = 1
    BY <1>1 DEF ClientFields
  <2>3. client' = [client EXCEPT ![c] = r]
    BY <2>1 DEF Turn
  <2> HIDE DEF r
  <2>4. \A p \in net' : p \in net \/ PacketHarmless(p)
    BY <2>1 DEF Request, Packet, PacketHarmless
  <2>5. UNCHANGED <<worker, disk>> /\ ~Uploader(c) /\ client[c].block = 0
    BY <1>1, <1>2 DEF Downloads, Uploader
  <2>6. /\ r.op \in {"download", "upload"} /\ r.status # "idle"
        /\ r.op # "upload" /\ (r.op = "upload" <=> Uploader(c))
        /\ r.block \in Nat /\ client[c].block <= r.block
    BY <2>2, <2>5
  <2> QED
    BY <2>2, <2>3, <2>4, <2>5, <2>6, OneClientMoves
<1>3. ASSUME NEW p \in net, DownloadTakes(c, p)
      PROVE  Core'
  <2> DEFINE block  == IF IsFinal(p.chunk) THEN client[c].block
                       ELSE client[c].block + 1
             status == IF IsFinal(p.chunk) THEN "complete" ELSE client[c].status
             r == [client[c] EXCEPT !.file = Append(client[c].file, p.chunk),
                                    !.block = block, !.status = status]
  <2>1. /\ client[c].status = "waiting" /\ client[c].op = "download"
        /\ UNCHANGED <<worker, disk>>
        /\ Receives(p, {Ack(Server, c, Decode(p.arg))})
    BY <1>3 DEF DownloadTakes, Waits
  <2>2. client' = [client EXCEPT ![c] = r]
    BY <1>3, Zenon DEF DownloadTakes, Turn
  <2>3. block \in Nat /\ client[c].block <= block /\ status # "idle"
    BY <1>1, <2>1
  <2> HIDE DEF block, status
  <2>4. /\ DOMAIN r = ClientFields
        /\ r.op = "download" /\ r.status = status /\ r.block = block
    BY <1>1, <2>1 DEF ClientFields
  <2> HIDE DEF r
  <2>5. \A q \in net' : q \in net \/ PacketHarmless(q)
    BY <2>1 DEF Receives, Ack, Packet, PacketHarmless
  <2> QED
    BY <2>1, <2>2, <2>3, <2>4, <2>5, OneClientMoves DEF Uploader
<1>4. ASSUME NEW p \in net, DownloadIgnores(c, p)
      PROVE  Core'
  BY <1>4, OnlyPackets DEF DownloadIgnores, Receives
<1>5. ASSUME NEW p \in net, DownloadFails(c, p) \/ UploadEnds(c, p)
      PROVE  Core'
  <2>1. PICK status \in {"failed", "complete"} :
            client' = [client EXCEPT ![c].status = status]
    BY <1>5 DEF DownloadFails, UploadEnds
  <2> DEFINE r == [client[c] EXCEPT !.status = status]
  <2>2. client' = [client EXCEPT ![c] = r]
    BY <2>1, Zenon
  <2>3. /\ DOMAIN r = ClientFields
        /\ r.op = client[c].op /\ r.status = status /\ r.block = client[c].block
    BY <1>1 DEF ClientFields
  <2> HIDE DEF r
  <2>4. client[c].op \in {"download", "upload"} /\ UNCHANGED <<worker, disk>>
    BY <1>5 DEF DownloadFails, UploadEnds, Waits
  <2>5. \A q \in net' : q \in net \/ PacketHarmless(q)
    BY <1>5 DEF DownloadFails, UploadEnds, Receives
  <2>6. /\ r.op \in {"download", "upload"} /\ r.status # "idle"
        /\ (r.op = "upload" <=> Uploader(c))
        /\ r.block \in Nat /\ client[c].block <= r.block
    BY <1>1, <2>1, <2>3, <2>4 DEF Uploader
  <2> QED
    BY <2>2, <2>3, <2>4, <2>5, <2>6, OneClientMoves
<1> QED
  BY <1>2, <1>3, <1>4, <1>5
-----------------------------------------------------------------------------
(* A write request gets its thread, and the thread opens the file. *)

LEMMA WriterIsStarted ==
    ASSUME Core, NEW p \in net, p.to = Server, MainStarts(p), p.kind = "WRQ"
    PROVE  Core'
<1>1. PICK w \in Workers :
        /\ worker[w].state = "idle"
        /\ worker' = [worker EXCEPT ![w] =
               [Idle EXCEPT !.state = "created", !.op = p.kind,
                            !.peer = p.from, !.name = p.arg]]
  BY DEF MainStarts
<1> DEFINE r == [Idle EXCEPT !.state = "created", !.op = p.kind,
                             !.peer = p.from, !.name = p.arg]
<1>2. /\ DOMAIN r = WorkerFields /\ r.state = "created" /\ r.op = "WRQ"
      /\ r.peer = p.from /\ r.name = p.arg
  BY DEF Idle, WorkerFields
<1>3. worker' = [worker EXCEPT ![w] = r]
  BY <1>1
<1> HIDE DEF r
<1>4. \A v \in Workers : worker'[v] = IF v = w THEN r ELSE worker[v]
  BY <1>3 DEF Core, Shape
<1>5. UNCHANGED <<client, disk>> /\ net' = net \ {p}
  BY DEF MainStarts, Receives
<1>6. /\ p.from \in Clients /\ p.arg \in Clients
      /\ client[p.arg].status # "idle"
      /\ \A q \in net' : q.kind = "WRQ" => q.arg # p.arg
  BY <1>5 DEF Core, RequestsOnce
<1>7. Shape'
  BY <1>2, <1>3, <1>5 DEF Core, Shape, WorkerFields
<1>8. RequestsOnce'
  BY <1>5 DEF Core, RequestsOnce
<1>9. OneWriter'
  <2>1. \A v \in Workers : Writer(v) => worker[v].name # p.arg
    BY DEF Core, OneWriter
  <2>2. ASSUME NEW v \in Workers
        PROVE  /\ worker'[v].op = "RRQ" => worker'[v].peer \in Clients
               /\ worker'[v].op = "WRQ" =>
                    /\ worker'[v].state \in {"created", "serves"}
                    /\ worker'[v].state = "serves" => worker'[v].block \in Nat \ {0}
                    /\ worker'[v].name \in Clients /\ worker'[v].peer \in Clients
                    /\ client'[worker'[v].name].status # "idle"
                    /\ \A q \in net' : q.kind = "WRQ" => q.arg # worker'[v].name
    BY <1>2, <1>4, <1>5, <1>6 DEF Core, OneWriter, Writer
  <2>3. ASSUME NEW v \in Workers, NEW u \in Workers,
               worker'[v].op = "WRQ", worker'[u].op = "WRQ",
               worker'[v].name = worker'[u].name
        PROVE  v = u
    BY <1>2, <1>4, <2>1, <2>3 DEF Core, OneWriter, Writer
  <2> QED
    BY <2>2, <2>3 DEF OneWriter, Writer
<1>10. SettledStay
  <2> SUFFICES ASSUME NEW d \in Clients, NEW i \in Settled[d]
               PROVE  i \in Settled'[d]
    BY DEF SettledStay
  <2>1. d # p.arg
    BY DEF Settled
  <2>2. \A v \in Workers : worker'[v].op = "WRQ" /\ worker'[v].name = d =>
            worker'[v].state = "serves" /\ i < worker'[v].block
    BY <1>2, <1>4, <2>1 DEF Settled, Writer
  <2> QED
    BY <1>5, <2>2 DEF Settled, Writer
<1>11. \A i \in Positions : Kept[i] \subseteq Kept'[i]
  BY <1>5, <1>10, KeptStay DEF WritesElsewhere
<1>12. ClientsGoOn
  BY <1>5 DEF Core, Shape, ClientsGoOn, Uploader
<1>13. BlocksReached'
  BY <1>5, <1>12, BlocksStay DEF Core
<1>14. AcksKept'
  BY <1>5, <1>11, <1>12, AcksStay DEF Core
<1>15. BlocksKept'
  BY <1>5, <1>11 DEF Core, BlocksKept, Uploader
<1> QED
  BY <1>7, <1>8, <1>9, <1>13, <1>14, <1>15 DEF Core

LEMMA WriteStartsKeeps ==
    ASSUME Core, NEW w \in Workers, WriteStarts(w)
    PROVE  Core'
<1> USE ServerIsNoClient DEF Server
<1> DEFINE d == worker[w].name
           r == [worker[w] EXCEPT !.state = "serves", !.block = 1]
           ack == Ack(worker[w].peer, Server, 0)
<1>1. /\ worker[w].op = "WRQ" /\ worker[w].state = "created"
      /\ worker[w].name \in Clients /\ worker[w].peer \in Clients
      /\ UNCHANGED client /\ net' = net \cup {ack}
      /\ disk' = [disk EXCEPT ![d] = [i \in Positions |-> None]]
      /\ worker' = [worker EXCEPT ![w] = r]
  BY DEF WriteStarts, In, Become, Core, OneWriter, Writer
<1>2. /\ DOMAIN r = WorkerFields /\ r.state = "serves" /\ r.op = "WRQ"
      /\ r.peer = worker[w].peer /\ r.name = d /\ r.block = 1
  BY <1>1 DEF Core, Shape, WorkerFields
<1>3. /\ ack.kind = "ACK" /\ ack.to = worker[w].peer /\ ack.arg = OnWire(0)
  BY DEF Ack, Packet
<1> HIDE DEF r, ack
<1>4. \A v \in Workers : worker'[v] = IF v = w THEN r ELSE worker[v]
  BY <1>1 DEF Core, Shape
<1>5. Shape'
  BY <1>1, <1>2 DEF Core, Shape, WorkerFields
<1>6. RequestsOnce'
  BY <1>1, <1>3 DEF Core, RequestsOnce
<1>7. OneWriter'
  <2>1. ASSUME NEW v \in Workers
        PROVE  /\ worker'[v].op = "RRQ" => worker'[v].peer \in Clients
               /\ worker'[v].op = "WRQ" =>
                    /\ worker'[v].state \in {"created", "serves"}
                    /\ worker'[v].state = "serves" => worker'[v].block \in Nat \ {0}
                    /\ worker'[v].name \in Clients /\ worker'[v].peer \in Clients
                    /\ client'[worker'[v].name].status # "idle"
                    /\ \A q \in net' : q.kind = "WRQ" => q.arg # worker'[v].name
    BY <1>1, <1>2, <1>3, <1>4 DEF Core, OneWriter, Writer
  <2>2. ASSUME NEW v \in Workers, NEW u \in Workers,
               worker'[v].op = "WRQ", worker'[u].op = "WRQ",
               worker'[v].name = worker'[u].name
        PROVE  v = u
    BY <1>1, <1>2, <1>4, <2>2 DEF Core, OneWriter, Writer
  <2> QED
    BY <2>1, <2>2 DEF OneWriter, Writer
<1>8. \A e \in Clients : Settled[e] # {} => e # d
  BY <1>1 DEF Settled, Writer
<1>9. SettledStay
  <2> SUFFICES ASSUME NEW e \in Clients, NEW i \in Settled[e]
               PROVE  i \in Settled'[e]
    BY DEF SettledStay
  <2>1. e # d
    BY <1>8
  <2>2. \A v \in Workers : worker'[v].op = "WRQ" /\ worker'[v].name = e =>
            worker'[v].state = "serves" /\ i < worker'[v].block
    BY <1>2, <1>4, <2>1 DEF Settled, Writer
  <2>3. \A q \in net' : q.kind = "WRQ" => q.arg # e
    BY <1>1, <1>3 DEF Settled
  <2> QED
    BY <1>1, <2>2, <2>3 DEF Settled, Writer
<1>10. WritesElsewhere
  BY <1>1, <1>8 DEF WritesElsewhere, Core, Shape
<1>11. \A i \in Positions : Kept[i] \subseteq Kept'[i]
  BY <1>9, <1>10, KeptStay
<1>12. ClientsGoOn
  BY <1>1 DEF Core, Shape, ClientsGoOn, Uploader
<1>13. BlocksReached'
  BY <1>1, <1>3, <1>12, BlocksStay DEF Core
<1>14. AcksKept'
  <2>1. AckKeptAfter(ack)
    BY <1>3 DEF AckKeptAfter
  <2> QED
    BY <1>1, <1>11, <1>12, <2>1, AcksStay DEF Core
<1>15. BlocksKept'
  BY <1>1, <1>11 DEF Core, BlocksKept, Uploader
<1> QED
  BY <1>5, <1>6, <1>7, <1>13, <1>14, <1>15 DEF Core
-----------------------------------------------------------------------------
(* A block is written, and from then on it is kept. *)

LEMMA WriteTakesKeeps ==
    ASSUME Core, NEW w \in Workers, NEW p \in net, p.to = Server, WriteTakes(w, p)
    PROVE  Core'
<1> USE ServerIsNoClient DEF Server
<1> DEFINE d == worker[w].name
           m == worker[w].block
           r == IF IsFinal(p.chunk) THEN Idle
                ELSE [worker[w] EXCEPT !.block = m + 1, !.retries = 0]
           ack == Ack(p.from, Server, Decode(p.arg))
<1>1. /\ worker[w].op = "WRQ" /\ worker[w].state = "serves"
      /\ d \in Clients /\ m \in Nat \ {0}
      /\ p.kind = "DATA" /\ Decode(p.arg) = m
      /\ UNCHANGED client
  BY DEF WriteTakes, WaitedFor, In, Core, OneWriter, Writer
<1>2. /\ net' = (net \ {p}) \cup {ack}
      /\ disk' = [disk EXCEPT ![d][m] = p.chunk]
  BY DEF WriteTakes, Receives
<1>3. worker' = [worker EXCEPT ![w] = r]
  BY Zenon DEF WriteTakes, Become
<1>4. ack.kind = "ACK" /\ ack.to = p.from /\ ack.arg = OnWire(m)
  BY <1>1 DEF Ack, Packet
<1>5. /\ DOMAIN r = WorkerFields
      /\ r.op = "none" \/ /\ r.op = "WRQ" /\ r.state = "serves"
                          /\ r.peer = worker[w].peer /\ r.name = d
                          /\ r.block = m + 1
  <2>1. CASE IsFinal(p.chunk)
    BY <2>1 DEF Idle, WorkerFields
  <2>2. CASE ~IsFinal(p.chunk)
    BY <1>1, <2>2 DEF Core, Shape, WorkerFields
  <2> QED
    BY <2>1, <2>2
<1> HIDE DEF r, ack
<1>6. \A v \in Workers : worker'[v] = IF v = w THEN r ELSE worker[v]
  BY <1>3 DEF Core, Shape
\* The block is one that its sender has reached, at position m or after.
<1>7. PICK c \in Clients : Uploader(c) /\
        \E j \in Positions : j <= client[c].block /\ IsBlockOf(p, c, j)
  BY <1>1 DEF Core, BlocksReached
<1>8. PICK j \in Positions : j <= client[c].block /\ IsBlockOf(p, c, j)
  BY <1>7
<1>9. j \in Nat /\ m <= j /\ m \in Positions
  <2>1. Last \in Nat /\ j \in Nat /\ j <= Last
    BY SizesAreNatural DEF Positions, Last
  <2>2. m <= j
    BY <1>1, <1>8, <2>1, DecodeAtMost DEF IsBlockOf
  <2> QED
    BY <1>1, <2>1, <2>2 DEF Positions
<1>10. Shape'
  <2>1. DOMAIN disk' = Clients /\ \A e \in Clients : DOMAIN disk'[e] = Positions
    BY <1>1, <1>2 DEF Core, Shape
  <2> QED
    BY <1>1, <1>3, <1>5, <1>6, <2>1 DEF Core, Shape, WorkerFields
<1>11. RequestsOnce'
  BY <1>1, <1>2, <1>4 DEF Core, RequestsOnce, Ack, Packet
<1>12. \A q \in net' : q.kind = "WRQ" => q \in net
  BY <1>2, <1>4
<1>13. OneWriter'
  <2>1. ASSUME NEW v \in Workers
        PROVE  /\ worker'[v].op = "RRQ" => worker'[v].peer \in Clients
               /\ worker'[v].op = "WRQ" =>
                    /\ worker'[v].state \in {"created", "serves"}
                    /\ worker'[v].state = "serves" => worker'[v].block \in Nat \ {0}
                    /\ worker'[v].name \in Clients /\ worker'[v].peer \in Clients
                    /\ client'[worker'[v].name].status # "idle"
                    /\ \A q \in net' : q.kind = "WRQ" => q.arg # worker'[v].name
    BY <1>1, <1>5, <1>6, <1>12 DEF Core, OneWriter, Writer
  <2>2. ASSUME NEW v \in Workers, NEW u \in Workers,
               worker'[v].op = "WRQ", worker'[u].op = "WRQ",
               worker'[v].name = worker'[u].name
        PROVE  v = u
    BY <1>1, <1>5, <1>6, <2>2 DEF Core, OneWriter, Writer
  <2> QED
    BY <2>1, <2>2 DEF OneWriter, Writer
<1>14. SettledStay
  <2> SUFFICES ASSUME NEW e \in Clients, NEW i \in Settled[e]
               PROVE  i \in Settled'[e]
    BY DEF SettledStay
  <2>1. i \in Positions /\ i \in Int
    BY DEF Settled, Positions
  <2>2. \A v \in Workers : worker'[v].op = "WRQ" /\ worker'[v].name = e =>
            worker'[v].state = "serves" /\ i < worker'[v].block
    <3> SUFFICES ASSUME NEW v \in Workers,
                        worker'[v].op = "WRQ", worker'[v].name = e
                 PROVE  worker'[v].state = "serves" /\ i < worker'[v].block
      OBVIOUS
    <3>1. CASE v = w
      <4>1. i < m
        BY <1>1, <1>5, <1>6, <3>1 DEF Settled, Writer
      <4> QED
        BY <1>1, <1>5, <1>6, <2>1, <3>1, <4>1
    <3>2. CASE v # w
      BY <1>6, <3>2 DEF Settled, Writer
    <3> QED
      BY <3>1, <3>2
  <2>3. \A q \in net' : q.kind = "WRQ" => q.arg # e
    BY <1>12 DEF Settled
  <2> QED
    BY <1>1, <2>2, <2>3 DEF Settled, Writer
<1>15. WritesElsewhere
  <2> SUFFICES ASSUME NEW e \in Clients, NEW i \in Settled[e]
               PROVE  disk'[e][i] = disk[e][i]
    BY DEF WritesElsewhere
  <2>1. i \in Positions /\ i \in Int
    BY DEF Settled, Positions
  <2>2. e = d => i < m
    BY <1>1 DEF Settled, Writer
  <2> QED
    BY <1>1, <1>2, <2>1, <2>2 DEF Core, Shape
<1>16. \A i \in Positions : Kept[i] \subseteq Kept'[i]
  BY <1>14, <1>15, KeptStay
<1>17. m \in Settled'[d]
  <2>1. client'[d].status # "idle" /\ \A q \in net' : q.kind = "WRQ" => q.arg # d
    BY <1>1, <1>12 DEF Core, OneWriter, Writer
  <2>2. \A v \in Workers : worker'[v].op = "WRQ" /\ worker'[v].name = d =>
            worker'[v].state = "serves" /\ m < worker'[v].block
    BY <1>1, <1>5, <1>6 DEF Core, OneWriter, Writer
  <2> QED
    BY <1>1, <1>9, <2>1, <2>2 DEF Settled, Writer
<1>18. AckKeptAfter(ack)
  <2>1. disk'[d][m] = p.chunk
    BY <1>1, <1>2, <1>9 DEF Core, Shape
  <2>2. p.chunk \in Kept'[m]
    BY <1>1, <1>9, <1>17, <2>1 DEF Kept
  <2>3. p.from = c /\ p.chunk = Chunk(c, j)
    BY <1>8 DEF IsBlockOf
  <2> QED
    BY <1>1, <1>4, <1>8, <1>9, <2>2, <2>3 DEF AckKeptAfter
<1>19. ClientsGoOn
  BY <1>1 DEF Core, Shape, ClientsGoOn, Uploader
<1>20. BlocksReached'
  BY <1>2, <1>4, <1>19, BlocksStay DEF Core
<1>21. AcksKept'
  BY <1>2, <1>16, <1>18, <1>19, AcksStay DEF Core
<1>22. BlocksKept'
  BY <1>1, <1>16 DEF Core, BlocksKept, Uploader
<1> QED
  BY <1>10, <1>11, <1>13, <1>20, <1>21, <1>22 DEF Core
-----------------------------------------------------------------------------
(* A client uploads: it sends its request, and the block after the one that *)
(* was acknowledged.                                                        *)

LEMMA UploadsKeeps ==
    ASSUME Core, NEW c \in Clients, Uploads(c)
    PROVE  Core'
<1> USE ServerIsNoClient DEF Server
<1> DEFINE r == [client[c] EXCEPT !.op = "upload", !.status = "waiting",
                                  !.name = c]
           q == Request(c, "WRQ", c)
<1>1. /\ client[c].status = "idle" /\ client[c].op = "none" /\ client[c].block = 0
      /\ client' = [client EXCEPT ![c] = r]
      /\ net' = net \cup {q} /\ UNCHANGED <<worker, disk>>
  BY DEF Uploads, Turn, Core, Shape
<1>2. /\ DOMAIN r = ClientFields
      /\ r.op = "upload" /\ r.status = "waiting" /\ r.block = 0
  BY <1>1 DEF Core, Shape, ClientFields
<1>3. q.kind = "WRQ" /\ q.to = Server /\ q.from = c /\ q.arg = c
  BY DEF Request, Packet
<1> HIDE DEF r
<1>4. \A e \in Clients : client'[e] = IF e = c THEN r ELSE client[e]
  BY <1>1 DEF Core, Shape
<1>5. Shape'
  BY <1>1, <1>2, <1>4 DEF Core, Shape, ClientFields
<1>6. ClientsGoOn
  BY <1>1, <1>2, <1>4 DEF Core, Shape, ClientsGoOn, Uploader
<1>7. RequestsOnce'
  <2>1. q = Request(q.arg, "WRQ", q.arg) /\ client'[c].status # "idle"
    BY <1>2, <1>3, <1>4
  <2> HIDE DEF q
  <2> QED
    BY <1>1, <1>3, <1>6, <2>1 DEF Core, RequestsOnce, ClientsGoOn
<1> HIDE DEF q
<1>8. \A w \in Workers : Writer(w) => worker[w].name # c
  BY <1>1 DEF Core, OneWriter
<1>9. OneWriter'
  BY <1>1, <1>3, <1>6, <1>8 DEF Core, OneWriter, ClientsGoOn, Writer
<1>10. SettledStay
  <2> SUFFICES ASSUME NEW e \in Clients, NEW i \in Settled[e]
               PROVE  i \in Settled'[e]
    BY DEF SettledStay
  <2>1. e # c
    BY <1>1 DEF Settled
  <2> QED
    BY <1>1, <1>3, <1>4, <2>1 DEF Settled, Writer
<1>11. \A i \in Positions : Kept[i] \subseteq Kept'[i]
  BY <1>1, <1>10, KeptStay DEF WritesElsewhere
<1>12. BlocksReached'
  BY <1>1, <1>3, <1>6, BlocksStay DEF Core
<1>13. AcksKept'
  BY <1>1, <1>3, <1>6, <1>11, AcksStay DEF Core
<1>14. BlocksKept'
  BY <1>2, <1>4, <1>11 DEF Core, BlocksKept, Uploader
<1> QED
  BY <1>5, <1>7, <1>9, <1>12, <1>13, <1>14 DEF Core

LEMMA UploadSendsKeeps ==
    ASSUME Core, NEW c \in Clients, NEW p \in net, UploadSends(c, p)
    PROVE  Core'
<1> USE ServerIsNoClient DEF Server
<1> DEFINE b == client[c].block
           data == Data(Server, c, client'[c].block, Chunk(c, client'[c].block), 0)
<1>1. /\ client[c].op = "upload" /\ client[c].status = "waiting" /\ p.to = c
      /\ p.kind = "ACK" /\ Decode(p.arg) = b /\ b < Last /\ b \in Nat
      /\ client' = [client EXCEPT ![c].block = b + 1]
      /\ net' = (net \ {p}) \cup {data} /\ UNCHANGED <<worker, disk>>
  BY DEF UploadSends, Waits, AckWaitedFor, Receives, Core, Shape
<1>2. /\ \A e \in Clients : e # c => client'[e] = client[e]
      /\ client'[c].op = "upload" /\ client'[c].status = "waiting"
      /\ client'[c].block = b + 1
      /\ DOMAIN client'[c] = ClientFields
  BY <1>1 DEF Core, Shape, ClientFields
<1>3. /\ data.kind = "DATA" /\ data.to = Server /\ data.from = c
      /\ data.arg = OnWire(b + 1) /\ data.chunk = Chunk(c, b + 1)
  BY <1>2 DEF Data, Packet
<1> HIDE DEF data
\* The acknowledgement is of the very block the client has reached.
<1>4. b # 0 => b \in Positions /\ Chunk(c, b) \in Kept[b]
  <2> SUFFICES ASSUME b # 0
               PROVE  b \in Positions /\ Chunk(c, b) \in Kept[b]
    OBVIOUS
  <2>1. PICK m \in Nat :
            /\ p.arg = OnWire(m)
            /\ m # 0 =>
                /\ m \in Positions
                /\ \E j \in Nat : /\ m <= j /\ j <= client[c].block
                                  /\ Chunk(c, j) \in Kept[m]
    BY <1>1 DEF Core, AcksKept
  <2>2. b <= m
    BY <1>1, <2>1, DecodeAtMost
  <2>3. PICK j \in Nat : m <= j /\ j <= b /\ Chunk(c, j) \in Kept[m]
    BY <1>1, <2>1, <2>2
  <2>4. m = b /\ j = b
    BY <1>1, <2>2, <2>3
  <2> QED
    BY <1>1, <2>1, <2>3, <2>4
<1>5. Shape'
  BY <1>1, <1>2 DEF Core, Shape, ClientFields
<1>6. ClientsGoOn
  BY <1>1, <1>2 DEF Core, Shape, ClientsGoOn, Uploader
<1>7. RequestsOnce'
  BY <1>1, <1>3, <1>6 DEF Core, RequestsOnce, ClientsGoOn
<1>8. OneWriter'
  BY <1>1, <1>3, <1>6 DEF Core, OneWriter, ClientsGoOn, Writer
<1>9. SettledStay
  <2> SUFFICES ASSUME NEW e \in Clients, NEW i \in Settled[e]
               PROVE  i \in Settled'[e]
    BY DEF SettledStay
  <2> QED
    BY <1>1, <1>3, <1>6 DEF Settled, Writer, ClientsGoOn
<1>10. \A i \in Positions : Kept[i] \subseteq Kept'[i]
  BY <1>1, <1>9, KeptStay DEF WritesElsewhere
<1>11. BlocksReached'
  <2>1. b + 1 \in Positions
    BY <1>1, SizesAreNatural DEF Positions, Last
  <2>2. IsBlockOf(data, c, b + 1)
    BY <1>3 DEF IsBlockOf
  <2>3. ReachedAfter(data)
    BY <1>1, <1>2, <2>1, <2>2 DEF ReachedAfter
  <2> QED
    BY <1>1, <1>6, <2>3, BlocksStay DEF Core
<1>12. AcksKept'
  BY <1>1, <1>3, <1>6, <1>10, AcksStay DEF Core
<1>13. BlocksKept'
  <2> SUFFICES ASSUME NEW e \in Clients, client'[e].op = "upload",
                      NEW i \in 1..(client'[e].block - 1)
               PROVE  i \in Positions /\ Chunk(e, i) \in Kept'[i]
    BY DEF BlocksKept, Uploader
  <2>1. i \in Positions /\ Chunk(e, i) \in Kept[i]
    <3>1. CASE e = c /\ i = b
      BY <1>1, <1>2, <1>4, <3>1
    <3>2. CASE ~(e = c /\ i = b)
      BY <1>1, <1>2, <3>2 DEF Core, BlocksKept, Uploader
    <3> QED
      BY <3>1, <3>2
  <2> QED
    BY <1>10, <2>1
<1> QED
  BY <1>5, <1>7, <1>8, <1>11, <1>12, <1>13 DEF Core
-----------------------------------------------------------------------------
(* The whole. *)

LEMMA InitEstablishes == Init => IInv
<1> SUFFICES ASSUME Init PROVE IInv
  OBVIOUS
<1>1. net = {} /\ copies = 0
  BY DEF Init
<1>2. \A w \in Workers : worker[w] = Idle /\ ~Writer(w) /\ worker[w].op = "none"
                         /\ DOMAIN worker[w] = WorkerFields
  BY DEF Init, Idle, Writer, WorkerFields
<1>3. \A c \in Clients : /\ client[c].op = "none" /\ client[c].status = "idle"
                         /\ client[c].block = 0 /\ DOMAIN client[c] = ClientFields
  BY DEF Init, ClientFields
<1>4. /\ DOMAIN worker = Workers /\ DOMAIN client = Clients
      /\ DOMAIN disk = Clients /\ \A d \in Clients : DOMAIN disk[d] = Positions
  BY DEF Init
<1>5. Shape
  BY <1>2, <1>3, <1>4 DEF Shape, WorkerFields, ClientFields
<1>6. RequestsOnce /\ OneWriter /\ BlocksReached /\ AcksKept
  BY <1>1, <1>2 DEF RequestsOnce, OneWriter, BlocksReached, AcksKept
<1>7. BlocksKept
  BY <1>3 DEF BlocksKept, Uploader
<1> QED
  BY <1>1, <1>5, <1>6, <1>7 DEF IInv, Core

LEMMA NextKeeps == IInv /\ [Next]_vars => IInv'
<1> SUFFICES ASSUME IInv, [Next]_vars PROVE IInv'
  OBVIOUS
<1>1. ASSUME NEW p \in net, Duplicate(p)
      PROVE  IInv'
  BY <1>1 DEF IInv, Duplicate
<1>2. ASSUME UNCHANGED copies, Core => Core'
      PROVE  IInv'
  BY <1>2 DEF IInv
<1>3. CASE Main
  <2>1. PICK p \in net : p.to = Server /\ (MainStarts(p) \/ MainDrops(p))
    BY <1>3 DEF Main
  <2>2. UNCHANGED copies
    BY <2>1 DEF MainStarts, MainDrops
  <2>3. Core => Core'
    BY <2>1, MainKeeps, WriterIsStarted
  <2> QED
    BY <1>2, <2>2, <2>3
<1>4. ASSUME NEW w \in Workers, Thread(w)
      PROVE  IInv'
  <2>1. UNCHANGED copies
    BY <1>4 DEF Thread, ReadStarts, WriteStarts, WriteRefused, ReadTimesOut,
                WriteTimesOut, ReadReceives, WriteTakes, WriteIgnores
  <2>2. Core => Core'
    BY <1>4, ReadKeeps, WriteWaitKeeps, WriteStartsKeeps, WriteTakesKeeps
      DEF Thread
  <2> QED
    BY <1>2, <2>1, <2>2
<1>5. ASSUME NEW c \in Clients, Client(c)
      PROVE  IInv'
  <2>1. UNCHANGED copies
    BY <1>5 DEF Client, Downloads, Uploads, DownloadTakes, DownloadIgnores,
                DownloadFails, UploadSends, UploadEnds
  <2>2. Core => Core'
    BY <1>5, DownloadKeeps, UploadsKeeps, UploadSendsKeeps DEF Client
  <2> QED
    BY <1>2, <2>1, <2>2
<1>6. ASSUME NEW p \in net, Lose(p)
      PROVE  IInv'
  <2>1. UNCHANGED copies /\ (Core => Core')
    BY <1>6, OnlyPackets DEF Lose, Receives
  <2> QED
    BY <1>2, <2>1
<1>7. CASE UNCHANGED vars
  <2>1. UNCHANGED copies /\ (Core => Core')
    BY <1>7, OnlyPackets DEF vars
  <2> QED
    BY <1>2, <2>1
<1> QED
  BY <1>1, <1>3, <1>4, <1>5, <1>6, <1>7 DEF Next, Network

LEMMA KeptIsStored == IInv => AcknowledgedIsStored
<1> SUFFICES ASSUME IInv, copies = 0, NEW c \in Clients,
                    client[c].op = "upload",
                    NEW i \in 1..(client[c].block - 1)
             PROVE  \E d \in Clients : disk[d][i] = Chunk(c, i)
  BY DEF AcknowledgedIsStored
<1>1. i \in Positions /\ Chunk(c, i) \in Kept[i]
  BY DEF IInv, Core, BlocksKept, Uploader
<1> QED
  BY <1>1 DEF Kept

\* Nothing acknowledged is lost (AcknowledgedIsStored): as long as no datagram
\* comes twice, each block whose acknowledgement an uploading client went on
\* from is on the server's disk, at its position, whichever thread took it.
THEOREM NothingAcknowledgedLost == Spec => []AcknowledgedIsStored
<1>1. Init => IInv
  BY InitEstablishes
<1>2. IInv /\ [Next]_vars => IInv'
  BY NextKeeps
<1>3. IInv => AcknowledgedIsStored
  BY KeptIsStored
<1> QED
  BY <1>1, <1>2, <1>3, PTL DEF Spec
-----------------------------------------------------------------------------
(* A client that is alone.  Its one request is on its way, or one thread    *)
(* works for it, or nobody does any more; and whatever is still on its way  *)
(* says no more than what has happened.                                     *)

Active(w) == worker[w].state # "idle"
Nobody == \A w \in Workers : ~Active(w)
Nothing == [op |-> "none", status |-> "idle", name |-> None, block |-> 0,
            file |-> <<>>]
Statuses == {"waiting", "complete", "failed"}

\* The blocks a downloading client has taken.
Taken(me) == IF me.status = "complete" THEN Last ELSE me.block - 1

IsChunkOf(p, c, name, j) ==
    p.kind = "DATA" /\ p.to = c /\ p.arg = OnWire(j) /\ p.chunk = Chunk(name, j)
IsAckOf(p, c, j) == p = Ack(Server, c, j) /\ Decode(OnWire(j)) = j

DownloadPacket(me, c, p) ==
    \/ p = Request(c, "RRQ", me.name)
    \/ p = Error(c)
    \/ \E j \in 1..me.block : IsChunkOf(p, c, me.name, j)
    \/ \E j \in 1..Taken(me) : IsAckOf(p, c, j)
\* What can be on its way while a thread sends block n.
ServedPacket(me, c, n, p) ==
    \/ \E j \in 1..n : IsChunkOf(p, c, me.name, j)
    \/ IsAckOf(p, c, n) /\ n <= Taken(me)

DownloadClient(me) ==
    /\ me.status \in Statuses /\ me.block \in Positions
    /\ me.status = "complete" => me.block = Last
    /\ me.file = SubSeq(File(me.name), 1, Taken(me))
\* Nothing has been done but to ask.
NotBegun(me, first) == me.status = "waiting" /\ me.block = first

DownloadThread(w, me, c) ==
    /\ worker[w].op = "RRQ" /\ worker[w].peer = c /\ worker[w].name = me.name
    /\ \/ worker[w].state = "created" /\ net = {} /\ NotBegun(me, 1)
       \/ /\ worker[w].state = "serves"
          /\ worker[w].block = worker[w].pos /\ worker[w].block \in 1..me.block
          /\ \A p \in net : ServedPacket(me, c, worker[w].block, p)
OneThread == \A v, w \in Workers : Active(v) /\ Active(w) => v = w

DownloadAlone(c) ==
    /\ DownloadClient(client[c])
    /\ \A p \in net : DownloadPacket(client[c], c, p)
    /\ \A p \in net : p.kind = "RRQ" =>
        net = {p} /\ NotBegun(client[c], 1) /\ Nobody
    /\ \A w \in Workers : Active(w) => DownloadThread(w, client[c], c)

\* An upload is in step: the block on its way is the one the client sent last,
\* the acknowledgement on its way is of that block, and then it is on the disk.
OnDisk(c, i) == i # 0 => disk[c][i] = Chunk(c, i)
UploadPacket(me, c, p) ==
    \/ p = Request(c, "WRQ", c)
    \/ p = Error(c) /\ me.block = 0
    \/ p = Data(Server, c, me.block, Chunk(c, me.block), 0) /\ me.block # 0
    \/ /\ p = Ack(c, Server, me.block) /\ Decode(OnWire(me.block)) = me.block
       /\ OnDisk(c, me.block) /\ \A q \in net : q.kind = "ACK"

UploadClient(me, c) ==
    /\ me.status \in Statuses /\ me.block \in 0..Last
    /\ me.status = "complete" => disk[c] = File(c)
    /\ \A i \in 1..(me.block - 1) : disk[c][i] = Chunk(c, i)

UploadThread(w, me, c) ==
    /\ worker[w].op = "WRQ" /\ worker[w].peer = c /\ worker[w].name = c
    /\ \/ worker[w].state = "created" /\ net = {} /\ NotBegun(me, 0)
       \/ /\ worker[w].state = "serves"
          /\ \/ /\ worker[w].block = me.block /\ me.block # 0
                /\ \A p \in net : p.kind = "DATA"
             \/ /\ worker[w].block = me.block + 1 /\ OnDisk(c, me.block)
                /\ \A p \in net : p.kind = "ACK"

UploadAlone(c) ==
    /\ UploadClient(client[c], c)
    /\ \A p \in net : UploadPacket(client[c], c, p)
    /\ \A p \in net : p.kind = "WRQ" =>
        net = {p} /\ NotBegun(client[c], 0) /\ Nobody
    /\ \A w \in Workers : Active(w) => UploadThread(w, client[c], c)

Solo(c) ==
    /\ OneThread
    /\ disk[c] = [i \in Positions |-> disk[c][i]]
    /\ client[c].op \in {"none", "download", "upload"}
    /\ client[c].op = "none" => client[c] = Nothing /\ net = {} /\ Nobody
    /\ client[c].op = "download" => DownloadAlone(c)
    /\ client[c].op = "upload" => UploadAlone(c)

AInv == IInv /\ \A c \in Clients : Alone(c) => Solo(c)

GoesOn(w) ==
    \/ worker'[w].state = "idle"
    \/ /\ worker'[w].state = worker[w].state /\ worker'[w].op = worker[w].op
       /\ worker'[w].peer = worker[w].peer /\ worker'[w].name = worker[w].name
       /\ worker'[w].block = worker[w].block /\ worker'[w].pos = worker[w].pos

\* Threads that end or wait on, and datagrams that get lost.
LEMMA QuietSteps ==
    ASSUME NEW c \in Clients, Solo(c), UNCHANGED <<client, disk>>,
           net' \subseteq net, \A w \in Workers : GoesOn(w)
    PROVE  Solo(c)'
<1>1. ASSUME NEW w \in Workers, Active(w)'
      PROVE  /\ Active(w) /\ worker'[w].state = worker[w].state
             /\ worker'[w].op = worker[w].op /\ worker'[w].peer = worker[w].peer
             /\ worker'[w].name = worker[w].name
             /\ worker'[w].block = worker[w].block /\ worker'[w].pos = worker[w].pos
  BY <1>1 DEF GoesOn, Active
<1>2. (Nobody => Nobody') /\ (OneThread => OneThread')
  BY <1>1 DEF Nobody, OneThread
<1>3. net = {} => net' = {}
  OBVIOUS
<1>4. \A p \in net' : net = {p} => net' = {p}
  OBVIOUS
<1>5. ASSUME DownloadAlone(c) PROVE DownloadAlone(c)'
  <2>1. DownloadClient(client[c])'
    BY <1>5 DEF DownloadAlone, DownloadClient, Taken
  <2>2. \A p \in net' : DownloadPacket(client'[c], c, p)
    BY <1>5 DEF DownloadAlone
  <2>3. \A p \in net' : p.kind = "RRQ" =>
            net' = {p} /\ NotBegun(client'[c], 1) /\ Nobody'
    BY <1>2, <1>4, <1>5 DEF DownloadAlone
  <2>4. ASSUME NEW w \in Workers, Active(w)'
        PROVE  DownloadThread(w, client[c], c)'
    <3>1. DownloadThread(w, client[c], c)
      BY <1>1, <1>5, <2>4 DEF DownloadAlone
    <3> QED
      BY <1>1, <1>3, <2>4, <3>1 DEF DownloadThread
  <2> QED
    BY <2>1, <2>2, <2>3, <2>4 DEF DownloadAlone, DownloadPacket, Taken
<1>6. ASSUME UploadAlone(c) PROVE UploadAlone(c)'
  <2>1. UploadClient(client[c], c)'
    BY <1>6 DEF UploadAlone, UploadClient
  <2>2. \A p \in net' : UploadPacket(client[c], c, p)'
    BY <1>6 DEF UploadAlone, UploadPacket, OnDisk
  <2>3. \A p \in net' : p.kind = "WRQ" =>
            net' = {p} /\ NotBegun(client'[c], 0) /\ Nobody'
    BY <1>2, <1>4, <1>6 DEF UploadAlone
  <2>4. ASSUME NEW w \in Workers, Active(w)'
        PROVE  UploadThread(w, client[c], c)'
    <3>1. UploadThread(w, client[c], c)
      BY <1>1, <1>6, <2>4 DEF UploadAlone
    <3> QED
      BY <1>1, <1>3, <2>4, <3>1 DEF UploadThread, OnDisk
  <2> QED
    BY <2>1, <2>2, <2>3, <2>4 DEF UploadAlone
<1> QED
  BY <1>2, <1>3, <1>5, <1>6 DEF Solo

\* One thread's record changes; the others stay as they are.
LEMMA ThreadBecomes ==
    ASSUME Shape, NEW w \in Workers, NEW r, Become(w, r)
    PROVE  worker'[w] = r /\ \A v \in Workers : v # w => worker'[v] = worker[v]
BY DEF Shape, Become

LEMMA ThreadQuiet ==
    ASSUME Shape, NEW c \in Clients, Solo(c), UNCHANGED <<client, disk>>,
           net' \subseteq net, NEW w \in Workers, NEW r, Become(w, r),
           \/ r = Idle
           \/ \E n : r = [worker[w] EXCEPT !.retries = n]
    PROVE  Solo(c)'
<1>1. worker'[w] = r /\ \A v \in Workers : v # w => worker'[v] = worker[v]
  BY ThreadBecomes
<1>2. GoesOn(w)
  <2>1. CASE r = Idle
    BY <1>1, <2>1 DEF GoesOn, Idle
  <2>2. CASE \E n : r = [worker[w] EXCEPT !.retries = n]
    BY <1>1, <2>2 DEF GoesOn, Shape
  <2> QED
    BY <2>1, <2>2
<1>3. \A v \in Workers : GoesOn(v)
  BY <1>1, <1>2 DEF GoesOn
<1> QED
  BY <1>3, QuietSteps
-----------------------------------------------------------------------------
(* The main loop: the one request gets the one thread. *)

LEMMA SoloStarts ==
    ASSUME Shape, NEW c \in Clients, Solo(c), NEW p \in net, MainStarts(p)
    PROVE  Solo(c)'
<1> USE ServerIsNoClient DEF Server
<1>1. PICK w \in Workers :
        /\ worker[w].state = "idle"
        /\ worker' = [worker EXCEPT ![w] =
               [Idle EXCEPT !.state = "created", !.op = p.kind,
                            !.peer = p.from, !.name = p.arg]]
  BY DEF MainStarts
<1> DEFINE r == [Idle EXCEPT !.state = "created", !.op = p.kind,
                             !.peer = p.from, !.name = p.arg]
<1>2. /\ r.state = "created" /\ r.op = p.kind /\ r.peer = p.from /\ r.name = p.arg
      /\ Become(w, r)
  BY <1>1 DEF Idle, Become
<1> HIDE DEF r
<1>3. worker'[w] = r /\ \A v \in Workers : v # w => worker'[v] = worker[v]
  BY <1>2, ThreadBecomes
<1>4. /\ p.kind \in {"RRQ", "WRQ"} /\ net' = net \ {p}
      /\ UNCHANGED <<client, disk>>
  BY DEF MainStarts, Receives
<1>5. Nobody /\ net = {p} => OneThread' /\ net' = {}
                             /\ \A v \in Workers : Active(v)' => v = w
  BY <1>2, <1>3, <1>4 DEF Nobody, OneThread, Active
<1>6. CASE client[c].op = "download"
  <2>1. DownloadAlone(c)
    BY <1>6 DEF Solo
  <2>2. DownloadPacket(client[c], c, p)
    BY <2>1 DEF DownloadAlone
  <2>3. p = Request(c, "RRQ", client[c].name)
    BY <1>4, <2>2 DEF DownloadPacket, IsChunkOf, IsAckOf, Ack, Error, Packet
  <2>4. p.kind = "RRQ" /\ p.from = c /\ p.arg = client[c].name
    BY <2>3 DEF Request, Packet
  <2>5. net = {p} /\ NotBegun(client[c], 1) /\ Nobody
    BY <2>1, <2>4 DEF DownloadAlone
  <2>6. DownloadThread(w, client[c], c)'
    BY <1>2, <1>3, <1>4, <1>5, <2>4, <2>5 DEF DownloadThread
  <2>7. DownloadClient(client[c])'
    BY <1>4, <2>1 DEF DownloadAlone, DownloadClient, Taken
  <2>8. DownloadAlone(c)'
    BY <1>5, <2>5, <2>6, <2>7 DEF DownloadAlone
  <2> QED
    BY <1>4, <1>5, <1>6, <2>5, <2>8 DEF Solo
<1>7. CASE client[c].op = "upload"
  <2>1. UploadAlone(c)
    BY <1>7 DEF Solo
  <2>2. UploadPacket(client[c], c, p)
    BY <2>1 DEF UploadAlone
  <2>3. p = Request(c, "WRQ", c)
    BY <1>4, <2>2 DEF UploadPacket, Data, Ack, Error, Packet
  <2>4. p.kind = "WRQ" /\ p.from = c /\ p.arg = c
    BY <2>3 DEF Request, Packet
  <2>5. net = {p} /\ NotBegun(client[c], 0) /\ Nobody
    BY <2>1, <2>4 DEF UploadAlone
  <2>6. UploadThread(w, client[c], c)'
    BY <1>2, <1>3, <1>4, <1>5, <2>4, <2>5 DEF UploadThread
  <2>7. UploadClient(client[c], c)'
    BY <1>4, <2>1 DEF UploadAlone, UploadClient
  <2>8. UploadAlone(c)'
    BY <1>5, <2>5, <2>6, <2>7 DEF UploadAlone
  <2> QED
    BY <1>4, <1>5, <1>7, <2>5, <2>8 DEF Solo
<1> QED
  BY <1>6, <1>7 DEF Solo
-----------------------------------------------------------------------------
(* The thread of a download. *)

LEMMA ActiveIsOfClient ==
    ASSUME NEW c \in Clients, Solo(c), NEW w \in Workers, Active(w)
    PROVE  /\ \A v \in Workers : v # w => ~Active(v)
           /\ \/ /\ client[c].op = "download" /\ DownloadAlone(c)
                 /\ DownloadThread(w, client[c], c)
              \/ /\ client[c].op = "upload" /\ UploadAlone(c)
                 /\ UploadThread(w, client[c], c)
<1>1. \A v \in Workers : v # w => ~Active(v)
  BY DEF Solo, OneThread
<1>2. client[c].op \in {"download", "upload"}
  BY DEF Solo, Nobody
<1> QED
  BY <1>1, <1>2 DEF Solo, DownloadAlone, UploadAlone

\* A thread that could not open its file says so and ends.
LEMMA SoloRefused ==
    ASSUME Shape, NEW c \in Clients, Solo(c), UNCHANGED <<client, disk>>,
           NEW w \in Workers, worker[w].state = "created", Become(w, Idle),
           net' = net \cup {Error(worker[w].peer)}
    PROVE  Solo(c)'
<1>1. worker'[w] = Idle /\ \A v \in Workers : v # w => worker'[v] = worker[v]
  BY ThreadBecomes
<1>2. Active(w)
  BY DEF Active
<1>3. Nobody' /\ OneThread'
  BY <1>1, <1>2, ActiveIsOfClient DEF Nobody, OneThread, Active, Idle
<1>4. Error(c).kind = "ERROR"
  BY DEF Error, Packet
<1>5. CASE /\ client[c].op = "download" /\ DownloadAlone(c)
           /\ DownloadThread(w, client[c], c)
  <2>1. net' = {Error(c)}
    BY <1>5 DEF DownloadThread
  <2>2. DownloadClient(client[c])'
    BY <1>5 DEF DownloadAlone, DownloadClient, Taken
  <2>3. DownloadAlone(c)'
    BY <1>3, <1>4, <2>1, <2>2 DEF DownloadAlone, DownloadPacket, Nobody
  <2> QED
    BY <1>3, <1>5, <2>3 DEF Solo
<1>6. CASE /\ client[c].op = "upload" /\ UploadAlone(c)
           /\ UploadThread(w, client[c], c)
  <2>1. net' = {Error(c)} /\ client'[c].block = 0
    BY <1>6 DEF UploadThread, NotBegun
  <2>2. UploadClient(client[c], c)'
    BY <1>6 DEF UploadAlone, UploadClient
  <2>3. UploadAlone(c)'
    BY <1>3, <1>4, <2>1, <2>2 DEF UploadAlone, UploadPacket, Nobody
  <2> QED
    BY <1>3, <1>6, <2>3 DEF Solo
<1> QED
  BY <1>2, <1>5, <1>6, ActiveIsOfClient

\* A block that goes out, for the first time or again.
LEMMA ServesNext ==
    ASSUME Shape, NEW c \in Clients, Solo(c), client[c].op = "download",
           UNCHANGED <<client, disk>>,
           NEW w \in Workers, Active(w), NEW r, Become(w, r),
           r.op = "RRQ", r.state = "serves", r.peer = c,
           r.name = client[c].name,
           r.block = r.pos, r.block \in 1..client[c].block,
           \A q \in net' :
               \/ q \in net /\ ServedPacket(client[c], c, r.block, q)
               \/ q = Data(c, Server, r.block, Chunk(r.name, r.pos), r.retries)
    PROVE  Solo(c)'
<1> DEFINE me == client[c]
<1>1. worker'[w] = r /\ \A v \in Workers : v # w => worker'[v] = worker[v]
  BY ThreadBecomes
<1>2. /\ DownloadAlone(c)
      /\ \A v \in Workers : v # w => ~Active(v)
  BY ActiveIsOfClient
<1>3. (\A v \in Workers : v # w => ~Active(v)') /\ OneThread'
  BY <1>1, <1>2 DEF Active, OneThread
<1>4. DownloadClient(client[c])'
  BY <1>2 DEF DownloadAlone, DownloadClient, Taken
<1>5. ASSUME NEW q \in net'
      PROVE  /\ ServedPacket(me, c, r.block, q)
             /\ DownloadPacket(me, c, q) /\ q.kind # "RRQ"
  <2>1. CASE q \in net /\ ServedPacket(me, c, r.block, q)
    <3>1. DownloadPacket(me, c, q)
      BY <1>2, <2>1 DEF DownloadAlone
    <3>2. q.kind # "RRQ"
      BY <2>1 DEF ServedPacket, IsChunkOf, IsAckOf, Ack, Packet
    <3> QED
      BY <2>1, <3>1, <3>2
  <2>2. CASE q = Data(c, Server, r.block, Chunk(r.name, r.pos), r.retries)
    <3>1. IsChunkOf(q, c, me.name, r.block) /\ q.kind = "DATA"
      BY <2>2 DEF Data, Packet, IsChunkOf
    <3>2. r.block \in 1..r.block /\ r.block \in 1..me.block
      OBVIOUS
    <3> QED
      BY <3>1, <3>2 DEF ServedPacket, DownloadPacket
  <2> QED
    BY <2>1, <2>2
<1>6. DownloadThread(w, client[c], c)'
  BY <1>1, <1>5 DEF DownloadThread, ServedPacket, IsAckOf, IsChunkOf, Taken
<1>7. DownloadAlone(c)'
  BY <1>3, <1>4, <1>5, <1>6
    DEF DownloadAlone, DownloadPacket, IsAckOf, IsChunkOf, Taken
<1> QED
  BY <1>3, <1>7 DEF Solo

LEMMA SoloReads ==
    ASSUME Shape, NEW c \in Clients, Solo(c), NEW w \in Workers,
           \/ ReadStarts(w) \/ ReadTimesOut(w)
           \/ \E p \in net : p.to = Server /\ ReadReceives(w, p)
    PROVE  Solo(c)'
<1> USE ServerIsNoClient DEF Server
<1> DEFINE me == client[c]
           n == worker[w].block
<1>1. /\ worker[w].op = "RRQ" /\ worker[w].state \in {"created", "serves"}
      /\ UNCHANGED <<client, disk>>
  BY DEF ReadStarts, ReadTimesOut, ReadReceives, In
<1>2. Active(w)
  BY <1>1 DEF Active
<1>3. me.op = "download" /\ DownloadAlone(c) /\ DownloadThread(w, me, c)
  BY <1>1, <1>2, ActiveIsOfClient DEF UploadThread
<1>4. me.block \in Positions /\ me.block \in Int
  BY <1>3 DEF DownloadAlone, DownloadClient, Positions
<1>5. CASE ReadStarts(w)
  <2>1. worker[w].state = "created" /\ net = {} /\ me.block = 1
    BY <1>3, <1>5 DEF ReadStarts, In, DownloadThread, NotBegun
  <2>2. CASE worker[w].name \in Stored
    <3> DEFINE r == [worker[w] EXCEPT !.state = "serves", !.block = 1, !.pos = 1]
    <3>1. Sends(w, r)
      BY <1>5, <2>2 DEF ReadStarts
    <3>2. /\ r.op = "RRQ" /\ r.state = "serves" /\ r.peer = c /\ r.name = me.name
          /\ r.block = 1 /\ r.pos = 1
      BY <1>1, <1>3 DEF Shape, DownloadThread
    <3> HIDE DEF r
    <3>3. Become(w, r) /\ \A q \in net' :
            q = Data(c, Server, r.block, Chunk(r.name, r.pos), r.retries)
      BY <2>1, <3>1, <3>2 DEF Sends
    <3>4. r.block \in 1..me.block
      BY <2>1, <3>2
    <3> QED
      BY <1>1, <1>2, <1>3, <3>2, <3>3, <3>4, ServesNext
  <2>3. CASE worker[w].name \notin Stored
    BY <1>1, <1>5, <2>1, <2>3, SoloRefused DEF ReadStarts
  <2> QED
    BY <2>2, <2>3
<1>6. CASE ReadTimesOut(w)
  <2>1. worker[w].state = "serves"
    BY <1>6 DEF ReadTimesOut, In
  <2>2. /\ n = worker[w].pos /\ n \in 1..me.block
        /\ \A q \in net : ServedPacket(me, c, n, q)
        /\ worker[w].peer = c /\ worker[w].name = me.name
    BY <1>3, <2>1 DEF DownloadThread
  <2>3. CASE worker[w].retries < MaxRetries
    <3> DEFINE r == [worker[w] EXCEPT !.retries = @ + 1]
    <3>1. Sends(w, r)
      BY <1>6, <2>3 DEF ReadTimesOut
    <3>2. /\ r.op = "RRQ" /\ r.state = "serves" /\ r.peer = c /\ r.name = me.name
          /\ r.block = n /\ r.pos = n
      BY <1>1, <2>1, <2>2 DEF Shape
    <3> HIDE DEF r
    <3>3. Become(w, r) /\ net' = net \cup
            {Data(c, Server, r.block, Chunk(r.name, r.pos), r.retries)}
      BY <3>1, <3>2 DEF Sends
    <3> HIDE DEF me, n
    <3>4. /\ r.block = r.pos /\ r.block \in 1..client[c].block
          /\ r.name = client[c].name /\ client[c].op = "download"
          /\ \A q \in net : ServedPacket(client[c], c, r.block, q)
      BY <1>3, <2>2, <3>2 DEF me, n
    <3> QED
      BY <1>1, <1>2, <3>2, <3>3, <3>4, ServesNext
  <2>4. CASE ~(worker[w].retries < MaxRetries)
    <3>1. Become(w, Idle) /\ net' = net
      BY <1>6, <2>4 DEF ReadTimesOut
    <3> QED
      BY <1>1, <3>1, ThreadQuiet
  <2> QED
    BY <2>3, <2>4
<1>7. ASSUME NEW p \in net, p.to = Server, ReadReceives(w, p)
      PROVE  Solo(c)'
  <2>1. worker[w].state = "serves"
    BY <1>7 DEF ReadReceives, In
  <2>2. /\ n = worker[w].pos /\ n \in 1..me.block
        /\ \A q \in net : ServedPacket(me, c, n, q)
        /\ worker[w].peer = c /\ worker[w].name = me.name
    BY <1>3, <2>1 DEF DownloadThread
  <2>3. CASE n = Last
    <3>1. Become(w, Idle) /\ net' = net \ {p}
      BY <1>7, <2>2, <2>3 DEF ReadReceives, Receives
    <3> QED
      BY <1>1, <3>1, ThreadQuiet
  <2>4. CASE n # Last
    <3>1. IsAckOf(p, c, n) /\ n <= Taken(me)
      BY <1>7, <2>2 DEF ServedPacket, IsChunkOf
    <3>2. p.kind = "ACK" /\ p.from = c /\ p.arg = OnWire(n) /\ Decode(p.arg) = n
      BY <3>1 DEF IsAckOf, Ack, Packet
    <3> DEFINE r == [worker[w] EXCEPT
                       !.peer = p.from, !.pos = @ + 1, !.retries = 0,
                       !.block = IF Acknowledged(w, p) THEN @ + 1 ELSE @]
    <3>3. /\ Become(w, r)
          /\ net' = (net \ {p}) \cup
                {Data(r.peer, Server, r.block, Chunk(r.name, r.pos), 0)}
      BY <1>7, <2>2, <2>4 DEF ReadReceives, Receives
    <3>4. Acknowledged(w, p)
      BY <3>2 DEF Acknowledged
    <3>5. /\ r.op = "RRQ" /\ r.state = "serves" /\ r.peer = c /\ r.name = me.name
          /\ r.block = n + 1 /\ r.pos = n + 1 /\ r.retries = 0
      BY <1>1, <2>1, <2>2, <3>2, <3>4 DEF Shape
    <3> HIDE DEF r
    <3>6. n + 1 \in 1..me.block
      BY <1>3, <1>4, <2>2, <2>4, <3>1
        DEF DownloadAlone, DownloadClient, Taken, Positions
    <3>7. ASSUME NEW q \in net, q # p
          PROVE  ServedPacket(me, c, n + 1, q)
      <4>1. PICK j \in 1..n : IsChunkOf(q, c, me.name, j)
        BY <2>2, <3>1, <3>7 DEF ServedPacket, IsAckOf
      <4>2. j \in 1..(n + 1)
        BY <1>4, <2>2
      <4> QED
        BY <4>1, <4>2 DEF ServedPacket
    <3> HIDE DEF me, n
    <3>8. /\ r.block = r.pos /\ r.block \in 1..client[c].block
          /\ r.name = client[c].name /\ client[c].op = "download"
          /\ \A q \in net \ {p} : ServedPacket(client[c], c, r.block, q)
      BY <1>3, <3>5, <3>6, <3>7 DEF me
    <3>9. net' = (net \ {p}) \cup
            {Data(c, Server, r.block, Chunk(r.name, r.pos), r.retries)}
      BY <3>3, <3>5
    <3> QED
      BY <1>1, <1>2, <3>3, <3>5, <3>8, <3>9, ServesNext
  <2> QED
    BY <2>3, <2>4
<1> QED
  BY <1>5, <1>6, <1>7
-----------------------------------------------------------------------------
(* The client of a download. *)

LEMMA FileIsSequence ==
    ASSUME NEW name
    PROVE  /\ File(name) \in Seq({Chunk(name, i) : i \in Positions})
           /\ Len(File(name)) = Last /\ Last \in Nat /\ Last >= 1
           /\ \A i \in Positions : File(name)[i] = Chunk(name, i)
<1>1. Last \in Nat /\ Last >= 1
  BY SizesAreNatural DEF Last
<1> QED
  BY <1>1 DEF File, Positions

LEMMA OneMore ==
    ASSUME NEW S, NEW F \in Seq(S), NEW k \in 1..Len(F)
    PROVE  Append(SubSeq(F, 1, k - 1), F[k]) = SubSeq(F, 1, k)
<1> DEFINE s == SubSeq(F, 1, k - 1)
           t == SubSeq(F, 1, k)
<1>1. /\ s \in Seq(S) /\ Len(s) = k - 1
      /\ \A i \in 1..(k - 1) : s[i] = F[i]
  OBVIOUS
<1>2. /\ t \in Seq(S) /\ Len(t) = k /\ \A i \in 1..k : t[i] = F[i]
  OBVIOUS
<1>3. F[k] \in S
  OBVIOUS
<1> HIDE DEF s, t
<1> DEFINE a == Append(s, F[k])
<1>4. /\ a \in Seq(S) /\ Len(a) = k
      /\ \A i \in 1..k : a[i] = IF i = k THEN F[k] ELSE s[i]
  BY <1>1, <1>3
<1> HIDE DEF a
<1>5. a = t
  BY <1>1, <1>2, <1>4
<1> QED
  BY <1>5 DEF a, s, t

LEMMA FileGrows ==
    ASSUME NEW name, NEW k \in Positions
    PROVE  Append(SubSeq(File(name), 1, k - 1), Chunk(name, k))
            = SubSeq(File(name), 1, k)
<1> DEFINE F == File(name)
           S == {Chunk(name, i) : i \in Positions}
<1>1. F \in Seq(S) /\ k \in 1..Len(F) /\ F[k] = Chunk(name, k)
  BY FileIsSequence DEF Positions
<1> HIDE DEF F, S
<1>2. Append(SubSeq(F, 1, k - 1), F[k]) = SubSeq(F, 1, k)
  BY <1>1, OneMore
<1> QED
  BY <1>1, <1>2 DEF F

LEMMA SoloDownloads ==
    ASSUME Shape, NEW c \in Clients, Solo(c), Downloads(c)
    PROVE  Solo(c)'
<1>1. /\ client[c].status = "idle" /\ client[c].op = "none"
      /\ client[c] = Nothing /\ net = {} /\ Nobody
      /\ UNCHANGED <<worker, disk>>
  BY DEF Downloads, Shape, Solo
<1>2. PICK name :
        /\ Turn(c, [client[c] EXCEPT !.op = "download", !.status = "waiting",
                                     !.name = name, !.block = 1])
        /\ net' = net \cup {Request(c, "RRQ", name)}
  BY DEF Downloads
<1> DEFINE r == [client[c] EXCEPT !.op = "download", !.status = "waiting",
                                  !.name = name, !.block = 1]
           q == Request(c, "RRQ", name)
<1>3. client'[c] = r /\ net' = {q}
  BY <1>1, <1>2 DEF Turn, Shape
<1>4. /\ r.op = "download" /\ r.status = "waiting" /\ r.name = name
      /\ r.block = 1 /\ r.file = <<>>
  BY <1>1 DEF Nothing
<1> HIDE DEF r
<1>5. Nobody' /\ OneThread'
  BY <1>1 DEF Nobody, OneThread, Active
<1>6. DownloadClient(r)
  <2>1. Taken(r) = 0 /\ 1 \in Positions
    BY <1>4, SizesAreNatural DEF Taken, Positions, Last
  <2>2. SubSeq(File(name), 1, 0) = <<>>
    BY FileIsSequence
  <2> QED
    BY <1>4, <2>1, <2>2 DEF DownloadClient, Statuses
<1>7. DownloadAlone(c)'
  <2>1. q.kind = "RRQ" /\ DownloadPacket(r, c, q) /\ NotBegun(r, 1)
    BY <1>4 DEF Request, Packet, DownloadPacket, NotBegun
  <2> HIDE DEF q
  <2> QED
    BY <1>3, <1>5, <1>6, <2>1
      DEF DownloadAlone, DownloadClient, DownloadPacket, Taken, NotBegun, Nobody,
          IsAckOf, IsChunkOf
<1> QED
  BY <1>1, <1>3, <1>4, <1>5, <1>7 DEF Solo

LEMMA SoloDownloadTakes ==
    ASSUME Shape, NEW c \in Clients, Solo(c), NEW p \in net, DownloadTakes(c, p)
    PROVE  Solo(c)'
<1> USE ServerIsNoClient DEF Server
<1> DEFINE me == client[c]
           k == me.block
           name == me.name
           ack == Ack(Server, c, Decode(p.arg))
           r == [client[c] EXCEPT
                   !.file = Append(@, p.chunk),
                   !.block = IF IsFinal(p.chunk) THEN @ ELSE @ + 1,
                   !.status = IF IsFinal(p.chunk) THEN "complete" ELSE @]
<1>1. /\ me.status = "waiting" /\ me.op = "download" /\ p.to = c
      /\ p.kind = "DATA" /\ Decode(p.arg) = k
      /\ net' = (net \ {p}) \cup {ack} /\ UNCHANGED <<worker, disk>>
  BY DEF DownloadTakes, Waits, Expected, Receives
<1>2. client'[c] = r
  BY DEF DownloadTakes, Turn, Shape
<1>3. DownloadAlone(c)
  BY <1>1 DEF Solo
<1>4. /\ k \in Positions /\ k \in 1..Last /\ Last \in Nat
      /\ me.file = SubSeq(File(name), 1, k - 1)
      /\ Taken(me) = k - 1
  BY <1>1, <1>3, FileIsSequence DEF DownloadAlone, DownloadClient, Taken, Positions
\* It is the block that was sent last, read back as it was numbered.
<1>5. \A i \in 1..k : IsChunkOf(p, c, name, i) => i = k
  <2> SUFFICES ASSUME NEW i \in 1..k, IsChunkOf(p, c, name, i) PROVE i = k
    OBVIOUS
  <2>1. Decode(OnWire(i)) <= i /\ Decode(OnWire(i)) = k
    BY <1>1, <1>4, DecodeAtMost DEF IsChunkOf
  <2> QED
    BY <1>4, <2>1
<1>6. IsChunkOf(p, c, name, k) /\ Decode(OnWire(k)) = k
  <2>1. DownloadPacket(me, c, p)
    BY <1>3 DEF DownloadAlone
  <2>2. PICK i \in 1..k : IsChunkOf(p, c, name, i)
    BY <1>1, <2>1 DEF DownloadPacket, Request, Error, IsAckOf, Ack, Packet
  <2> QED
    BY <1>1, <1>5, <2>2 DEF IsChunkOf
<1>7. p.chunk = Chunk(name, k) /\ (IsFinal(p.chunk) <=> k = Last)
  BY <1>6 DEF IsChunkOf, IsFinal, Chunk
<1>8. /\ r.op = "download" /\ r.name = name
      /\ r.file = Append(me.file, p.chunk)
      /\ r.block = IF k = Last THEN k ELSE k + 1
      /\ r.status = IF k = Last THEN "complete" ELSE "waiting"
  BY <1>1, <1>7 DEF Shape
<1>9. IsAckOf(ack, c, k) /\ ack.kind = "ACK"
  BY <1>1, <1>6 DEF IsAckOf, Ack, Packet
<1> HIDE DEF r, ack
<1>10. Taken(r) = k
  BY <1>4, <1>8 DEF Taken
<1>11. DownloadClient(r)
  <2>1. r.file = SubSeq(File(name), 1, k)
    BY <1>4, <1>7, <1>8, FileGrows
  <2>2. r.block \in Positions /\ (r.status = "complete" => r.block = Last)
    BY <1>4, <1>8 DEF Positions
  <2> QED
    BY <1>8, <1>10, <2>1, <2>2 DEF DownloadClient, Statuses
<1>12. \A q \in net : q.kind # "RRQ"
  BY <1>1, <1>3 DEF DownloadAlone
<1>13. ASSUME NEW q \in net'
       PROVE  DownloadPacket(r, c, q) /\ q.kind # "RRQ"
  <2>1. CASE q = ack
    <3>1. k \in 1..Taken(r)
      BY <1>4, <1>10
    <3> QED
      BY <1>9, <2>1, <3>1 DEF DownloadPacket
  <2>2. CASE q \in net
    <3>1. DownloadPacket(me, c, q) /\ q.kind # "RRQ"
      BY <1>3, <1>12, <2>2 DEF DownloadAlone
    <3>2. \A i \in 1..k : i \in 1..r.block
      BY <1>4, <1>8
    <3>3. \A i \in 1..Taken(me) : i \in 1..Taken(r)
      BY <1>4, <1>10
    <3> QED
      BY <1>8, <3>1, <3>2, <3>3 DEF DownloadPacket
  <2> QED
    BY <1>1, <2>1, <2>2
<1>14. ASSUME NEW w \in Workers, Active(w)
       PROVE  DownloadThread(w, client[c], c)'
  <2>1. DownloadThread(w, me, c)
    BY <1>3, <1>14 DEF DownloadAlone
  <2> DEFINE n == worker[w].block
  <2>2. /\ worker[w].state = "serves" /\ n = worker[w].pos /\ n \in 1..k
        /\ \A q \in net : ServedPacket(me, c, n, q)
    BY <2>1 DEF DownloadThread
  <2>3. PICK i \in 1..n : IsChunkOf(p, c, name, i)
    BY <1>1, <2>2 DEF ServedPacket, IsAckOf, Ack, Packet
  <2>4. n = k
    <3>1. i \in 1..k
      BY <1>4, <2>2
    <3>2. i = k
      BY <1>5, <2>3, <3>1
    <3> QED
      BY <1>4, <2>2, <3>2
  <2>5. ASSUME NEW q \in net' PROVE ServedPacket(r, c, k, q)
    <3>1. CASE q = ack
      BY <1>4, <1>9, <1>10, <3>1 DEF ServedPacket
    <3>2. CASE q \in net
      <4>1. ServedPacket(me, c, k, q)
        BY <2>2, <2>4, <3>2
      <4>2. ~(k <= Taken(me))
        BY <1>4
      <4> QED
        BY <1>8, <4>1, <4>2 DEF ServedPacket
    <3> QED
      BY <1>1, <3>1, <3>2
  <2>6. k \in 1..r.block
    BY <1>4, <1>8
  <2>7. worker'[w] = worker[w]
    BY <1>1
  <2>8. /\ worker[w].op = "RRQ" /\ worker[w].peer = c /\ worker[w].name = r.name
    BY <1>8, <2>1 DEF DownloadThread
  <2> QED
    BY <1>2, <2>2, <2>4, <2>5, <2>6, <2>7, <2>8
      DEF DownloadThread, ServedPacket, IsAckOf, IsChunkOf, Taken
<1>15. DownloadAlone(c)'
  BY <1>1, <1>2, <1>11, <1>13, <1>14
    DEF DownloadAlone, DownloadClient, DownloadPacket, Taken, IsAckOf, IsChunkOf,
        Active
<1>16. OneThread'
  BY <1>1 DEF Solo, OneThread, Active
<1> QED
  BY <1>1, <1>2, <1>8, <1>15, <1>16 DEF Solo

LEMMA SoloDownloadFails ==
    ASSUME Shape, NEW c \in Clients, Solo(c), NEW p \in net, DownloadFails(c, p)
    PROVE  Solo(c)'
<1> DEFINE me == client[c]
           r == client'[c]
<1>1. /\ me.status = "waiting" /\ me.op = "download" /\ p.kind = "ERROR"
      /\ net' = net \ {p} /\ UNCHANGED <<worker, disk>>
      /\ r = [me EXCEPT !.status = "failed"]
  BY DEF DownloadFails, Waits, Receives, Shape
<1>2. /\ r.op = "download" /\ r.status = "failed" /\ r.name = me.name
      /\ r.block = me.block /\ r.file = me.file
  BY <1>1 DEF Shape
<1> HIDE DEF r
<1>3. DownloadAlone(c)
  BY <1>1 DEF Solo
<1>4. Taken(r) = Taken(me)
  BY <1>1, <1>2 DEF Taken
<1>5. DownloadClient(r)
  BY <1>1, <1>2, <1>3, <1>4 DEF DownloadAlone, DownloadClient, Statuses
<1>6. Nobody
  <2>1. \A q \in net, n \in Int : ServedPacket(me, c, n, q) => q.kind # "ERROR"
    BY DEF ServedPacket, IsChunkOf, IsAckOf, Ack, Packet
  <2>2. me.block \in Int
    BY <1>3 DEF DownloadAlone, DownloadClient, Positions
  <2> QED
    BY <1>1, <1>3, <2>1, <2>2 DEF DownloadAlone, DownloadThread, Nobody
<1>7. ASSUME NEW q \in net'
      PROVE  DownloadPacket(r, c, q) /\ q.kind # "RRQ"
  BY <1>1, <1>2, <1>3, <1>4 DEF DownloadAlone, DownloadPacket
<1>8. Nobody' /\ OneThread'
  BY <1>1, <1>6 DEF Nobody, OneThread, Active
<1>9. DownloadAlone(c)'
  BY <1>5, <1>7, <1>8
    DEF DownloadAlone, DownloadClient, DownloadPacket, Taken, Nobody, r
<1> QED
  BY <1>1, <1>2, <1>8, <1>9 DEF Solo, r
-----------------------------------------------------------------------------
(* The thread and the client of an upload. *)

LEMMA SoloWriteStarts ==
    ASSUME Shape, NEW c \in Clients, Solo(c), NEW w \in Workers, WriteStarts(w)
    PROVE  Solo(c)'
<1> DEFINE me == client[c]
           r == [worker[w] EXCEPT !.state = "serves", !.block = 1]
           ack == Ack(c, Server, 0)
<1>1. /\ worker[w].op = "WRQ" /\ worker[w].state = "created"
      /\ Become(w, r) /\ UNCHANGED client
      /\ net' = net \cup {Ack(worker[w].peer, Server, 0)}
      /\ disk' = [disk EXCEPT ![worker[w].name] = [i \in Positions |-> None]]
  BY DEF WriteStarts, In
<1>2. Active(w)
  BY <1>1 DEF Active
<1>3. /\ me.op = "upload" /\ UploadAlone(c) /\ UploadThread(w, me, c)
      /\ \A v \in Workers : v # w => ~Active(v)
  BY <1>1, <1>2, ActiveIsOfClient DEF DownloadThread
<1>4. /\ net = {} /\ me.status = "waiting" /\ me.block = 0
      /\ worker[w].peer = c /\ worker[w].name = c
  BY <1>1, <1>3 DEF UploadThread, NotBegun
<1>5. worker'[w] = r /\ \A v \in Workers : v # w => worker'[v] = worker[v]
  BY <1>1, ThreadBecomes
<1>6. r.op = "WRQ" /\ r.peer = c /\ r.name = c /\ r.state = "serves" /\ r.block = 1
  BY <1>1, <1>4 DEF Shape
<1> HIDE DEF r
<1>7. net' = {ack} /\ disk'[c] = [i \in Positions |-> None]
  BY <1>1, <1>4 DEF Shape
<1>8. (\A v \in Workers : v # w => ~Active(v)') /\ OneThread'
  BY <1>3, <1>5 DEF Active, OneThread
<1>9. ack.kind = "ACK" /\ Decode(OnWire(0)) = 0
  BY NumberOfZero DEF Ack, Packet
<1>10. UploadClient(client[c], c)'
  BY <1>1, <1>3, <1>4 DEF UploadAlone, UploadClient
<1>11. UploadThread(w, client[c], c)'
  BY <1>1, <1>4, <1>5, <1>6, <1>7, <1>9 DEF UploadThread, OnDisk
<1>12. \A q \in net' : UploadPacket(client[c], c, q)'
  BY <1>1, <1>4, <1>7, <1>9 DEF UploadPacket, OnDisk
<1>13. \A q \in net' : q.kind # "WRQ"
  BY <1>7, <1>9
<1>14. UploadAlone(c)'
  BY <1>8, <1>10, <1>11, <1>12, <1>13 DEF UploadAlone
<1>15. disk'[c] = [i \in Positions |-> disk'[c][i]]
  BY <1>7
<1> QED
  BY <1>1, <1>3, <1>8, <1>14, <1>15 DEF Solo

LEMMA SoloWriteTakes ==
    ASSUME Shape, NEW c \in Clients, Solo(c), NEW w \in Workers, NEW p \in net,
           WriteTakes(w, p)
    PROVE  Solo(c)'
<1> DEFINE me == client[c]
           k == me.block
           r == IF IsFinal(p.chunk) THEN Idle
                ELSE [worker[w] EXCEPT !.block = @ + 1, !.retries = 0]
           ack == Ack(c, Server, k)
<1>1. /\ worker[w].op = "WRQ" /\ worker[w].state = "serves"
      /\ p.kind = "DATA" /\ Decode(p.arg) = worker[w].block
      /\ Become(w, r) /\ UNCHANGED client
      /\ net' = (net \ {p}) \cup {Ack(p.from, Server, Decode(p.arg))}
      /\ disk' = [disk EXCEPT ![worker[w].name][worker[w].block] = p.chunk]
  BY DEF WriteTakes, WaitedFor, In, Receives
<1>2. Active(w)
  BY <1>1 DEF Active
<1>3. /\ me.op = "upload" /\ UploadAlone(c) /\ UploadThread(w, me, c)
      /\ \A v \in Workers : v # w => ~Active(v)
  BY <1>1, <1>2, ActiveIsOfClient DEF DownloadThread
<1>4. /\ worker[w].block = k /\ k # 0 /\ \A q \in net : q.kind = "DATA"
      /\ worker[w].peer = c /\ worker[w].name = c
  BY <1>1, <1>3 DEF UploadThread
<1>5. k \in Positions /\ k \in Int /\ k >= 1
  BY <1>3, <1>4, SizesAreNatural
    DEF UploadAlone, UploadClient, Positions, Last
<1>6. \A q \in net : q = Data(Server, c, k, Chunk(c, k), 0)
  <2>1. \A q \in net : UploadPacket(me, c, q)
    BY <1>3 DEF UploadAlone
  <2> QED
    BY <1>4, <2>1 DEF UploadPacket, Request, Error, Ack, Packet
<1>7. /\ p.from = c /\ p.arg = OnWire(k) /\ p.chunk = Chunk(c, k)
  BY <1>6 DEF Data, Packet
<1>8. Decode(OnWire(k)) = k
  BY <1>1, <1>4, <1>7
<1>9. net' = {ack}
  BY <1>1, <1>4, <1>6, <1>7
<1>10. ack.kind = "ACK"
  BY DEF Ack, Packet
<1>11. /\ disk'[c] = [disk[c] EXCEPT ![k] = Chunk(c, k)]
       /\ disk[c] = [i \in Positions |-> disk[c][i]]
  BY <1>1, <1>4, <1>7 DEF Shape, Solo
<1>12. /\ disk'[c] = [i \in Positions |-> disk'[c][i]]
       /\ \A i \in Positions :
            disk'[c][i] = IF i = k THEN Chunk(c, k) ELSE disk[c][i]
  BY <1>5, <1>11
<1>13. disk[c] = File(c) => disk'[c] = File(c)
  BY <1>11, <1>12 DEF File
<1>14. worker'[w] = r /\ \A v \in Workers : v # w => worker'[v] = worker[v]
  BY <1>1, ThreadBecomes
<1>15. \/ r.state = "idle"
       \/ /\ r.op = "WRQ" /\ r.peer = c /\ r.name = c /\ r.state = "serves"
          /\ r.block = k + 1
  BY <1>1, <1>4 DEF Shape, Idle
<1> HIDE DEF r, ack
<1>16. (\A v \in Workers : v # w => ~Active(v)') /\ OneThread'
  BY <1>3, <1>14 DEF Active, OneThread
<1>17. UploadClient(client[c], c)'
  <2>1. ASSUME NEW i \in 1..(k - 1) PROVE disk'[c][i] = Chunk(c, i)
    <3>1. disk[c][i] = Chunk(c, i)
      BY <1>3 DEF UploadAlone, UploadClient
    <3>2. i \in Positions /\ i # k
      BY <1>5, SizesAreNatural DEF Positions, Last
    <3> QED
      BY <1>12, <3>1, <3>2
  <2> QED
    BY <1>1, <1>3, <1>13, <2>1 DEF UploadAlone, UploadClient
<1>18. disk'[c][k] = Chunk(c, k)
  BY <1>5, <1>12
<1>19. Active(w)' => UploadThread(w, client[c], c)'
  BY <1>1, <1>9, <1>10, <1>14, <1>15, <1>18 DEF UploadThread, OnDisk, Active
<1>20. \A q \in net' : UploadPacket(client[c], c, q)' /\ q.kind # "WRQ"
  BY <1>1, <1>8, <1>9, <1>10, <1>18 DEF UploadPacket, OnDisk, ack
<1>21. UploadAlone(c)'
  BY <1>16, <1>17, <1>19, <1>20 DEF UploadAlone
<1> QED
  BY <1>1, <1>3, <1>12, <1>16, <1>21 DEF Solo

LEMMA SoloUploads ==
    ASSUME Shape, NEW c \in Clients, Solo(c), Uploads(c)
    PROVE  Solo(c)'
<1> DEFINE r == [client[c] EXCEPT !.op = "upload", !.status = "waiting",
                                  !.name = c]
           q == Request(c, "WRQ", c)
<1>1. /\ client[c] = Nothing /\ net = {} /\ Nobody
      /\ UNCHANGED <<worker, disk>>
  BY DEF Uploads, Shape, Solo
<1>2. client'[c] = r /\ net' = {q}
  BY <1>1 DEF Uploads, Turn, Shape
<1>3. r.op = "upload" /\ r.status = "waiting" /\ r.block = 0
  BY <1>1 DEF Nothing
<1> HIDE DEF r
<1>4. Nobody' /\ OneThread'
  BY <1>1 DEF Nobody, OneThread, Active
<1>5. UploadClient(client[c], c)'
  BY <1>2, <1>3, SizesAreNatural DEF UploadClient, Statuses, Last
<1>6. q.kind = "WRQ"
  BY DEF Request, Packet
<1>7. UploadAlone(c)'
  BY <1>2, <1>3, <1>4, <1>5, <1>6
    DEF UploadAlone, UploadPacket, NotBegun, Nobody
<1> QED
  BY <1>1, <1>2, <1>3, <1>4, <1>7 DEF Solo

LEMMA SoloUploadSends ==
    ASSUME Shape, NEW c \in Clients, Solo(c), NEW p \in net, UploadSends(c, p)
    PROVE  Solo(c)'
<1> USE ServerIsNoClient DEF Server
<1> DEFINE me == client[c]
           k == me.block
           r == client'[c]
           data == Data(Server, c, k + 1, Chunk(c, k + 1), 0)
<1>1. /\ me.status = "waiting" /\ me.op = "upload" /\ p.kind = "ACK"
      /\ k < Last /\ r = [me EXCEPT !.block = @ + 1]
      /\ UNCHANGED <<worker, disk>>
  BY DEF UploadSends, Waits, AckWaitedFor, Shape
<1>2. r.op = "upload" /\ r.status = "waiting" /\ r.block = k + 1
  BY <1>1 DEF Shape
<1> HIDE DEF r
<1>3. net' = (net \ {p}) \cup {data}
  BY <1>2 DEF UploadSends, Receives, r
<1>4. UploadAlone(c)
  BY <1>1 DEF Solo
<1>5. k \in 0..Last /\ Last \in Nat
  BY <1>4, SizesAreNatural DEF UploadAlone, UploadClient, Last
<1>6. /\ p = Ack(c, Server, k) /\ OnDisk(c, k)
      /\ \A q \in net : q.kind = "ACK"
  <2>1. UploadPacket(me, c, p)
    BY <1>4 DEF UploadAlone
  <2> QED
    BY <1>1, <2>1 DEF UploadPacket, Request, Error, Data, Packet
<1>7. \A q \in net : q = p
  <2>1. \A q \in net : UploadPacket(me, c, q)
    BY <1>4 DEF UploadAlone
  <2> QED
    BY <1>6, <2>1 DEF UploadPacket, Request, Error, Data, Packet
<1>8. net' = {data}
  BY <1>3, <1>7
<1>9. data.kind = "DATA" /\ k + 1 # 0 /\ k + 1 \in 0..Last
  BY <1>1, <1>5 DEF Data, Packet
<1> HIDE DEF data
<1>10. UploadClient(client[c], c)'
  <2>1. ASSUME NEW i \in 1..k PROVE disk[c][i] = Chunk(c, i)
    <3>1. CASE i = k
      BY <1>5, <1>6, <3>1 DEF OnDisk
    <3>2. CASE i # k
      <4>1. i \in 1..(k - 1)
        BY <1>5, <3>2
      <4> QED
        BY <1>4, <4>1 DEF UploadAlone, UploadClient
    <3> QED
      BY <3>1, <3>2
  <2>2. \A i \in 1..(r.block - 1) : disk'[c][i] = Chunk(c, i)
    BY <1>1, <1>2, <1>5, <2>1
  <2>3. r.status \in Statuses /\ r.status # "complete" /\ r.block \in 0..Last
    BY <1>2, <1>9 DEF Statuses
  <2> QED
    BY <2>2, <2>3 DEF UploadClient, r
<1>11. ASSUME NEW w \in Workers, Active(w)
       PROVE  UploadThread(w, client[c], c)'
  <2>1. UploadThread(w, me, c)
    BY <1>4, <1>11 DEF UploadAlone
  <2>2. worker[w].state = "serves" /\ worker[w].block = k + 1
    BY <1>1, <2>1 DEF UploadThread
  <2>3. worker'[w] = worker[w]
    BY <1>1
  <2> QED
    BY <1>2, <1>8, <1>9, <2>1, <2>2, <2>3 DEF UploadThread, r
<1>12. \A q \in net' : UploadPacket(client[c], c, q)' /\ q.kind # "WRQ"
  BY <1>2, <1>8, <1>9 DEF UploadPacket, r, data
<1>13. UploadAlone(c)'
  BY <1>1, <1>10, <1>11, <1>12 DEF UploadAlone, Active, r
<1>14. OneThread'
  BY <1>1 DEF Solo, OneThread, Active
<1> QED
  BY <1>1, <1>2, <1>13, <1>14 DEF Solo, r

\* The wait does not break off: what arrives is the acknowledgement of the
\* last block, or the refusal of the request.
LEMMA SoloUploadEnds ==
    ASSUME Shape, NEW c \in Clients, Solo(c), NEW p \in net, UploadEnds(c, p)
    PROVE  Solo(c)'
<1> USE ServerIsNoClient DEF Server
<1> DEFINE me == client[c]
           k == me.block
           r == client'[c]
<1>1. /\ me.status = "waiting" /\ me.op = "upload" /\ p.to = c
      /\ AckWaitedFor(c, p) => k = Last
      /\ r = [me EXCEPT !.status = IF k = 0 THEN "failed" ELSE "complete"]
      /\ net' = net \ {p} /\ UNCHANGED <<worker, disk>>
  BY DEF UploadEnds, Waits, Receives, Shape
<1>2. /\ r.op = "upload" /\ r.block = k
      /\ r.status = IF k = 0 THEN "failed" ELSE "complete"
  BY <1>1 DEF Shape
<1> HIDE DEF r
<1>3. UploadAlone(c)
  BY <1>1 DEF Solo
<1>4. k \in 0..Last /\ Last \in Nat
  BY <1>3, SizesAreNatural DEF UploadAlone, UploadClient, Last
<1>5. k = 0 \/ (k = Last /\ OnDisk(c, k))
  <2>1. UploadPacket(me, c, p)
    BY <1>3 DEF UploadAlone
  <2>2. \/ k = 0
        \/ /\ p = Ack(c, Server, k) /\ Decode(OnWire(k)) = k /\ OnDisk(c, k)
    BY <1>1, <2>1 DEF UploadPacket, Request, Data, Packet
  <2>3. p = Ack(c, Server, k) => p.kind = "ACK" /\ p.arg = OnWire(k)
    BY DEF Ack, Packet
  <2> QED
    BY <1>1, <2>2, <2>3 DEF AckWaitedFor
<1>6. k # 0 => disk[c] = File(c)
  <2> SUFFICES ASSUME k # 0 PROVE disk[c] = File(c)
    OBVIOUS
  <2>1. ASSUME NEW i \in Positions PROVE disk[c][i] = Chunk(c, i)
    <3>1. i = Last \/ i \in 1..(k - 1)
      BY <1>4, <1>5 DEF Positions
    <3> QED
      BY <1>3, <1>5, <3>1 DEF UploadAlone, UploadClient, OnDisk
  <2>2. disk[c] = [i \in Positions |-> disk[c][i]]
    BY DEF Solo
  <2> QED
    BY <2>1, <2>2 DEF File
<1>7. UploadClient(client[c], c)'
  BY <1>1, <1>2, <1>3, <1>6 DEF UploadAlone, UploadClient, Statuses, r
<1>8. ASSUME NEW w \in Workers, Active(w)
      PROVE  UploadThread(w, client[c], c)'
  <2>1. UploadThread(w, me, c) /\ worker[w].state = "serves"
    BY <1>3, <1>8 DEF UploadAlone, UploadThread
  <2> QED
    BY <1>1, <1>2, <2>1 DEF UploadThread, OnDisk, r
<1>9. ASSUME NEW q \in net'
      PROVE  UploadPacket(client[c], c, q)' /\ q.kind # "WRQ"
  <2>1. q \in net /\ q # p /\ UploadPacket(me, c, q) /\ q.kind # "WRQ"
    BY <1>1, <1>3 DEF UploadAlone
  <2> QED
    BY <1>1, <1>2, <2>1 DEF UploadPacket, OnDisk, r
<1>10. UploadAlone(c)'
  BY <1>1, <1>7, <1>8, <1>9 DEF UploadAlone, Active
<1>11. OneThread'
  BY <1>1 DEF Solo, OneThread, Active
<1> QED
  BY <1>1, <1>2, <1>10, <1>11 DEF Solo, r
-----------------------------------------------------------------------------
(* A client that is alone stays intact. *)

\* Whoever is not idle when only c is not, was not idle before; so only c steps.
LEMMA OnlyTheOne ==
    ASSUME Shape, NEW c \in Clients, Alone(c), Alone(c)',
           NEW d \in Clients, Client(d)
    PROVE  d = c
<1> SUFFICES ASSUME d # c PROVE FALSE
  OBVIOUS
<1>1. client[d].status = "idle" /\ client'[d].status = "idle"
  BY DEF Alone
<1>2. Downloads(d) \/ Uploads(d)
  BY <1>1 DEF Client, DownloadTakes, DownloadIgnores, DownloadFails,
              UploadSends, UploadEnds, Waits
<1>3. client'[d].status = "waiting"
  BY <1>2 DEF Downloads, Uploads, Turn, Shape
<1> QED
  BY <1>1, <1>3

LEMMA AloneBefore ==
    ASSUME IInv, NEW c \in Clients, [Next]_vars, Alone(c)'
    PROVE  Alone(c)
<1>1. copies' = 0 /\ copies = 0
  <2>1. copies' = copies \/ copies' = copies + 1
    BY DEF Next, vars, Main, Thread, Client, Network, MainStarts, MainDrops,
           ReadStarts, WriteStarts, WriteRefused, ReadTimesOut, WriteTimesOut,
           ReadReceives, WriteTakes, WriteIgnores, Downloads, Uploads,
           DownloadTakes, DownloadIgnores, DownloadFails, UploadSends,
           UploadEnds, Lose, Duplicate
  <2>2. copies' = 0
    BY DEF Alone
  <2> QED
    BY <2>1, <2>2 DEF IInv
<1>2. Core
  BY <1>1 DEF IInv
<1>3. ASSUME NEW d \in Clients \ {c} PROVE client[d].status = "idle"
  <2> SUFFICES ASSUME client[d].status # "idle" PROVE FALSE
    OBVIOUS
  <2>1. client'[d].status # "idle"
    <3>1. CASE UNCHANGED client
      BY <3>1
    <3>2. ASSUME NEW e \in Clients, Client(e) PROVE client'[d].status # "idle"
      <4>1. Shape
        BY <1>2 DEF Core
      <4>2. CASE Downloads(e) \/ Uploads(e)
        BY <4>1, <4>2 DEF Downloads, Uploads, Turn, Shape
      <4>3. ASSUME NEW p \in net, DownloadTakes(e, p)
            PROVE  client'[d].status # "idle"
        BY <4>1, <4>3 DEF DownloadTakes, Waits, Turn, Shape
      <4>4. ASSUME NEW p \in net, DownloadIgnores(e, p) \/ DownloadFails(e, p)
            PROVE  client'[d].status # "idle"
        BY <4>1, <4>4 DEF DownloadIgnores, DownloadFails, Shape
      <4>5. ASSUME NEW p \in net, UploadSends(e, p)
            PROVE  client'[d].status # "idle"
        <5>1. client' = [client EXCEPT ![e].block = @ + 1]
          BY <4>5 DEF UploadSends
        <5> QED
          BY <4>1, <5>1 DEF Shape
      <4>6. ASSUME NEW p \in net, UploadEnds(e, p)
            PROVE  client'[d].status # "idle"
        <5>1. client' = [client EXCEPT ![e].status =
                            IF client[e].block = 0 THEN "failed" ELSE "complete"]
          BY <4>6 DEF UploadEnds
        <5> QED
          BY <4>1, <5>1 DEF Shape
      <4> QED
        BY <3>2, <4>2, <4>3, <4>4, <4>5, <4>6 DEF Client
    <3> QED
      BY <3>1, <3>2
        DEF Next, vars, Main, Thread, Network, MainStarts, MainDrops,
            ReadStarts, WriteStarts, WriteRefused, ReadTimesOut, WriteTimesOut,
            ReadReceives, WriteTakes, WriteIgnores, Lose, Duplicate
  <2> QED
    BY <2>1 DEF Alone
<1> QED
  BY <1>1, <1>3 DEF Alone

LEMMA SoloKeeps ==
    ASSUME IInv, NEW c \in Clients, Alone(c), Alone(c)', Solo(c), [Next]_vars
    PROVE  Solo(c)'
<1>1. copies = 0 /\ copies' = 0 /\ Shape
  BY DEF Alone, IInv, Core
<1>2. ASSUME UNCHANGED <<worker, client, disk>>, net' \subseteq net
      PROVE  Solo(c)'
  BY <1>2, QuietSteps DEF GoesOn
<1>3. CASE Main
  <2>1. PICK p \in net : MainStarts(p) \/ MainDrops(p)
    BY <1>3 DEF Main
  <2>2. CASE MainStarts(p)
    BY <1>1, <2>2, SoloStarts
  <2>3. CASE MainDrops(p)
    BY <1>2, <2>3 DEF MainDrops, Receives
  <2> QED
    BY <2>1, <2>2, <2>3
<1>4. ASSUME NEW w \in Workers, Thread(w) PROVE Solo(c)'
  <2>1. CASE \/ ReadStarts(w) \/ ReadTimesOut(w)
             \/ \E p \in net : p.to = Server /\ ReadReceives(w, p)
    BY <1>1, <2>1, SoloReads
  <2>2. CASE WriteStarts(w)
    BY <1>1, <2>2, SoloWriteStarts
  <2>3. CASE WriteRefused(w)
    BY <1>1, <2>3, SoloRefused DEF WriteRefused, In
  <2>4. ASSUME NEW p \in net, WriteTakes(w, p) PROVE Solo(c)'
    BY <1>1, <2>4, SoloWriteTakes
  <2>5. ASSUME NEW p \in net, WriteIgnores(w, p) PROVE Solo(c)'
    <3>1. /\ Become(w, [worker[w] EXCEPT !.retries = 0])
          /\ net' \subseteq net /\ UNCHANGED <<client, disk>>
      BY <2>5 DEF WriteIgnores, Receives
    <3> QED
      BY <1>1, <3>1, ThreadQuiet
  <2>6. CASE WriteTimesOut(w)
    <3> DEFINE r == IF worker[w].retries < MaxRetries
                    THEN [worker[w] EXCEPT !.retries = @ + 1] ELSE Idle
    <3>1. Become(w, r) /\ net' \subseteq net /\ UNCHANGED <<client, disk>>
      BY <2>6 DEF WriteTimesOut
    <3>2. r = Idle \/ \E n : r = [worker[w] EXCEPT !.retries = n]
      OBVIOUS
    <3> HIDE DEF r
    <3> QED
      BY <1>1, <3>1, <3>2, ThreadQuiet
  <2> QED
    BY <1>4, <2>1, <2>2, <2>3, <2>4, <2>5, <2>6 DEF Thread
<1>5. ASSUME NEW d \in Clients, Client(d) PROVE Solo(c)'
  <2>1. Client(c)
    BY <1>1, <1>5, OnlyTheOne
  <2>2. ASSUME NEW p \in net, DownloadIgnores(c, p) PROVE Solo(c)'
    BY <1>2, <2>2 DEF DownloadIgnores, Receives
  <2> QED
    BY <1>1, <2>1, <2>2, SoloDownloads, SoloDownloadTakes, SoloDownloadFails,
       SoloUploads, SoloUploadSends, SoloUploadEnds DEF Client
<1>6. CASE Network
  <2>1. PICK p \in net : Lose(p) \/ Duplicate(p)
    BY <1>6 DEF Network
  <2>2. ~Duplicate(p)
    BY <1>1 DEF Duplicate
  <2> QED
    BY <1>2, <2>1, <2>2 DEF Lose, Receives
<1>7. CASE UNCHANGED vars
  BY <1>2, <1>7 DEF vars
<1> QED
  BY <1>3, <1>4, <1>5, <1>6, <1>7 DEF Next

LEMMA SoloAtFirst == Init => \A c \in Clients : Solo(c)
<1> SUFFICES ASSUME Init, NEW c \in Clients PROVE Solo(c)
  OBVIOUS
<1>1. \A w \in Workers : ~Active(w)
  BY DEF Init, Idle, Active
<1>2. client[c] = Nothing /\ net = {} /\ disk[c] = [i \in Positions |-> None]
  BY DEF Init, Nothing
<1>3. client[c].op = "none"
  BY <1>2 DEF Nothing
<1> QED
  BY <1>1, <1>2, <1>3 DEF Solo, OneThread, Nobody

LEMMA SoloIsIntact ==
    ASSUME NEW c \in Clients, Solo(c)
    PROVE  LET file == client[c].file
           IN  CASE client[c].op = "download" ->
                      /\ file = SubSeq(File(client[c].name), 1, Len(file))
                      /\ client[c].status = "complete" => Len(file) = Last
                 [] client[c].op = "upload" ->
                      client[c].status = "complete" => disk[c] = File(c)
                 [] OTHER -> TRUE
<1> DEFINE me == client[c]
           file == me.file
<1>1. CASE me.op = "download"
  <2>1. DownloadClient(me)
    BY <1>1 DEF Solo, DownloadAlone
  <2> DEFINE n == Taken(me)
             F == File(me.name)
             S == {Chunk(me.name, i) : i \in Positions}
  <2>2. n \in 0..Last /\ (me.status = "complete" => n = Last)
    BY <2>1, SizesAreNatural DEF DownloadClient, Taken, Positions, Last
  <2>3. F \in Seq(S) /\ Len(F) = Last
    BY FileIsSequence
  <2>4. file = SubSeq(F, 1, n)
    BY <2>1 DEF DownloadClient
  <2> HIDE DEF F, S, n
  <2>5. Len(SubSeq(F, 1, n)) = n
    BY <2>2, <2>3
  <2>6. /\ file = SubSeq(File(me.name), 1, Len(file))
        /\ me.status = "complete" => Len(file) = Last
    BY <2>2, <2>4, <2>5 DEF F
  <2> QED
    BY <1>1, <2>6
<1>2. CASE me.op = "upload"
  <2>1. me.status = "complete" => disk[c] = File(c)
    BY <1>2 DEF Solo, UploadAlone, UploadClient
  <2> QED
    BY <1>2, <2>1
<1>3. CASE me.op \notin {"download", "upload"}
  BY <1>3
<1> QED
  BY <1>1, <1>2, <1>3

\* A client that is alone is served intact (AloneIntact): as long as no other
\* client has asked for anything and no datagram comes twice, what it has
\* downloaded is the file from its beginning, for a transfer it reports
\* complete all of it, and an upload it reports complete is the whole file on
\* the server's disk; although a thread that is sent a wrong number goes on
\* under the same one, and a client whose wait breaks off says it is done.
THEOREM AloneIsIntact == Spec => []AloneIntact
<1>1. Init => AInv
  BY InitEstablishes, SoloAtFirst DEF AInv
<1>2. AInv /\ [Next]_vars => AInv'
  <2> SUFFICES ASSUME AInv, [Next]_vars PROVE AInv'
    OBVIOUS
  <2>1. IInv'
    BY NextKeeps DEF AInv
  <2>2. ASSUME NEW c \in Clients, Alone(c)' PROVE Solo(c)'
    BY <2>2, AloneBefore, SoloKeeps DEF AInv
  <2> QED
    BY <2>1, <2>2 DEF AInv
<1>3. AInv => AloneIntact
  BY SoloIsIntact, Zenon DEF AInv, AloneIntact
<1> QED
  BY <1>1, <1>2, <1>3, PTL DEF Spec
=============================================================================

---------------------------- MODULE LegacyThreads ----------------------------
(***************************************************************************)
(* The legacy server, legacy/TFTP_Server.c, with the legacy client,        *)
(* legacy/TFTP_Client.c.  The server's main loop starts a thread for each  *)
(* request, and the main loop and every thread receive from one socket:    *)
(* which of them gets a datagram is up to the kernel.                      *)
(***************************************************************************)
EXTENDS LegacyBlock, Sequences, FiniteSets

CONSTANTS
    Clients,        \* client processes, one operation each, by their address
    Workers,        \* threads the system can run at once
    Stored,         \* names of the files the server starts with
    Absent,         \* names it has no file for
    None,
    Full,           \* a file is Full whole blocks and a last, shorter one
    MaxRetries,     \* MAX_RETRIES
    MaxCopies       \* bound: datagrams the network duplicates

ASSUME SizesAreNatural == {Full, MaxRetries, MaxCopies} \subseteq Nat
ASSUME ServerIsNoClient == "server" \notin Clients

VARIABLES
    worker,         \* the threads
    client,         \* the client processes
    disk,           \* per uploaded name: its file, None where nothing is written
    net,            \* datagrams on their way or in the socket's queue
    copies          \* datagrams duplicated so far

vars == <<worker, client, disk, net, copies>>

Server == "server"
Last == Full + 1
\* Block i of a file; a client uploads a file under a name of its own.
Chunk(name, i) == <<name, i>>
Positions == 1..Last
Idle == [state |-> "idle", op |-> "none", peer |-> None, name |-> None,
         block |-> 0, pos |-> 0, retries |-> 0]

Init ==
    /\ worker = [w \in Workers |-> Idle]
    /\ client = [c \in Clients |-> [op |-> "none", status |-> "idle",
                                    name |-> None, block |-> 0, file |-> <<>>]]
    /\ disk = [c \in Clients |-> [i \in Positions |-> None]]
    /\ net = {}
    /\ copies = 0

\* The address a datagram comes from is part of it; `try' tells a block that
\* is sent again from the first one, and `copy' the copies the network makes.
Packet(to, from, kind, arg, chunk, try) ==
    [to |-> to, from |-> from, kind |-> kind, arg |-> arg, chunk |-> chunk,
     try |-> try, copy |-> 0]
Request(c, kind, name) == Packet(Server, c, kind, name, None, 0)
Ack(to, from, block) == Packet(to, from, "ACK", OnWire(block), None, 0)
Data(to, from, block, chunk, try) ==
    Packet(to, from, "DATA", OnWire(block), chunk, try)
Error(to) == Packet(to, Server, "ERROR", 0, None, 0)

IsFinal(chunk) == chunk[2] = Last
Receives(p, packets) == net' = (net \ {p}) \cup packets
-----------------------------------------------------------------------------
(* The server's main loop. *)

\* A request gets a thread with a copy of its address and name, unless no
\* thread can be created.
MainStarts(p) ==
    /\ p.kind \in {"RRQ", "WRQ"}
    /\ \E w \in Workers :
        /\ worker[w].state = "idle"
        /\ worker' = [worker EXCEPT ![w] =
               [Idle EXCEPT !.state = "created", !.op = p.kind,
                            !.peer = p.from, !.name = p.arg]]
    /\ Receives(p, {})
    /\ UNCHANGED <<client, disk, copies>>

\* A request for which pthread_create fails, and any other datagram the main
\* loop gets before the thread that waits for it, is dropped.
MainDrops(p) ==
    /\ Receives(p, {})
    /\ UNCHANGED <<worker, client, disk, copies>>
-----------------------------------------------------------------------------
(* The thread of a read request. *)

In(w, op, state) == worker[w].op = op /\ worker[w].state = state
Become(w, record) == worker' = [worker EXCEPT ![w] = record]

\* The block the thread sends and waits for: chunk pos of the file.
Sends(w, record) ==
    /\ Become(w, record)
    /\ net' = net \cup {Data(record.peer, Server, record.block,
                             Chunk(record.name, record.pos), record.retries)}

ReadStarts(w) ==
    /\ In(w, "RRQ", "created")
    /\ IF worker[w].name \in Stored
       THEN Sends(w, [worker[w] EXCEPT !.state = "serves", !.block = 1, !.pos = 1])
       ELSE /\ Become(w, Idle)
            /\ net' = net \cup {Error(worker[w].peer)}
    /\ UNCHANGED <<client, disk, copies>>

Acknowledged(w, p) == p.kind = "ACK" /\ Decode(p.arg) = worker[w].block

\* recvfrom overwrites the address the thread sends to.  An acknowledgement
\* of the block moves on to the next number; any other datagram falls out of
\* the loop's body as well, and the next chunk goes out under the same number.
ReadReceives(w, p) ==
    /\ In(w, "RRQ", "serves")
    /\ IF worker[w].pos = Last
       THEN Become(w, Idle) /\ Receives(p, {})
       ELSE LET next == [worker[w] EXCEPT
                    !.peer = p.from, !.pos = @ + 1, !.retries = 0,
                    !.block = IF Acknowledged(w, p) THEN @ + 1 ELSE @]
            IN  /\ Become(w, next)
                /\ Receives(p, {Data(next.peer, Server, next.block,
                                     Chunk(next.name, next.pos), 0)})
    /\ UNCHANGED <<client, disk, copies>>

\* Mutant: a timeout leaves the loop's body as other datagrams do.
ReadTimesOutAndMovesOn(w) ==
    /\ In(w, "RRQ", "serves")
    /\ IF worker[w].retries < MaxRetries /\ worker[w].pos < Last
       THEN Sends(w, [worker[w] EXCEPT !.retries = @ + 1, !.pos = @ + 1])
       ELSE Become(w, Idle) /\ UNCHANGED net
    /\ UNCHANGED <<client, disk, copies>>
\* Mutant: the retries are not counted.
ReadTimesOutForEver(w) ==
    /\ In(w, "RRQ", "serves")
    /\ Sends(w, worker[w])
    /\ UNCHANGED <<client, disk, copies>>
\* The socket's receive timeout: the block is sent again, or given up.
ReadTimesOut(w) ==
    /\ In(w, "RRQ", "serves")
    /\ IF worker[w].retries < MaxRetries
       THEN Sends(w, [worker[w] EXCEPT !.retries = @ + 1])
       ELSE Become(w, Idle) /\ UNCHANGED net
    /\ UNCHANGED <<client, disk, copies>>
-----------------------------------------------------------------------------
(* The thread of a write request. *)

\* fopen truncates the file; block 0 is acknowledged.
WriteStarts(w) ==
    /\ In(w, "WRQ", "created")
    /\ Become(w, [worker[w] EXCEPT !.state = "serves", !.block = 1])
    /\ disk' = [disk EXCEPT ![worker[w].name] = [i \in Positions |-> None]]
    /\ net' = net \cup {Ack(worker[w].peer, Server, 0)}
    /\ UNCHANGED <<client, copies>>

WriteRefused(w) ==
    /\ In(w, "WRQ", "created")
    /\ Become(w, Idle)
    /\ net' = net \cup {Error(worker[w].peer)}
    /\ UNCHANGED <<client, disk, copies>>

WaitedFor(w, p) == p.kind = "DATA" /\ Decode(p.arg) = worker[w].block

\* The block that is waited for is written and acknowledged to its sender,
\* whoever that is; the last one ends the thread.
WriteTakes(w, p) ==
    /\ In(w, "WRQ", "serves") /\ WaitedFor(w, p)
    /\ disk' = [disk EXCEPT ![worker[w].name][worker[w].block] = p.chunk]
    /\ Receives(p, {Ack(p.from, Server, Decode(p.arg))})
    /\ Become(w, IF IsFinal(p.chunk) THEN Idle
                 ELSE [worker[w] EXCEPT !.block = @ + 1, !.retries = 0])
    /\ UNCHANGED <<client, copies>>

\* Mutant: a block that was not waited for is acknowledged too.
WriteAcknowledges(w, p) ==
    /\ In(w, "WRQ", "serves") /\ ~WaitedFor(w, p)
    /\ Become(w, [worker[w] EXCEPT !.retries = 0])
    /\ Receives(p, IF p.kind = "DATA" THEN {Ack(p.from, Server, Decode(p.arg))}
                   ELSE {})
    /\ UNCHANGED <<client, disk, copies>>
\* Any other datagram is reported, and clears the count of timeouts.
WriteIgnores(w, p) ==
    /\ In(w, "WRQ", "serves") /\ ~WaitedFor(w, p)
    /\ Become(w, [worker[w] EXCEPT !.retries = 0])
    /\ Receives(p, {})
    /\ UNCHANGED <<client, disk, copies>>

\* Nothing is sent again: the thread waits on, or gives up.
WriteTimesOut(w) ==
    /\ In(w, "WRQ", "serves")
    /\ Become(w, IF worker[w].retries < MaxRetries
                 THEN [worker[w] EXCEPT !.retries = @ + 1] ELSE Idle)
    /\ UNCHANGED <<client, disk, net, copies>>

\* What a thread does without a choice of its own; SO_RCVTIMEO bounds its wait.
Thread(w) ==
    \/ ReadStarts(w) \/ WriteStarts(w) \/ WriteRefused(w)
    \/ ReadTimesOut(w) \/ WriteTimesOut(w)
    \/ \E p \in net : /\ p.to = Server
                      /\ \/ ReadReceives(w, p)
                         \/ WriteTakes(w, p) \/ WriteIgnores(w, p)
-----------------------------------------------------------------------------
(* The client. *)

Waits(c, op, p) ==
    client[c].status = "waiting" /\ client[c].op = op /\ p.to = c

Turn(c, record) == client' = [client EXCEPT ![c] = record]

Downloads(c) ==
    /\ client[c].status = "idle"
    /\ \E name \in Stored \cup Absent :
        /\ Turn(c, [client[c] EXCEPT !.op = "download", !.status = "waiting",
                                     !.name = name, !.block = 1])
        /\ net' = net \cup {Request(c, "RRQ", name)}
    /\ UNCHANGED <<worker, disk, copies>>

Expected(c, p) == p.kind = "DATA" /\ Decode(p.arg) = client[c].block

DownloadTakes(c, p) ==
    /\ Waits(c, "download", p) /\ Expected(c, p)
    /\ Turn(c, [client[c] EXCEPT
           !.file = Append(@, p.chunk),
           !.block = IF IsFinal(p.chunk) THEN @ ELSE @ + 1,
           !.status = IF IsFinal(p.chunk) THEN "complete" ELSE @])
    /\ Receives(p, {Ack(Server, c, Decode(p.arg))})
    /\ UNCHANGED <<worker, disk, copies>>

DownloadIgnores(c, p) ==
    /\ Waits(c, "download", p) /\ ~Expected(c, p) /\ p.kind # "ERROR"
    /\ Receives(p, {})
    /\ UNCHANGED <<worker, client, disk, copies>>

DownloadFails(c, p) ==
    /\ Waits(c, "download", p) /\ p.kind = "ERROR"
    /\ client' = [client EXCEPT ![c].status = "failed"]
    /\ Receives(p, {})
    /\ UNCHANGED <<worker, disk, copies>>

Uploads(c) ==
    /\ client[c].status = "idle"
    /\ Turn(c, [client[c] EXCEPT !.op = "upload", !.status = "waiting",
                                 !.name = c])
    /\ net' = net \cup {Request(c, "WRQ", c)}
    /\ UNCHANGED <<worker, disk, copies>>

AckWaitedFor(c, p) == p.kind = "ACK" /\ Decode(p.arg) = client[c].block

UploadSends(c, p) ==
    /\ Waits(c, "upload", p) /\ AckWaitedFor(c, p) /\ client[c].block < Last
    /\ client' = [client EXCEPT ![c].block = @ + 1]
    /\ Receives(p, {Data(Server, c, client'[c].block,
                         Chunk(c, client'[c].block), 0)})
    /\ UNCHANGED <<worker, disk, copies>>

\* After the last block the upload is reported complete; and so it is when
\* the wait for an acknowledgement breaks off, once block 0 was acknowledged.
UploadEnds(c, p) ==
    /\ Waits(c, "upload", p)
    /\ AckWaitedFor(c, p) => client[c].block = Last
    /\ client' = [client EXCEPT
           ![c].status = IF client[c].block = 0 THEN "failed" ELSE "complete"]
    /\ Receives(p, {})
    /\ UNCHANGED <<worker, disk, copies>>

Client(c) ==
    \/ Downloads(c) \/ Uploads(c)
    \/ \E p \in net : \/ DownloadTakes(c, p) \/ DownloadIgnores(c, p)
                      \/ DownloadFails(c, p)
                      \/ UploadSends(c, p) \/ UploadEnds(c, p)
-----------------------------------------------------------------------------
(* The network: external. *)

Lose(p) ==
    /\ Receives(p, {})
    /\ UNCHANGED <<worker, client, disk, copies>>

Duplicate(p) ==
    /\ copies < MaxCopies
    /\ copies' = copies + 1
    /\ net' = net \cup {[p EXCEPT !.copy = copies']}
    /\ UNCHANGED <<worker, client, disk>>

Network == \E p \in net : Lose(p) \/ Duplicate(p)

Main == \E p \in net : p.to = Server /\ (MainStarts(p) \/ MainDrops(p))

Next ==
    \/ Main
    \/ \E w \in Workers : Thread(w)
    \/ \E c \in Clients : Client(c)
    \/ Network

\* A thread that was created runs, and recvfrom returns: with a datagram or,
\* two seconds later, without.  Nothing else is promised: the network may lose
\* everything, and a client may wait for ever.
Spec == Init /\ [][Next]_vars /\ \A w \in Workers : WF_vars(Thread(w))
-----------------------------------------------------------------------------
(* Properties *)

File(name) == [i \in Positions |-> Chunk(name, i)]

\* While a client is the only one, and no datagram comes twice, the sharing of
\* the socket does no harm: what it has downloaded is the file from its
\* beginning, whatever is lost and sent again, and a transfer that it reports
\* complete left the whole file on its disk or on the server's.
Alone(c) ==
    copies = 0 /\ \A d \in Clients \ {c} : client[d].status = "idle"
AloneIntact == \A c \in Clients : Alone(c) =>
    LET file == client[c].file
    IN  CASE client[c].op = "download" ->
               /\ file = SubSeq(File(client[c].name), 1, Len(file))
               /\ client[c].status = "complete" => Len(file) = Last
          [] client[c].op = "upload" ->
               client[c].status = "complete" => disk[c] = File(c)
          [] OTHER -> TRUE

\* Several uploads at once may be mixed up, but nothing that was acknowledged
\* is dropped: a block whose acknowledgement a client went on from is on the
\* server's disk, at its position, in the file of some client.
AcknowledgedIsStored ==
    copies = 0 =>
        \A c \in Clients : client[c].op = "upload" =>
            \A i \in 1..(client[c].block - 1) :
                \E d \in Clients : disk[d][i] = Chunk(c, i)

\* No thread outlives its clients' datagrams for long: the receive timeout
\* and the bound on retries end it, so that a thread is available again.
WorkersEnd == \A w \in Workers : []<>(worker[w].state = "idle")

\* "File download complete." is printed for a complete file.
DownloadCompleteIsWhole == \A c \in Clients :
    client[c].op = "download" /\ client[c].status = "complete" =>
        client[c].file = File(client[c].name)
=============================================================================

------------------------------ MODULE TftpPacket ------------------------------
(***************************************************************************)
(* Reading and building packets (tftp_packet.c).  A byte is a number below *)
(* ByteMod, a packet the sequence of the bytes that were received, or that *)
(* a builder says it has written.                                          *)
(***************************************************************************)
EXTENDS Integers, Sequences

CONSTANTS
    ByteMod,        \* values of a byte
    Lower,          \* the letters: upper-case bytes to their lower-case ones
    Octet,          \* the name of the one mode, in lower case
    NameSize,       \* sizeof(request->filename): a name and its NUL
    BlockSize,      \* TFTP_BLOCK_SIZE
    BufferSizes,    \* of the buffers that callers have packets built in
    Inputs,         \* what arrives
    Blocks, Payloads, Messages      \* what packets are built of

Byte == 0..(ByteMod - 1)

ASSUME Sizes ==
    /\ {ByteMod, NameSize, BlockSize} \subseteq Nat \ {0}
    /\ BufferSizes \subseteq Nat

\* The mode is a word of letters; NUL is no letter.
ASSUME ModeIsAWord ==
    /\ Octet # <<>> /\ Octet \in Seq(Byte \ {0})
    /\ 0 \notin DOMAIN Lower

\* Packets and texts are bytes, and a block number or an error code is two.
ASSUME DataIsBytes ==
    /\ Inputs \cup Payloads \cup Messages \subseteq Seq(Byte)
    /\ Blocks \subseteq 0..(ByteMod * ByteMod - 1)

VARIABLES
    bytes,      \* the packet
    status,     \* what the last call returned
    request,    \* the caller's opcode and tftp_request_t
    asked,      \* what the last call was to build a packet of
    room        \* the size of the buffer it was to build it in

vars == <<bytes, status, request, asked, room>>

RRQ == 1
WRQ == 2
DATA == 3
ACK == 4
ERROR == 5

ASSUME OpcodesAreBytes == ERROR \in Byte

Nothing == [opcode |-> 0, block |-> 0, payload |-> <<>>]

NoRequest == [opcode |-> 0, filename |-> <<>>]

Init ==
    /\ bytes = <<>> /\ status = "idle"
    /\ request = NoRequest /\ asked = Nothing /\ room = 0
-----------------------------------------------------------------------------
(* tftp_packet_parse *)

\* read_u16_be and write_u16_be
ReadU16(b, i) == b[i] * ByteMod + b[i + 1]
WriteU16(n) == <<(n \div ByteMod) % ByteMod, n % ByteMod>>

Opcode(b) == ReadU16(b, 1)
IsRequest(b) == Opcode(b) \in {RRQ, WRQ}

ParseStatus(b) ==
    CASE Len(b) < 2 -> "INVALID_PACKET"
      [] Len(b) >= 2 /\ IsRequest(b) ->
            IF Len(b) < 6 THEN "INVALID_PACKET" ELSE "OK"
      [] Len(b) >= 2 /\ Opcode(b) = DATA ->
            IF Len(b) < 4 \/ Len(b) > 4 + BlockSize
            THEN "INVALID_PACKET" ELSE "OK"
      [] Len(b) >= 2 /\ Opcode(b) = ACK ->
            IF Len(b) # 4 THEN "INVALID_PACKET" ELSE "OK"
      [] Len(b) >= 2 /\ Opcode(b) = ERROR ->
            IF Len(b) < 5 \/ b[Len(b)] # 0 THEN "INVALID_PACKET" ELSE "OK"
      [] OTHER -> "INVALID_OPCODE"

\* The packet a successful parse describes.
Parsed(b) ==
    [opcode  |-> Opcode(b),
     block   |-> IF IsRequest(b) THEN 0 ELSE ReadU16(b, 3),
     payload |-> SubSeq(b, IF IsRequest(b) THEN 3 ELSE 5, Len(b))]
-----------------------------------------------------------------------------
(* tftp_packet_parse_request *)

\* i is where the scan for a NUL that starts at `from' ends.
ScanEnds(b, from, i) ==
    /\ i \in from..Len(b) + 1
    /\ \A j \in from..(i - 1) : b[j] # 0
    /\ i <= Len(b) => b[i] = 0
NextNul(b, from) == CHOOSE i \in from..Len(b) + 1 : ScanEnds(b, from, i)

\* Mutant: a name may fill the array.
NameFitsExactly(b) ==
    LET end == NextNul(b, 3) IN end <= Len(b) /\ end - 3 \in 1..NameSize
NameFits(b) ==
    LET end == NextNul(b, 3)
    IN  end <= Len(b) /\ end - 3 \in 1..(NameSize - 1)

ToLower(c) == IF c \in DOMAIN Lower THEN Lower[c] ELSE c
IsOctetMode(mode) ==
    /\ Len(mode) = Len(Octet)
    /\ \A i \in 1..Len(mode) : ToLower(mode[i]) = Octet[i]

Name(b) == SubSeq(b, 3, NextNul(b, 3) - 1)
ModeStart(b) == NextNul(b, 3) + 1
ModeEnd(b) == NextNul(b, ModeStart(b))

RequestStatus(b) ==
    CASE ParseStatus(b) # "OK" -> ParseStatus(b)
      [] ParseStatus(b) = "OK" /\ ~IsRequest(b) -> "INVALID_OPCODE"
      [] OTHER ->
            IF ~NameFits(b) THEN "INVALID_PACKET"
            ELSE IF ModeEnd(b) > Len(b) \/ ModeEnd(b) = ModeStart(b)
            THEN "INVALID_PACKET"
            ELSE IF ModeEnd(b) # Len(b)
                    \/ ~IsOctetMode(SubSeq(b, ModeStart(b), ModeEnd(b) - 1))
            THEN "PROTOCOL" ELSE "OK"

Receive ==
    /\ status = "idle"
    /\ bytes' \in Inputs
    /\ status' = "received"
    /\ UNCHANGED <<request, asked, room>>

ReadRequest ==
    /\ status = "received"
    /\ status' = RequestStatus(bytes)
    /\ request' = IF status' = "OK"
                  THEN [opcode |-> Opcode(bytes), filename |-> Name(bytes)]
                  ELSE request
    /\ UNCHANGED <<bytes, asked, room>>
-----------------------------------------------------------------------------
(* The builders. *)

AckBytes(block) == WriteU16(ACK) \o WriteU16(block)
DataBytes(block, data) == WriteU16(DATA) \o WriteU16(block) \o data
\* Mutant: the terminating NUL is counted, and not written.
ErrorBytesUnterminated(code, message) ==
    WriteU16(ERROR) \o WriteU16(code) \o message \o <<ByteMod - 1>>
ErrorBytes(code, message) ==
    WriteU16(ERROR) \o WriteU16(code) \o message \o <<0>>

\* The lengths that the builders work out before they write anything.
AckLength == 4
DataLength(data) == 4 + Len(data)
\* Mutant: strlen does not count the NUL, and nothing else does.
ErrorLengthOfText(message) == 4 + Len(message)
ErrorLength(message) == 4 + Len(message) + 1

BuildCalled(fields, size) ==
    /\ status = "idle"
    /\ asked' = fields /\ room' = size
    /\ UNCHANGED request

\* The packet is as much of what was written as the builder says it is.
Writes(written, length) ==
    IF room' < length
    THEN status' = "NO_RESOURCE" /\ UNCHANGED bytes
    ELSE status' = "OK" /\ bytes' = SubSeq(written, 1, length)

BuildAck(block, size) ==
    /\ BuildCalled([opcode |-> ACK, block |-> block, payload |-> <<>>], size)
    /\ Writes(AckBytes(block), AckLength)
BuildData(block, data, size) ==
    /\ BuildCalled([opcode |-> DATA, block |-> block, payload |-> data], size)
    /\ IF Len(data) > BlockSize
       THEN status' = "INVALID_ARGUMENT" /\ UNCHANGED bytes
       ELSE Writes(DataBytes(block, data), DataLength(data))
BuildError(code, message, size) ==
    /\ BuildCalled([opcode |-> ERROR, block |-> code,
                    payload |-> Append(message, 0)], size)
    /\ Writes(ErrorBytes(code, message), ErrorLength(message))

\* Every call of a handler has a buffer and a request of its own.
Return ==
    /\ status \notin {"idle", "received"}
    /\ bytes' = <<>> /\ status' = "idle"
    /\ request' = NoRequest /\ asked' = Nothing /\ room' = 0

Next ==
    \/ Receive
    \/ ReadRequest
    \/ \E n \in Blocks, size \in BufferSizes :
        \/ BuildAck(n, size)
        \/ \E d \in Payloads : BuildData(n, d, size)
        \/ \E m \in Messages : BuildError(n, m, size)
    \/ Return

Spec == Init /\ [][Next]_vars
-----------------------------------------------------------------------------
(* Properties *)

Word(w) == w # <<>> /\ \A i \in 1..Len(w) : w[i] # 0

\* A request as it is written down: opcode, name, NUL, mode, NUL, and nothing after it.
Request(op, name, mode) == <<0, op>> \o name \o <<0>> \o mode \o <<0>>

IsRequestOf(b, name, mode) ==
    /\ \E op \in {RRQ, WRQ} : b = Request(op, name, mode)
    /\ Word(name) /\ Len(name) < NameSize
    /\ IsOctetMode(mode)

\* A request is accepted when, and only when, it can be written down as a name
\* and a mode, in whatever case the mode is; the caller gets that name, and
\* nothing of a datagram that is refused, however much of it was understood.
RequestsExact ==
    bytes # <<>> /\ asked = Nothing /\ status # "received" =>
        LET name(n) == SubSeq(bytes, 3, n + 2)
            mode(n) == SubSeq(bytes, n + 4, Len(bytes) - 1)
            Lengths == {n \in 1..(Len(bytes) - 4) :
                            IsRequestOf(bytes, name(n), mode(n))}
        IN  /\ status = "OK" <=> Lengths # {}
            /\ Lengths = {} => request = NoRequest
            /\ \A n \in Lengths :
                request = [opcode |-> bytes[2], filename |-> name(n)]

\* What is built reads back: the parser of the other side finds the opcode,
\* the block or code, and the data that the packet was built of.
BuiltReadsBack ==
    asked # Nothing /\ status = "OK" =>
        ParseStatus(bytes) = "OK" /\ Parsed(bytes) = asked

\* A packet is built when, and only when, there is room for all of it: for the
\* two numbers of two bytes, and for the data, or the message with its NUL; no
\* buffer is written past its end, and one that is just large enough will do.
BuiltWhenItFits ==
    asked # Nothing =>
        LET size  == 4 + Len(asked.payload)
            block == asked.opcode = DATA => Len(asked.payload) <= BlockSize
        IN  /\ status = "OK" <=> block /\ size <= room
            /\ status = "OK" => Len(bytes) = size
=============================================================================

-------------------------- MODULE TftpPacket_proofs --------------------------
(***************************************************************************)
(* For packets of every length and bytes of every width: a request is      *)
(* accepted exactly when it can be written down as a name and a mode, a    *)
(* packet is built exactly when it fits, and what is built reads back.     *)
(***************************************************************************)
EXTENDS TftpPacket, WellFoundedInduction, TLAPS

LEMMA Bytes ==
    /\ ByteMod \in Nat /\ ByteMod > 5
    /\ NameSize \in Nat /\ BlockSize \in Nat
    /\ Byte \subseteq Nat /\ Byte = 0..(ByteMod - 1)
BY Sizes, OpcodesAreBytes DEF Byte, ERROR

LEMMA LeastNumber ==
    ASSUME NEW T \in SUBSET Nat, T # {}
    PROVE  \E x \in T : \A y \in T : x <= y
<1> DEFINE R == OpToRel(<, Nat)
<1>1. \A x, y \in Nat : x < y => <<x, y>> \in R
  BY DEF OpToRel
<1>2. IsWellFoundedOn(R, Nat)
  BY NatLessThanWellFounded
<1> HIDE DEF R
<1>3. PICK x \in T : \A y \in T : ~(<<y, x>> \in R)
  BY <1>2, WFMin, Zenon
<1>4. \A y \in T : ~(y < x)
  BY <1>1, <1>3, Zenon
<1> QED
  BY <1>4
-----------------------------------------------------------------------------
(* The scan for a NUL.  It always ends, and in one place.                  *)

LEMMA NextNulEnds ==
    ASSUME NEW b \in Seq(Byte), NEW from \in 1..(Len(b) + 1)
    PROVE  ScanEnds(b, from, NextNul(b, from))
<1> DEFINE T == {i \in from..(Len(b) + 1) : i <= Len(b) => b[i] = 0}
<1>1. T \in SUBSET Nat /\ Len(b) + 1 \in T
  OBVIOUS
<1>2. PICK x \in T : \A y \in T : x <= y
  BY <1>1, LeastNumber, Zenon
<1>3. ScanEnds(b, from, x) /\ x \in from..(Len(b) + 1)
  BY <1>2 DEF ScanEnds
<1> QED
  BY <1>3, Zenon DEF NextNul

LEMMA ScansEndTogether ==
    ASSUME NEW b \in Seq(Byte), NEW from \in 1..(Len(b) + 1),
           NEW i, ScanEnds(b, from, i), NEW j, ScanEnds(b, from, j)
    PROVE  i = j
<1>1. i \in Int /\ j \in Int /\ ~(i < j) /\ ~(j < i)
  BY DEF ScanEnds
<1> QED
  BY <1>1

LEMMA NextNulIs ==
    ASSUME NEW b \in Seq(Byte), NEW from \in 1..(Len(b) + 1),
           NEW i, ScanEnds(b, from, i)
    PROVE  NextNul(b, from) = i
BY NextNulEnds, ScansEndTogether, Zenon
-----------------------------------------------------------------------------
(* A request, byte by byte.                                                *)

ReadsAs(r, op, name, mode) ==
    /\ r \in Seq(Byte) /\ Len(r) = Len(name) + Len(mode) + 4
    /\ r[1] = 0 /\ r[2] = op
    /\ \A i \in 1..Len(name) : r[i + 2] = name[i]
    /\ r[Len(name) + 3] = 0
    /\ \A i \in 1..Len(mode) : r[Len(name) + 3 + i] = mode[i]
    /\ r[Len(r)] = 0

LEMMA RequestAt ==
    ASSUME NEW op \in Byte, NEW name \in Seq(Byte), NEW mode \in Seq(Byte)
    PROVE  ReadsAs(Request(op, name, mode), op, name, mode)
<1> DEFINE h == <<0, op>> \o name
           g == h \o <<0>>
           k == g \o mode
<1>1. 0 \in Byte
  BY Bytes
<1>2. /\ h \in Seq(Byte) /\ Len(h) = Len(name) + 2 /\ h[1] = 0 /\ h[2] = op
      /\ \A i \in 1..Len(name) : h[i + 2] = name[i]
  BY <1>1
<1> HIDE DEF h
<1>3. /\ g \in Seq(Byte) /\ Len(g) = Len(name) + 3 /\ g[1] = 0 /\ g[2] = op
      /\ \A i \in 1..Len(name) : g[i + 2] = name[i]
      /\ g[Len(name) + 3] = 0
  BY <1>1, <1>2
<1> HIDE DEF g
<1>4. /\ k \in Seq(Byte) /\ Len(k) = Len(name) + Len(mode) + 3
      /\ k[1] = 0 /\ k[2] = op
      /\ \A i \in 1..Len(name) : k[i + 2] = name[i]
      /\ k[Len(name) + 3] = 0
      /\ \A i \in 1..Len(mode) : k[Len(name) + 3 + i] = mode[i]
  BY <1>1, <1>3
<1> HIDE DEF k
<1> DEFINE r == k \o <<0>>
<1>5. /\ r \in Seq(Byte) /\ Len(r) = Len(name) + Len(mode) + 4
      /\ r[1] = 0 /\ r[2] = op
      /\ \A i \in 1..Len(name) : r[i + 2] = name[i]
      /\ r[Len(name) + 3] = 0
      /\ \A i \in 1..Len(mode) : r[Len(name) + 3 + i] = mode[i]
      /\ r[Len(r)] = 0
  BY <1>1, <1>4
<1>6. Request(op, name, mode) = r
  BY DEF Request, k, g, h
<1> QED
  BY <1>5, <1>6, Zenon DEF ReadsAs

LEMMA ProductGrows ==
    ASSUME NEW a \in Nat, NEW c \in Nat
    PROVE  a * c \in Nat /\ (a >= 1 => a * c >= c) /\ (a = 0 => a * c = 0)
<1>1. a * c \in Nat
  OBVIOUS
<1>2. a >= 1 => a * c >= c
  BY Z3
<1> QED
  BY <1>1, <1>2

\* A first byte of zero is the only one that a request's opcode can have.
LEMMA OpcodeIsSecond ==
    ASSUME NEW b \in Seq(Byte), Len(b) >= 2
    PROVE  /\ IsRequest(b) <=> b[1] = 0 /\ b[2] \in {RRQ, WRQ}
           /\ IsRequest(b) => Opcode(b) = b[2]
<1>1. b[1] \in Byte /\ b[2] \in Byte
  OBVIOUS
<1>2. b[1] \in Nat /\ b[2] \in Nat
  BY <1>1, Bytes
<1>3. /\ b[1] * ByteMod \in Nat
      /\ b[1] >= 1 => b[1] * ByteMod >= ByteMod
      /\ b[1] = 0 => b[1] * ByteMod = 0
  BY <1>2, Bytes, ProductGrows, Zenon
<1> DEFINE h == b[1] * ByteMod
<1>4. Opcode(b) = h + b[2]
  BY DEF Opcode, ReadU16
<1> HIDE DEF h
<1>5. h \in Nat /\ (b[1] >= 1 => h >= ByteMod) /\ (b[1] = 0 => h = 0)
  BY <1>3 DEF h
<1> QED
  BY <1>2, <1>4, <1>5, Bytes DEF IsRequest, RRQ, WRQ

LEMMA ModeHasNoNul ==
    ASSUME NEW mode \in Seq(Byte), IsOctetMode(mode)
    PROVE  Len(mode) >= 1 /\ \A i \in 1..Len(mode) : mode[i] # 0
<1>1. Len(Octet) >= 1 /\ \A i \in 1..Len(Octet) : Octet[i] # 0
  BY ModeIsAWord
<1>2. ToLower(0) = 0
  BY ModeIsAWord DEF ToLower
<1> QED
  BY <1>1, <1>2 DEF IsOctetMode
-----------------------------------------------------------------------------
(* What is accepted is what can be written down.                           *)

\* The name and the mode of a packet whose name is n bytes long.
NameOf(b, n) == SubSeq(b, 3, n + 2)
ModeOf(b, n) == SubSeq(b, n + 4, Len(b) - 1)
Lengths(b) == {n \in 1..(Len(b) - 4) : IsRequestOf(b, NameOf(b, n), ModeOf(b, n))}

LEMMA PartsAt ==
    ASSUME NEW b \in Seq(Byte), NEW n \in 1..(Len(b) - 4)
    PROVE  /\ NameOf(b, n) \in Seq(Byte) /\ Len(NameOf(b, n)) = n
           /\ \A i \in 1..n : NameOf(b, n)[i] = b[i + 2]
           /\ ModeOf(b, n) \in Seq(Byte)
           /\ Len(ModeOf(b, n)) = Len(b) - n - 4
           /\ \A i \in 1..(Len(b) - n - 4) : ModeOf(b, n)[i] = b[n + 3 + i]
<1>1. /\ NameOf(b, n) \in Seq(Byte) /\ Len(NameOf(b, n)) = n
      /\ \A i \in 1..n : NameOf(b, n)[i] = b[i + 2]
  BY DEF NameOf
<1> DEFINE lo == n + 4
           hi == Len(b) - 1
<1>2. lo \in 1..Len(b) /\ hi \in 1..Len(b) /\ hi >= lo - 1
  OBVIOUS
<1> HIDE DEF lo, hi
<1>3. /\ SubSeq(b, lo, hi) \in Seq(Byte) /\ Len(SubSeq(b, lo, hi)) = hi - lo + 1
      /\ \A i \in 1..(hi - lo + 1) : SubSeq(b, lo, hi)[i] = b[lo + i - 1]
  BY <1>2
<1>4. ModeOf(b, n) = SubSeq(b, lo, hi) /\ hi - lo + 1 = Len(b) - n - 4
  BY DEF ModeOf, lo, hi
<1>5. \A i \in 1..(Len(b) - n - 4) : lo + i - 1 = n + 3 + i
  BY DEF lo
<1> QED
  BY <1>1, <1>3, <1>4, <1>5

\* Which packets are requests, and how the checks of a packet end.
LEMMA RequestsParse ==
    ASSUME NEW b \in Seq(Byte)
    PROVE  /\ Len(b) >= 6 /\ IsRequest(b) => ParseStatus(b) = "OK"
           /\ ParseStatus(b) = "OK" /\ IsRequest(b) => Len(b) >= 6
BY DEF ParseStatus, IsRequest, RRQ, WRQ, DATA, ACK, ERROR

LEMMA RequestStatusOf ==
    ASSUME NEW b \in Seq(Byte)
    PROVE  RequestStatus(b) = "OK" <=>
            /\ ParseStatus(b) = "OK" /\ IsRequest(b)
            /\ NameFits(b)
            /\ ModeEnd(b) <= Len(b) /\ ModeEnd(b) # ModeStart(b)
            /\ ModeEnd(b) = Len(b)
            /\ IsOctetMode(SubSeq(b, ModeStart(b), ModeEnd(b) - 1))
BY DEF RequestStatus

\* Where the parts of a request that is written down begin and end.
LEMMA WrittenEnds ==
    ASSUME NEW b \in Seq(Byte), NEW n \in Lengths(b)
    PROVE  /\ NextNul(b, 3) = n + 3 /\ NextNul(b, n + 4) = Len(b)
           /\ n + 4 < Len(b) /\ n < NameSize
           /\ IsRequest(b) /\ Opcode(b) = b[2]
           /\ IsOctetMode(ModeOf(b, n))
<1> DEFINE name == NameOf(b, n)
           mode == ModeOf(b, n)
<1>1. n \in 1..(Len(b) - 4) /\ IsRequestOf(b, name, mode)
  BY DEF Lengths
<1>2. PICK op \in {RRQ, WRQ} : b = Request(op, name, mode)
  BY <1>1 DEF IsRequestOf
<1>3. op \in Byte
  BY Bytes DEF RRQ, WRQ
<1>4. /\ name \in Seq(Byte) /\ Len(name) = n
      /\ \A i \in 1..n : name[i] = b[i + 2]
      /\ mode \in Seq(Byte) /\ Len(mode) = Len(b) - n - 4
      /\ \A i \in 1..(Len(b) - n - 4) : mode[i] = b[n + 3 + i]
  BY <1>1, PartsAt, Zenon
<1>5. Word(name) /\ Len(name) < NameSize /\ IsOctetMode(mode)
  BY <1>1 DEF IsRequestOf
<1> HIDE DEF name, mode
<1>6. b[1] = 0 /\ b[2] = op /\ b[n + 3] = 0 /\ b[Len(b)] = 0
  BY <1>2, <1>3, <1>4, RequestAt DEF ReadsAs
<1>7. Len(mode) >= 1 /\ \A i \in 1..Len(mode) : mode[i] # 0
  BY <1>4, <1>5, ModeHasNoNul
<1>8. \A i \in 1..n : name[i] # 0
  BY <1>4, <1>5 DEF Word
<1>9. \A j \in 3..(n + 2) : b[j] # 0
  <2>1. \A j \in 3..(n + 2) : j - 2 \in 1..n /\ b[j] = name[j - 2]
    BY <1>1, <1>4
  <2> QED
    BY <1>8, <2>1
<1>10. \A j \in (n + 4)..(Len(b) - 1) : b[j] # 0
  <2>1. \A j \in (n + 4)..(Len(b) - 1) :
          j - (n + 3) \in 1..Len(mode) /\ b[j] = mode[j - (n + 3)]
    BY <1>1, <1>4
  <2> QED
    BY <1>7, <2>1
<1>11. NextNul(b, 3) = n + 3
  <2>1. ScanEnds(b, 3, n + 3) /\ 3 \in 1..(Len(b) + 1)
    BY <1>1, <1>6, <1>9 DEF ScanEnds
  <2> QED
    BY <2>1, NextNulIs
<1>12. NextNul(b, n + 4) = Len(b)
  <2>1. ScanEnds(b, n + 4, Len(b)) /\ n + 4 \in 1..(Len(b) + 1)
    BY <1>1, <1>6, <1>10 DEF ScanEnds
  <2> QED
    BY <2>1, NextNulIs
<1>13. IsRequest(b) /\ Opcode(b) = b[2]
  BY <1>1, <1>6, OpcodeIsSecond
<1> QED
  BY <1>1, <1>4, <1>5, <1>7, <1>11, <1>12, <1>13 DEF name, mode

LEMMA WrittenIsAccepted ==
    ASSUME NEW b \in Seq(Byte), NEW n \in Lengths(b)
    PROVE  /\ RequestStatus(b) = "OK"
           /\ Opcode(b) = b[2] /\ Name(b) = NameOf(b, n)
<1>1. n \in 1..(Len(b) - 4)
  BY DEF Lengths
<1>2. ParseStatus(b) = "OK"
  <2>1. IsRequest(b) /\ Len(b) >= 6
    BY <1>1, WrittenEnds
  <2> QED
    BY <2>1, RequestsParse
<1>3. ModeStart(b) = n + 4 /\ ModeEnd(b) = Len(b)
  BY <1>1, WrittenEnds DEF ModeStart, ModeEnd
<1>4. NameFits(b)
  <2>1. NextNul(b, 3) = n + 3 /\ n + 4 < Len(b) /\ n < NameSize
    BY WrittenEnds
  <2> QED
    BY <1>1, <2>1, Bytes DEF NameFits
<1>5. IsOctetMode(SubSeq(b, ModeStart(b), ModeEnd(b) - 1))
  BY <1>3, WrittenEnds DEF ModeOf
<1>6. Name(b) = NameOf(b, n)
  BY <1>1, WrittenEnds DEF Name, NameOf
<1>7. n + 4 < Len(b) /\ IsRequest(b) /\ Opcode(b) = b[2]
  BY WrittenEnds
<1>8. ModeEnd(b) <= Len(b) /\ ModeEnd(b) # ModeStart(b) /\ ModeEnd(b) = Len(b)
  BY <1>1, <1>3, <1>7
<1> QED
  BY <1>2, <1>4, <1>5, <1>6, <1>7, <1>8, RequestStatusOf

LEMMA AcceptedIsWritten ==
    ASSUME NEW b \in Seq(Byte), RequestStatus(b) = "OK"
    PROVE  Lengths(b) # {}
<1> DEFINE n == NextNul(b, 3) - 3
           name == NameOf(b, n)
           mode == ModeOf(b, n)
<1>1. ParseStatus(b) = "OK" /\ IsRequest(b)
  BY RequestStatusOf
<1>2. Len(b) >= 6
  BY <1>1, RequestsParse
<1>3. /\ NameFits(b) /\ ModeEnd(b) = Len(b) /\ ModeEnd(b) # ModeStart(b)
      /\ IsOctetMode(SubSeq(b, ModeStart(b), Len(b) - 1))
  BY RequestStatusOf, Zenon
<1>4. /\ NextNul(b, 3) \in 3..Len(b) /\ n \in 1..(NameSize - 1)
      /\ ScanEnds(b, 3, NextNul(b, 3))
  <2>1. ScanEnds(b, 3, NextNul(b, 3))
    BY <1>2, NextNulEnds
  <2>2. NextNul(b, 3) \in 3..(Len(b) + 1)
    BY <2>1 DEF ScanEnds
  <2>3. NextNul(b, 3) <= Len(b) /\ n \in 1..(NameSize - 1)
    BY <1>3 DEF NameFits
  <2> QED
    BY <2>1, <2>2, <2>3
<1>5. ModeStart(b) = n + 4 /\ n + 4 \in 1..(Len(b) + 1)
  BY <1>4 DEF ModeStart
<1>6. ScanEnds(b, n + 4, Len(b))
  BY <1>3, <1>5, NextNulEnds DEF ModeEnd
<1>7. n \in Int /\ n >= 1 /\ n < NameSize /\ n + 4 < Len(b)
  <2>1. Len(b) \in (n + 4)..(Len(b) + 1) /\ Len(b) # n + 4
    BY <1>3, <1>5, <1>6 DEF ScanEnds
  <2>2. n \in Int /\ n >= 1 /\ n < NameSize
    BY <1>4, Bytes
  <2> HIDE DEF n
  <2> QED
    BY <2>1, <2>2
<1>8. IsOctetMode(mode)
  BY <1>3, <1>5 DEF ModeOf
<1>9. /\ \A j \in 3..(n + 2) : b[j] # 0
      /\ b[n + 3] = 0 /\ b[Len(b)] = 0
  BY <1>2, <1>4, <1>6 DEF ScanEnds
<1>10. /\ b[1] = 0 /\ b[2] \in {RRQ, WRQ}
       /\ b[2] \in Byte
  BY <1>1, <1>2, OpcodeIsSecond
<1> HIDE DEF n
<1>11. n \in 1..(Len(b) - 4)
  BY <1>7
<1>12. /\ name \in Seq(Byte) /\ Len(name) = n
       /\ \A i \in 1..n : name[i] = b[i + 2]
       /\ mode \in Seq(Byte) /\ Len(mode) = Len(b) - n - 4
       /\ \A i \in 1..(Len(b) - n - 4) : mode[i] = b[n + 3 + i]
  BY <1>11, PartsAt, Zenon
<1> HIDE DEF name, mode
<1>13. Word(name) /\ Len(name) < NameSize
  <2>1. ASSUME NEW i \in 1..n PROVE name[i] # 0
    <3>1. i + 2 \in 3..(n + 2)
      BY <1>7
    <3>2. b[i + 2] # 0 /\ name[i] = b[i + 2]
      BY <1>9, <1>12, <3>1
    <3> QED
      BY <3>2
  <2>2. Len(name) = n /\ name # <<>> /\ Len(name) < NameSize
    BY <1>7, <1>12
  <2> QED
    BY <2>1, <2>2 DEF Word
<1> DEFINE r == Request(b[2], name, mode)
<1>14. /\ r \in Seq(Byte) /\ Len(r) = Len(b)
       /\ r[1] = 0 /\ r[2] = b[2]
       /\ \A i \in 1..n : r[i + 2] = name[i]
       /\ r[n + 3] = 0
       /\ \A i \in 1..Len(mode) : r[n + 3 + i] = mode[i]
       /\ r[Len(b)] = 0
  <2>1. ReadsAs(r, b[2], name, mode)
    BY <1>10, <1>12, RequestAt, Zenon
  <2> HIDE DEF r
  <2>2. Len(r) = Len(b)
    BY <1>7, <1>12, <2>1 DEF ReadsAs
  <2> QED
    BY <1>12, <2>1, <2>2 DEF ReadsAs
<1> HIDE DEF r
<1>15. ASSUME NEW e \in 1..Len(b) PROVE r[e] = b[e]
  <2>1. CASE e \in 1..2 \/ e = n + 3 \/ e = Len(b)
    BY <1>9, <1>10, <1>14, <2>1
  <2>2. CASE e \in 3..(n + 2)
    <3>1. e - 2 \in 1..n /\ (e - 2) + 2 = e
      BY <1>7, <2>2
    <3> QED
      BY <1>12, <1>14, <3>1
  <2>3. CASE e \in (n + 4)..(Len(b) - 1)
    <3> DEFINE j == e - (n + 3)
    <3>1. j \in 1..Len(mode) /\ j \in 1..(Len(b) - n - 4) /\ n + 3 + j = e
      BY <1>7, <1>12, <2>3
    <3> HIDE DEF j
    <3>2. r[n + 3 + j] = mode[j]
      BY <1>14, <3>1
    <3>3. mode[j] = b[n + 3 + j]
      BY <1>12, <3>1
    <3> QED
      BY <3>1, <3>2, <3>3
  <2> QED
    BY <1>7, <2>1, <2>2, <2>3
<1>16. b = r
  BY <1>14, <1>15
<1>17. IsRequestOf(b, name, mode)
  BY <1>8, <1>10, <1>13, <1>16 DEF IsRequestOf, r
<1> QED
  BY <1>11, <1>17 DEF Lengths, name, mode
-----------------------------------------------------------------------------
(* What the builders write.                                                *)

LEMMA Division ==
    ASSUME NEW n \in Nat, NEW c \in Nat, c > 0
    PROVE  /\ n \div c \in Nat /\ n % c \in 0..(c - 1)
           /\ n = (n \div c) * c + (n % c)
BY Z3

LEMMA QuotientOfTwoBytes ==
    ASSUME NEW q \in Nat, NEW r \in Nat, NEW c \in Nat, c > 0,
           q * c + r < c * c
    PROVE  q < c
<1>1. q >= c => q * c >= c * c
  BY Z3
<1>2. q * c \in Nat /\ c * c \in Nat
  OBVIOUS
<1> DEFINE x == q * c
           y == c * c
<1>3. x \in Nat /\ y \in Nat /\ (q >= c => x >= y) /\ x + r < y
  BY <1>1, <1>2
<1> HIDE DEF x, y
<1> QED
  BY <1>3

LEMMA RemainderOfSmall ==
    ASSUME NEW n \in Nat, NEW c \in Nat, n < c
    PROVE  n % c = n /\ n \div c = 0
BY Z3

\* Two bytes hold a number below the square of what one holds.
LEMMA NumberWritten ==
    ASSUME NEW n \in 0..(ByteMod * ByteMod - 1)
    PROVE  /\ WriteU16(n) \in Seq(Byte) /\ Len(WriteU16(n)) = 2
           /\ WriteU16(n)[1] * ByteMod + WriteU16(n)[2] = n
<1> DEFINE q == n \div ByteMod
           r == n % ByteMod
<1>1. n \in Nat /\ ByteMod * ByteMod \in Nat /\ n < ByteMod * ByteMod
  BY Bytes
<1>2. q \in Nat /\ r \in 0..(ByteMod - 1) /\ n = q * ByteMod + r
  BY <1>1, Division, Bytes
<1>3. WriteU16(n) = <<q % ByteMod, r>>
  BY DEF WriteU16
<1> HIDE DEF q, r
<1>4. r \in Nat /\ q * ByteMod + r < ByteMod * ByteMod
  BY <1>1, <1>2, Bytes
<1>5. q < ByteMod
  BY <1>2, <1>4, QuotientOfTwoBytes, Bytes
<1>6. q % ByteMod = q
  BY <1>2, <1>5, RemainderOfSmall, Bytes
<1>7. q \in Byte /\ r \in Byte
  BY <1>2, <1>5, Bytes
<1>8. WriteU16(n) = <<q, r>>
  BY <1>3, <1>6
<1>9. <<q, r>> \in Seq(Byte) /\ Len(<<q, r>>) = 2 /\ <<q, r>>[1] = q /\ <<q, r>>[2] = r
  BY <1>7
<1> QED
  BY <1>2, <1>8, <1>9, Zenon

LEMMA OpcodeWritten ==
    ASSUME NEW op \in {DATA, ACK, ERROR}
    PROVE  WriteU16(op) = <<0, op>> /\ op \in Byte /\ 0 \in Byte
<1>1. op \in Nat /\ op < ByteMod /\ 0 < ByteMod
  BY Bytes DEF DATA, ACK, ERROR
<1>2. op % ByteMod = op /\ op \div ByteMod = 0 /\ 0 % ByteMod = 0
  BY <1>1, RemainderOfSmall, Bytes
<1> QED
  BY <1>1, <1>2, Bytes DEF WriteU16

Joins(s, t, st) ==
    /\ st \in Seq(Byte) /\ Len(st) = Len(s) + Len(t)
    /\ \A i \in 1..Len(s) : st[i] = s[i]
    /\ \A i \in 1..Len(t) : st[Len(s) + i] = t[i]
LEMMA JoinedAt ==
    ASSUME NEW s \in Seq(Byte), NEW t \in Seq(Byte) PROVE Joins(s, t, s \o t)
BY DEF Joins

\* A packet that is built is opcode, number and payload, and is read as such.
Framed(op, n, p) == WriteU16(op) \o WriteU16(n) \o p
IsRead(b, op, n, p) ==
    /\ b \in Seq(Byte) /\ Len(b) = 4 + Len(p)
    /\ Opcode(b) = op /\ ~IsRequest(b)
    /\ \A i \in 1..Len(p) : b[4 + i] = p[i]
    /\ Parsed(b) = [opcode |-> op, block |-> n, payload |-> p]

LEMMA PacketReads ==
    ASSUME NEW op \in {DATA, ACK, ERROR}, NEW n \in 0..(ByteMod * ByteMod - 1),
           NEW p \in Seq(Byte)
    PROVE  IsRead(Framed(op, n, p), op, n, p)
<1> DEFINE w == WriteU16(n)
           h == <<0, op>> \o w
           b == Framed(op, n, p)
<1>1. b = h \o p /\ op \in Byte /\ 0 \in Byte
  BY OpcodeWritten DEF Framed
<1> HIDE DEF b
<1>2. w \in Seq(Byte) /\ Len(w) = 2 /\ w[1] * ByteMod + w[2] = n
  BY NumberWritten
<1> HIDE DEF w
<1>3. h \in Seq(Byte) /\ Len(h) = 4 /\ h[1] = 0 /\ h[2] = op
      /\ h[3] = w[1] /\ h[4] = w[2]
  <2>1. /\ w \in Seq(Byte) /\ Len(w) = 2
        /\ op \in Byte /\ 0 \in Byte
    BY <1>1, <1>2
  <2>2. /\ h \in Seq(Byte) /\ Len(h) = 4 /\ h[1] = 0 /\ h[2] = op
        /\ \A i \in 1..Len(w) : h[2 + i] = w[i]
    <3>1. /\ <<0, op>> \in Seq(Byte) /\ Len(<<0, op>>) = 2
          /\ <<0, op>>[1] = 0 /\ <<0, op>>[2] = op
      BY <2>1
    <3>2. Joins(<<0, op>>, w, h)
      BY <2>1, <3>1, JoinedAt, Zenon DEF h
    <3> HIDE DEF h
    <3>3. h \in Seq(Byte) /\ Len(h) = 4 /\ \A i \in 1..2 : h[i] = <<0, op>>[i]
      BY <2>1, <3>1, <3>2 DEF Joins
    <3> QED
      BY <2>1, <3>1, <3>2, <3>3 DEF Joins
  <2> HIDE DEF h
  <2>3. 2 + 1 = 3 /\ 2 + 2 = 4
    OBVIOUS
  <2>4. h[2 + 1] = w[1] /\ h[2 + 2] = w[2]
    BY <2>1, <2>2
  <2> QED
    BY <2>2, <2>3, <2>4, Zenon
<1> HIDE DEF h
<1>4. /\ b \in Seq(Byte) /\ Len(b) = 4 + Len(p)
      /\ b[1] = 0 /\ b[2] = op /\ b[3] = w[1] /\ b[4] = w[2]
      /\ \A i \in 1..Len(p) : b[4 + i] = p[i]
  <2>1. h \in Seq(Byte) /\ Len(h) = 4 /\ b = h \o p
    BY <1>1, <1>3
  <2>2. Joins(h, p, b)
    BY <2>1, JoinedAt, Zenon
  <2> QED
    BY <1>3, <2>1, <2>2 DEF Joins
<1>5. Opcode(b) = op
  <2>1. 0 * ByteMod + op = op /\ op \in Nat
    BY Bytes, <1>1
  <2> QED
    BY <1>4, <2>1 DEF Opcode, ReadU16
<1>6. ~IsRequest(b)
  BY <1>5 DEF IsRequest, RRQ, WRQ, DATA, ACK, ERROR
<1>7. ReadU16(b, 3) = n
  <2>1. 3 + 1 = 4
    OBVIOUS
  <2> QED
    BY <1>2, <1>4, <2>1, Zenon DEF ReadU16
<1>8. SubSeq(b, 5, Len(b)) = p
  <2>1. SubSeq(b, 5, Len(b)) \in Seq(Byte) /\ Len(SubSeq(b, 5, Len(b))) = Len(p)
    BY <1>4
  <2>2. \A i \in 1..Len(p) : SubSeq(b, 5, Len(b))[i] = b[4 + i]
    BY <1>4
  <2> DEFINE t == SubSeq(b, 5, Len(b))
  <2> HIDE DEF t
  <2>3. t \in Seq(Byte) /\ Len(t) = Len(p) /\ \A i \in 1..Len(p) : t[i] = p[i]
    BY <1>4, <2>1, <2>2 DEF t
  <2>4. t = p
    BY <2>3
  <2> QED
    BY <2>4 DEF t
<1> QED
  BY <1>4, <1>5, <1>6, <1>7, <1>8 DEF Parsed, IsRead, b

\* Which built packets pass the checks.
LEMMA BuiltParses ==
    ASSUME NEW b \in Seq(Byte), ~IsRequest(b), Len(b) >= 4
    PROVE  /\ Opcode(b) = ACK /\ Len(b) = 4 => ParseStatus(b) = "OK"
           /\ Opcode(b) = DATA /\ Len(b) <= 4 + BlockSize => ParseStatus(b) = "OK"
           /\ Opcode(b) = ERROR /\ Len(b) >= 5 /\ b[Len(b)] = 0
                => ParseStatus(b) = "OK"
BY Bytes DEF ParseStatus, IsRequest, RRQ, WRQ, DATA, ACK, ERROR

ReadsBack(b, fields) ==
    /\ b \in Seq(Byte) /\ ParseStatus(b) = "OK" /\ Parsed(b) = fields
    /\ Len(b) = 4 + Len(fields.payload)

LEMMA AckReadsBack ==
    ASSUME NEW n \in Blocks
    PROVE  ReadsBack(AckBytes(n), [opcode |-> ACK, block |-> n, payload |-> <<>>])
<1>1. n \in 0..(ByteMod * ByteMod - 1)
  BY DataIsBytes
<1>2. AckBytes(n) = Framed(ACK, n, <<>>)
  <2>1. WriteU16(n) \in Seq(Byte) /\ WriteU16(ACK) = <<0, ACK>> /\ ACK \in Byte /\ 0 \in Byte
    BY <1>1, NumberWritten, OpcodeWritten
  <2>2. AckBytes(n) \in Seq(Byte)
    BY <2>1 DEF AckBytes
  <2>3. AckBytes(n) \o <<>> = AckBytes(n)
    BY <2>2
  <2> QED
    BY <2>3 DEF AckBytes, Framed
<1>3. ACK \in {DATA, ACK, ERROR} /\ <<>> \in Seq(Byte)
  OBVIOUS
<1>4. IsRead(AckBytes(n), ACK, n, <<>>)
  BY <1>1, <1>2, <1>3, PacketReads, Zenon
<1>5. /\ AckBytes(n) \in Seq(Byte) /\ Len(AckBytes(n)) = 4
      /\ Opcode(AckBytes(n)) = ACK /\ ~IsRequest(AckBytes(n))
  BY <1>4 DEF IsRead
<1>6. ParseStatus(AckBytes(n)) = "OK"
  <2> DEFINE b == AckBytes(n)
  <2>1. /\ b \in Seq(Byte) /\ Len(b) = 4 /\ Len(b) >= 4
        /\ Opcode(b) = ACK /\ ~IsRequest(b)
    BY <1>5
  <2> HIDE DEF b
  <2>2. ParseStatus(b) = "OK"
    BY <2>1, BuiltParses
  <2> QED
    BY <2>2 DEF b
<1> QED
  BY <1>4, <1>6 DEF ReadsBack, IsRead

LEMMA DataReadsBack ==
    ASSUME NEW n \in Blocks, NEW d \in Payloads, Len(d) <= BlockSize
    PROVE  ReadsBack(DataBytes(n, d), [opcode |-> DATA, block |-> n, payload |-> d])
<1>1. n \in 0..(ByteMod * ByteMod - 1) /\ d \in Seq(Byte)
  BY DataIsBytes
<1>2. DataBytes(n, d) = Framed(DATA, n, d)
  BY DEF DataBytes, Framed
<1>3. DATA \in {DATA, ACK, ERROR}
  OBVIOUS
<1>4. IsRead(DataBytes(n, d), DATA, n, d)
  BY <1>1, <1>2, <1>3, PacketReads, Zenon
<1>5. /\ DataBytes(n, d) \in Seq(Byte) /\ Len(DataBytes(n, d)) = 4 + Len(d)
      /\ Opcode(DataBytes(n, d)) = DATA /\ ~IsRequest(DataBytes(n, d))
      /\ Len(d) \in Nat
  BY <1>1, <1>4 DEF IsRead
<1>6. ParseStatus(DataBytes(n, d)) = "OK"
  BY <1>5, BuiltParses, Bytes
<1> QED
  BY <1>4, <1>6 DEF ReadsBack, IsRead

LEMMA ErrorReadsBack ==
    ASSUME NEW n \in Blocks, NEW m \in Messages
    PROVE  ReadsBack(ErrorBytes(n, m),
                     [opcode |-> ERROR, block |-> n, payload |-> Append(m, 0)])
<1> DEFINE p == Append(m, 0)
           h == WriteU16(ERROR) \o WriteU16(n)
<1>1. n \in 0..(ByteMod * ByteMod - 1) /\ m \in Seq(Byte) /\ 0 \in Byte
  BY DataIsBytes, OpcodeWritten
<1>2. /\ p \in Seq(Byte) /\ Len(p) = Len(m) + 1 /\ p[Len(p)] = 0
      /\ \A i \in 1..Len(m) : p[i] = m[i]
  BY <1>1
<1>3. h \in Seq(Byte) /\ ERROR \in {DATA, ACK, ERROR}
  <2>1. WriteU16(n) \in Seq(Byte)
    BY <1>1, NumberWritten
  <2>2. WriteU16(ERROR) = <<0, ERROR>> /\ ERROR \in Byte
    BY OpcodeWritten
  <2> QED
    BY <1>1, <2>1, <2>2
<1> HIDE DEF h
<1>4. (h \o m) \o <<0>> = h \o p
  <2>1. p = m \o <<0>> /\ m \in Seq(Byte) /\ <<0>> \in Seq(Byte)
    BY <1>1 DEF p
  <2>2. h \o (m \o <<0>>) = (h \o m) \o <<0>>
    BY <1>3, <2>1
  <2> QED
    BY <2>1, <2>2
<1>5. ErrorBytes(n, m) = (h \o m) \o <<0>>
  BY DEF ErrorBytes, h
<1> HIDE DEF p
<1> DEFINE b == ErrorBytes(n, m)
<1>6. b = Framed(ERROR, n, p)
  BY <1>4, <1>5 DEF h, Framed
<1> HIDE DEF b
<1>7. IsRead(b, ERROR, n, p)
  BY <1>1, <1>2, <1>3, <1>6, PacketReads, Zenon
<1>8. /\ b \in Seq(Byte) /\ Len(b) = 4 + Len(p)
      /\ Opcode(b) = ERROR /\ ~IsRequest(b)
      /\ \A i \in 1..Len(p) : b[4 + i] = p[i]
      /\ Parsed(b) = [opcode |-> ERROR, block |-> n, payload |-> p]
  BY <1>7 DEF IsRead
<1>9. Len(p) \in 1..Len(p) /\ Len(m) \in Nat
  BY <1>1, <1>2
<1>10. b[Len(b)] = 0 /\ Len(b) >= 5
  BY <1>2, <1>8, <1>9
<1>11. ParseStatus(b) = "OK"
  BY <1>8, <1>10, BuiltParses
<1> QED
  BY <1>8, <1>11 DEF ReadsBack, b, p
-----------------------------------------------------------------------------
(* The calls.                                                              *)

\* What a packet that was read left in the caller's request, and what a call
\* of a builder has come to.
IInv ==
    /\ bytes \in Seq(Byte)
    /\ status \in {"idle", "received"} => asked = Nothing /\ request = NoRequest
    /\ status = "idle" => bytes = <<>>
    /\ asked # Nothing =>
        /\ request = NoRequest
        /\ status = "OK" => ReadsBack(bytes, asked)
    /\ BuiltWhenItFits
    /\ asked = Nothing /\ status \notin {"idle", "received"} /\ bytes # <<>> =>
        /\ status = RequestStatus(bytes)
        /\ status = "OK" =>
            request = [opcode |-> Opcode(bytes), filename |-> Name(bytes)]
    /\ status # "OK" => request = NoRequest

LEMMA RequestStatuses ==
    ASSUME NEW b PROVE RequestStatus(b) \notin {"idle", "received"}
BY DEF RequestStatus, ParseStatus

\* A builder that works out the length of what it writes.
LEMMA WritesKeeps ==
    ASSUME IInv, NEW fields, NEW size \in BufferSizes, NEW written, NEW length,
           BuildCalled(fields, size), Writes(written, length),
           ReadsBack(written, fields), length = 4 + Len(fields.payload),
           fields.opcode = DATA => Len(fields.payload) <= BlockSize,
           fields # Nothing
    PROVE  IInv'
<1>1. /\ bytes = <<>> /\ request = NoRequest /\ request' = request
      /\ asked' = fields /\ room' = size
  BY DEF IInv, BuildCalled
<1>2. written \in Seq(Byte) /\ Len(written) = length /\ length \in Nat
  BY DEF ReadsBack
<1>3. size \in Nat
  BY Sizes
<1>4. CASE size < length
  <2>1. status' = "NO_RESOURCE" /\ bytes' = <<>>
    BY <1>1, <1>4 DEF Writes
  <2>2. BuiltWhenItFits'
    BY <1>1, <1>2, <1>3, <1>4, <2>1 DEF BuiltWhenItFits
  <2>3. <<>> \in Seq(Byte)
    OBVIOUS
  <2> QED
    BY <1>1, <2>1, <2>2, <2>3, Zenon DEF IInv
<1>5. CASE ~(size < length)
  <2>1. status' = "OK" /\ bytes' = SubSeq(written, 1, length)
    BY <1>1, <1>5 DEF Writes
  <2>2. SubSeq(written, 1, length) = written
    BY <1>2
  <2>3. bytes' = written
    BY <2>1, <2>2
  <2>4. BuiltWhenItFits'
    BY <1>1, <1>2, <1>3, <1>5, <2>1, <2>3 DEF BuiltWhenItFits
  <2>5. ReadsBack(bytes', asked') /\ bytes' \in Seq(Byte)
    BY <1>1, <1>2, <2>3
  <2> QED
    BY <1>1, <2>1, <2>4, <2>5 DEF IInv, ReadsBack
<1> QED
  BY <1>4, <1>5

LEMMA AckKeeps ==
    ASSUME IInv, NEW n \in Blocks, NEW size \in BufferSizes, BuildAck(n, size)
    PROVE  IInv'
<1> DEFINE f == [opcode |-> ACK, block |-> n, payload |-> <<>>]
<1>1. BuildCalled(f, size) /\ Writes(AckBytes(n), AckLength)
  BY DEF BuildAck
<1>2. ReadsBack(AckBytes(n), f) /\ f # Nothing
  BY AckReadsBack DEF Nothing, ACK
<1>3. AckLength = 4 + Len(f.payload) /\ f.opcode # DATA
  BY DEF AckLength, ACK, DATA
<1> HIDE DEF f
<1> QED
  BY <1>1, <1>2, <1>3, WritesKeeps, Zenon

LEMMA DataKeeps ==
    ASSUME IInv, NEW n \in Blocks, NEW d \in Payloads,
           NEW size \in BufferSizes, BuildData(n, d, size)
    PROVE  IInv'
<1> DEFINE f == [opcode |-> DATA, block |-> n, payload |-> d]
<1>1. /\ BuildCalled(f, size) /\ f # Nothing
      /\ f.opcode = DATA /\ f.payload = d
  BY DEF BuildData, Nothing, DATA
<1>2. CASE Len(d) > BlockSize
  <2>1. status' = "INVALID_ARGUMENT" /\ bytes' = bytes
    BY <1>2 DEF BuildData
  <2>2. /\ bytes = <<>> /\ request' = NoRequest
        /\ asked' = f /\ room' = size
    BY <1>1 DEF IInv, BuildCalled
  <2>3. d \in Seq(Byte)
    BY DataIsBytes
  <2>4. ~(Len(d) <= BlockSize)
    BY <1>2, <2>3, Bytes
  <2> HIDE DEF f
  <2>5. BuiltWhenItFits'
    BY <1>1, <2>1, <2>2, <2>4 DEF BuiltWhenItFits
  <2>6. <<>> \in Seq(Byte)
    OBVIOUS
  <2> QED
    BY <1>1, <2>1, <2>2, <2>5, <2>6, Zenon DEF IInv
<1>3. CASE ~(Len(d) > BlockSize)
  <2>1. Writes(DataBytes(n, d), DataLength(d))
    BY <1>3 DEF BuildData
  <2>2. d \in Seq(Byte)
    BY DataIsBytes
  <2>3. Len(d) <= BlockSize
    BY <1>3, <2>2, Bytes
  <2>4. ReadsBack(DataBytes(n, d), f)
    BY <2>3, DataReadsBack
  <2>5. DataLength(d) = 4 + Len(f.payload)
    BY DEF DataLength
  <2> HIDE DEF f
  <2> QED
    BY <1>1, <2>1, <2>3, <2>4, <2>5, WritesKeeps, Zenon
<1> QED
  BY <1>2, <1>3

LEMMA ErrorKeeps ==
    ASSUME IInv, NEW n \in Blocks, NEW m \in Messages,
           NEW size \in BufferSizes, BuildError(n, m, size)
    PROVE  IInv'
<1> DEFINE f == [opcode |-> ERROR, block |-> n, payload |-> Append(m, 0)]
<1>1. BuildCalled(f, size) /\ Writes(ErrorBytes(n, m), ErrorLength(m))
  BY DEF BuildError
<1>2. ReadsBack(ErrorBytes(n, m), f) /\ f # Nothing
  BY ErrorReadsBack DEF Nothing, ERROR
<1>3. ErrorLength(m) = 4 + Len(f.payload) /\ f.opcode # DATA
  <2>1. m \in Seq(Byte) /\ 0 \in Byte
    BY DataIsBytes, OpcodeWritten
  <2> QED
    BY <2>1 DEF ErrorLength, ERROR, DATA
<1> HIDE DEF f
<1> QED
  BY <1>1, <1>2, <1>3, WritesKeeps, Zenon

LEMMA ReadRequestKeeps ==
    ASSUME IInv, ReadRequest
    PROVE  IInv'
<1>1. /\ status = "received" /\ asked = Nothing /\ request = NoRequest
      /\ bytes' = bytes /\ asked' = asked /\ status' = RequestStatus(bytes)
  BY DEF IInv, ReadRequest
<1>2. status' \notin {"idle", "received"}
  BY <1>1, RequestStatuses
<1> BuiltWhenItFits'
  BY <1>1 DEF BuiltWhenItFits
<1>3. CASE status' = "OK"
  <2>1. request' = [opcode |-> Opcode(bytes), filename |-> Name(bytes)]
    BY <1>3 DEF ReadRequest
  <2> QED
    BY <1>1, <1>2, <1>3, <2>1, Zenon DEF IInv
<1>4. CASE status' # "OK"
  <2>1. request' = NoRequest
    BY <1>1, <1>4 DEF ReadRequest
  <2> QED
    BY <1>1, <1>2, <1>4, <2>1, Zenon DEF IInv
<1> QED
  BY <1>3, <1>4

LEMMA Invariance == Spec => []IInv
<1>1. Init => IInv
  BY DEF Init, IInv, BuiltWhenItFits
<1>2. IInv /\ [Next]_vars => IInv'
  <2> SUFFICES ASSUME IInv, [Next]_vars PROVE IInv'
    OBVIOUS
  <2>1. CASE Receive
    <3>1. asked = Nothing /\ asked' = asked
      BY <2>1 DEF Receive, IInv
    <3> QED
      BY <2>1, <3>1, DataIsBytes DEF Receive, IInv, BuiltWhenItFits
  <2>2. CASE Return
    BY <2>2 DEF Return, IInv, BuiltWhenItFits
  <2>3. CASE UNCHANGED vars
    BY <2>3, Zenon DEF vars, IInv, BuiltWhenItFits
  <2> QED
    BY <2>1, <2>2, <2>3, ReadRequestKeeps, AckKeeps, DataKeeps, ErrorKeeps,
       Zenon DEF Next
<1> QED
  BY <1>1, <1>2, PTL DEF Spec
-----------------------------------------------------------------------------

\* A request is accepted exactly when its bytes are an opcode, a name that
\* fits and the mode, each with its NUL and with nothing after them, and the
\* caller then has that name: no scan of tftp_packet_parse_request stops
\* early, runs on, or takes a byte of one string for the other, and one that
\* is refused, at whatever byte, leaves nothing in the caller's request.
THEOREM AcceptsExactlyRequests == Spec => []RequestsExact
<1>1. IInv => RequestsExact
  <2> SUFFICES ASSUME IInv, bytes # <<>>, asked = Nothing, status # "received"
               PROVE  /\ status = "OK" <=> Lengths(bytes) # {}
                      /\ Lengths(bytes) = {} => request = NoRequest
                      /\ \A n \in Lengths(bytes) :
                          request = [opcode |-> bytes[2],
                                     filename |-> NameOf(bytes, n)]
    BY Zenon DEF RequestsExact, Lengths, NameOf, ModeOf
  <2>1. /\ bytes \in Seq(Byte) /\ status = RequestStatus(bytes)
        /\ status = "OK" =>
            request = [opcode |-> Opcode(bytes), filename |-> Name(bytes)]
        /\ status # "OK" => request = NoRequest
    BY Zenon DEF IInv
  <2>2. status = "OK" => Lengths(bytes) # {}
    BY <2>1, AcceptedIsWritten
  <2>3. ASSUME NEW n \in Lengths(bytes)
        PROVE  /\ status = "OK"
               /\ request = [opcode |-> bytes[2], filename |-> NameOf(bytes, n)]
    BY <2>1, <2>3, WrittenIsAccepted
  <2>4. Lengths(bytes) = {} => request = NoRequest
    BY <2>1, <2>2
  <2> QED
    BY <2>2, <2>3, <2>4
<1> QED
  BY <1>1, Invariance, PTL

\* Every packet that a builder reports as built is one that
\* tftp_packet_parse accepts, with the opcode, the number and the data that
\* the builder was given: for numbers up to the width of two bytes.
THEOREM WhatIsBuiltReadsBack == Spec => []BuiltReadsBack
<1>1. IInv => BuiltReadsBack
  BY Zenon DEF IInv, BuiltReadsBack, ReadsBack
<1> QED
  BY <1>1, Invariance, PTL

\* A packet is built exactly when the buffer has room for the whole of it, for
\* buffers and texts of every length: the length that a builder checks before
\* it writes is the length of what it then writes.
THEOREM BuildersFillTheirBuffers == Spec => []BuiltWhenItFits
<1>1. IInv => BuiltWhenItFits
  BY DEF IInv
<1> QED
  BY <1>1, Invariance, PTL
=============================================================================

-------------------------- MODULE RingBufferProofs --------------------------
(***************************************************************************)
(* Proofs about RingBuffer, for every capacity, header size and payload    *)
(* limit its assumptions allow.                                            *)
(***************************************************************************)
EXTENDS RingBuffer, TLAPS

(* Offset plus distance, taken modulo the capacity, without division.      *)
Wrap(v) == IF v >= Capacity THEN v - Capacity ELSE v

CopySize(n) == n \in Nat /\ n < Capacity /\ (n = HeaderSize \/ n <= MaxPayload)

-----------------------------------------------------------------------------
(* Arithmetic of the copies.                                               *)

LEMMA ModIsWrap ==
  ASSUME NEW x \in Nat, x < 2 * Capacity
  PROVE  x % Capacity = Wrap(x)
<1>. USE CapacityAssumption DEF Wrap
<1>1. CASE x < Capacity
  BY <1>1
<1>2. CASE x >= Capacity
  BY <1>2
<1>. QED  BY <1>1, <1>2

LEMMA StraightTest ==
  ASSUME NEW o \in Offsets, NEW n, CopySize(n)
  PROVE  Straight(o, n) <=> o + n <= Capacity
<1>. USE CapacityAssumption, HeaderSizeAssumption, SizesAssumption,
         ModulusAssumption
<1>1. o + n \in Nat /\ o + n < Modulus /\ Modulus \in Nat \ {0}
  BY DEF Offsets, CopySize
<1>2. (o + n) % Modulus = o + n
  BY <1>1
<1>. QED  BY <1>1, <1>2 DEF Straight

LEMMA CellIsWrap ==
  ASSUME NEW o \in Offsets, NEW n, CopySize(n), NEW i \in 0 .. (n - 1)
  PROVE  CellOf(o, n, i) = Wrap(o + i) /\ CellOf(o, n, i) \in Offsets
BY StraightTest, CapacityAssumption DEF CellOf, Wrap, Offsets, CopySize

LEMMA WriteWrapped ==
  ASSUME NEW mem \in [Offsets -> Bytes], NEW o \in Offsets, NEW n, CopySize(n),
         NEW p \in Packets, NEW f \in Nat, f + n <= HeaderSize + MaxPayload
  PROVE  LET res == write_wrapped(mem, o, p, f, n)
         IN  /\ res \in [Offsets -> Bytes]
             /\ \A i \in 0 .. (n - 1) : res[Wrap(o + i)] = Byte(p, f + i)
             /\ \A a \in Offsets : (\A i \in 0 .. (n - 1) : a # Wrap(o + i))
                                      => res[a] = mem[a]
<1>. USE CapacityAssumption, HeaderSizeAssumption, SizesAssumption
<1>. DEFINE res  == write_wrapped(mem, o, p, f, n)
            at(a) == IF a \in o .. (o + n - 1)
                       THEN Byte(p, f + (a - o))
                     ELSE IF ~(o + n <= Capacity) /\ a < n - (Capacity - o)
                       THEN Byte(p, f + (Capacity - o) + a)
                     ELSE mem[a]
<1>0. n \in Nat /\ n < Capacity
  BY DEF CopySize
<1>1. res = [a \in Offsets |-> at(a)]
  BY StraightTest DEF write_wrapped
<1>2. ASSUME NEW q \in 0 .. (HeaderSize + MaxPayload)
      PROVE  Byte(p, q) \in Bytes
  BY DEF Byte, Bytes
<1>3. ASSUME NEW a \in Offsets
      PROVE  at(a) \in Bytes
  <2>1. CASE a \in o .. (o + n - 1)
    <3>1. f + (a - o) \in 0 .. (HeaderSize + MaxPayload)
      BY <1>0, <2>1 DEF Offsets
    <3>. QED  BY <1>2, <2>1, <3>1
  <2>2. CASE a \notin o .. (o + n - 1) /\ ~(o + n <= Capacity)
               /\ a < n - (Capacity - o)
    <3>1. f + (Capacity - o) + a \in 0 .. (HeaderSize + MaxPayload)
      BY <1>0, <2>2 DEF Offsets
    <3>. QED  BY <1>2, <2>2, <3>1
  <2>3. CASE a \notin o .. (o + n - 1)
               /\ ~(~(o + n <= Capacity) /\ a < n - (Capacity - o))
    BY <2>3
  <2>. QED  BY <2>1, <2>2, <2>3
<1>4. res \in [Offsets -> Bytes]
  BY <1>1, <1>3
<1>5. ASSUME NEW i \in 0 .. (n - 1)
      PROVE  res[Wrap(o + i)] = Byte(p, f + i)
  <2>1. Wrap(o + i) \in Offsets
    BY <1>0 DEF Wrap, Offsets
  <2>2. CASE o + i < Capacity
    BY <1>0, <1>1, <2>1, <2>2 DEF Wrap, Offsets
  <2>3. CASE o + i >= Capacity
    <3>1. /\ Wrap(o + i) = o + i - Capacity
          /\ Wrap(o + i) \notin o .. (o + n - 1)
          /\ ~(o + n <= Capacity)
          /\ Wrap(o + i) < n - (Capacity - o)
          /\ f + (Capacity - o) + Wrap(o + i) = f + i
      BY <1>0, <2>3 DEF Wrap, Offsets
    <3>. QED  BY <1>1, <2>1, <3>1
  <2>. QED  BY <1>0, <2>2, <2>3 DEF Offsets
<1>6. ASSUME NEW a \in Offsets, \A i \in 0 .. (n - 1) : a # Wrap(o + i)
      PROVE  res[a] = mem[a]
  <2>1. a \notin o .. (o + n - 1)
    <3>1. SUFFICES ASSUME a \in o .. (o + n - 1) PROVE FALSE
      OBVIOUS
    <3>2. a - o \in 0 .. (n - 1) /\ Wrap(o + (a - o)) = a
      BY <1>0, <3>1 DEF Wrap, Offsets
    <3>. QED  BY <1>6, <3>2
  <2>2. ~(~(o + n <= Capacity) /\ a < n - (Capacity - o))
    <3>1. SUFFICES ASSUME ~(o + n <= Capacity), a < n - (Capacity - o)
                   PROVE  FALSE
      OBVIOUS
    <3>2. (Capacity - o) + a \in 0 .. (n - 1) /\ Wrap(o + ((Capacity - o) + a)) = a
      BY <1>0, <3>1 DEF Wrap, Offsets
    <3>. QED  BY <1>6, <3>2
  <2>. QED  BY <1>1, <2>1, <2>2
<1>. QED  BY <1>4, <1>5, <1>6

-----------------------------------------------------------------------------
(* The inductive invariant.                                                *)

(* What a pop of packet p must return.                                     *)
Returned(p) == [header |-> p,
                data   |-> [i \in 0 .. (p.size - 1) |-> Byte(p, HeaderSize + i)]]

(* The packets pushed follow each other in the stream without a gap, and   *)
(* what was delivered is the first of them, intact.                        *)
StreamInv ==
  /\ delivered \in Seq({Returned(p) : p \in Packets})
  /\ Len(delivered) <= Len(pushed)
  /\ \A k \in 1 .. Len(delivered) : delivered[k] = Returned(pushed[k])
  /\ \A k \in 1 .. Len(pushed) :
       pushed[k].at = IF k = 1 THEN 0 ELSE End(pushed[k - 1])
  /\ \A j, k \in 1 .. Len(pushed) : j < k => End(pushed[j]) <= pushed[k].at

(* The offsets are as far apart as the stream positions they stand for.    *)
OffsetInv ==
  /\ StreamTail - StreamHead < Capacity
  /\ write_offset = Wrap(read_offset + (StreamTail - StreamHead))

MemoryInv ==
  \A k \in InTransit : \A i \in 0 .. (Total(pushed[k].size) - 1) :
    memory[Wrap(read_offset + (pushed[k].at + i - StreamHead))]
      = Byte(pushed[k], i)

(* A push in progress owns free space for all of its packet and has        *)
(* written the part of it that its program counter says.                   *)
ProducerInv ==
  ppc # "idle" =>
    /\ packet.at = StreamTail
    /\ StreamTail - StreamHead + Total(packet.size) < Capacity
    /\ ppc = "payload" => packet.size > 0
    /\ ppc = "payload" =>
         \A i \in 0 .. (HeaderSize - 1) :
           memory[Wrap(write_offset + i)] = Byte(packet, i)
    /\ ppc = "publish" =>
         \A i \in 0 .. (Total(packet.size) - 1) :
           memory[Wrap(write_offset + i)] = Byte(packet, i)

(* A pop in progress has the oldest packet in transit in its hands.        *)
ConsumerInv ==
  cpc # "idle" =>
    /\ Len(delivered) < Len(pushed)
    /\ cpc = "header" => out_buffer = <<>>
    /\ cpc \in {"payload", "commit"} =>
         out_header = pushed[Len(delivered) + 1]
    /\ cpc = "payload" => out_header.size > 0
    /\ cpc = "commit" => out_buffer = Returned(out_header).data

IInv == /\ TypeOK /\ StreamInv /\ OffsetInv /\ MemoryInv
        /\ ProducerInv /\ ConsumerInv

-----------------------------------------------------------------------------
(* What the invariant says of the stream positions.                        *)

LEMMA StreamFacts ==
  ASSUME TypeOK, StreamInv
  PROVE  /\ StreamHead \in Nat /\ StreamTail \in Nat
         /\ StreamHead <= StreamTail
         /\ \A k \in InTransit : /\ pushed[k] \in Packets
                                 /\ StreamHead <= pushed[k].at
                                 /\ End(pushed[k]) <= StreamTail
         /\ Len(delivered) < Len(pushed)
              => /\ Len(delivered) + 1 \in InTransit
                 /\ pushed[Len(delivered) + 1].at = StreamHead
         /\ Len(delivered) \in Nat /\ Len(pushed) \in Nat
<1>. USE HeaderSizeAssumption, SizesAssumption
<1>1. /\ Len(delivered) \in Nat /\ Len(pushed) \in Nat
      /\ Len(delivered) <= Len(pushed)
  BY DEF TypeOK, StreamInv
<1>2. ASSUME NEW k \in 1 .. Len(pushed)
      PROVE  /\ pushed[k] \in Packets /\ End(pushed[k]) \in Nat
             /\ pushed[k].at \in Nat /\ pushed[k].size \in Nat
             /\ pushed[k].at < End(pushed[k])
  <2>1. pushed[k] \in Packets
    BY DEF TypeOK
  <2>. QED  BY <2>1 DEF Packets, End, Total
<1>3. (pushed = <<>> <=> Len(pushed) = 0) /\ (delivered = <<>> <=> Len(delivered) = 0)
  BY DEF TypeOK, StreamInv
<1>4. StreamHead \in Nat /\ StreamTail \in Nat
  BY <1>1, <1>2, <1>3 DEF StreamHead, StreamTail
<1>5. StreamHead <= StreamTail
  <2>1. CASE Len(delivered) = 0
    BY <1>3, <1>4, <2>1 DEF StreamHead
  <2>2. CASE Len(delivered) # 0 /\ Len(delivered) = Len(pushed)
    BY <1>1, <1>3, <1>4, <2>2 DEF StreamHead, StreamTail
  <2>3. CASE Len(delivered) # 0 /\ Len(delivered) < Len(pushed)
    <3>1. /\ Len(delivered) \in 1 .. Len(pushed)
          /\ Len(pushed) \in 1 .. Len(pushed)
      BY <1>1, <2>3
    <3>2. End(pushed[Len(delivered)]) <= pushed[Len(pushed)].at
      BY <2>3, <3>1 DEF StreamInv
    <3>3. pushed[Len(pushed)].at < End(pushed[Len(pushed)])
      BY <1>2, <3>1
    <3>4. /\ StreamHead = End(pushed[Len(delivered)])
          /\ StreamTail = End(pushed[Len(pushed)])
      BY <1>1, <1>3, <2>3 DEF StreamHead, StreamTail
    <3>. QED  BY <1>2, <3>1, <3>2, <3>3, <3>4
  <2>. QED  BY <1>1, <2>1, <2>2, <2>3
<1>6. ASSUME NEW k \in InTransit
      PROVE  /\ pushed[k] \in Packets
             /\ StreamHead <= pushed[k].at
             /\ End(pushed[k]) <= StreamTail
  <2>1. k \in 1 .. Len(pushed) /\ k > Len(delivered) /\ Len(pushed) # 0
    BY <1>1 DEF InTransit
  <2>2. StreamHead <= pushed[k].at
    <3>1. CASE Len(delivered) = 0
      BY <1>2, <1>3, <2>1, <3>1 DEF StreamHead
    <3>2. CASE Len(delivered) # 0
      BY <1>1, <1>3, <2>1, <3>2 DEF StreamHead, StreamInv
    <3>. QED  BY <3>1, <3>2
  <2>3. End(pushed[k]) <= StreamTail
    <3>1. StreamTail = End(pushed[Len(pushed)])
      BY <1>3, <2>1 DEF StreamTail
    <3>2. CASE k = Len(pushed)
      BY <1>2, <2>1, <3>1, <3>2
    <3>3. CASE k < Len(pushed)
      <4>1. End(pushed[k]) <= pushed[Len(pushed)].at
        BY <1>1, <2>1, <3>3 DEF StreamInv
      <4>. QED  BY <1>1, <1>2, <2>1, <3>1, <4>1
    <3>. QED  BY <1>1, <2>1, <3>2, <3>3
  <2>. QED  BY <1>2, <2>1, <2>2, <2>3
<1>7. ASSUME Len(delivered) < Len(pushed)
      PROVE  /\ Len(delivered) + 1 \in InTransit
             /\ pushed[Len(delivered) + 1].at = StreamHead
  <2>1. Len(delivered) + 1 \in InTransit /\ Len(delivered) + 1 \in 1 .. Len(pushed)
    BY <1>1, <1>7 DEF InTransit
  <2>2. pushed[Len(delivered) + 1].at
          = IF Len(delivered) + 1 = 1 THEN 0 ELSE End(pushed[Len(delivered) + 1 - 1])
    BY <2>1 DEF StreamInv
  <2>. QED  BY <1>1, <1>3, <2>1, <2>2 DEF StreamHead
<1>. QED  BY <1>1, <1>4, <1>5, <1>6, <1>7

-----------------------------------------------------------------------------
(* What the copies do in a state of the invariant.                         *)

LEMMA WrapWrap ==
  ASSUME NEW o \in Offsets, NEW a \in Nat, NEW b \in Nat, a + b < Capacity
  PROVE  /\ Wrap(o + a) \in Offsets
         /\ Wrap(Wrap(o + a) + b) = Wrap(o + (a + b))
BY CapacityAssumption DEF Wrap, Offsets

LEMMA WrapInjective ==
  ASSUME NEW o \in Offsets, NEW a \in Offsets, NEW b \in Offsets, a # b
  PROVE  Wrap(o + a) # Wrap(o + b)
BY CapacityAssumption DEF Wrap, Offsets

(* A copy of a push in progress changes the bytes it is meant to change    *)
(* and no other of its own or of a packet in transit.                      *)
LEMMA PushCopy ==
  ASSUME IInv, ppc # "idle",
         NEW f \in Nat, NEW n \in Nat, f + n <= Total(packet.size),
         n = HeaderSize \/ n <= MaxPayload
  PROVE  LET o   == Wrap(write_offset + f)
             mem == write_wrapped(memory, o, packet, f, n)
         IN  /\ mem \in [Offsets -> Bytes]
             /\ \A i \in 0 .. (n - 1) :
                  mem[Wrap(write_offset + (f + i))] = Byte(packet, f + i)
             /\ \A i \in 0 .. (f - 1) :
                  mem[Wrap(write_offset + i)] = memory[Wrap(write_offset + i)]
             /\ \A d \in 0 .. (StreamTail - StreamHead - 1) :
                  mem[Wrap(read_offset + d)] = memory[Wrap(read_offset + d)]
<1>. USE CapacityAssumption, HeaderSizeAssumption, SizesAssumption
<1>. DEFINE o    == Wrap(write_offset + f)
            mem  == write_wrapped(memory, o, packet, f, n)
            used == StreamTail - StreamHead
            all  == Total(packet.size)
<1>1. /\ packet \in Packets /\ packet.size \in 0 .. MaxPayload
      /\ memory \in [Offsets -> Bytes]
      /\ write_offset \in Offsets /\ read_offset \in Offsets
  BY DEF IInv, TypeOK, Packets
<1>2. /\ used \in Nat /\ all \in Nat
      /\ used + all < Capacity
      /\ all <= HeaderSize + MaxPayload
      /\ write_offset = Wrap(read_offset + used)
  <2>1. StreamHead \in Nat /\ StreamTail \in Nat /\ StreamHead <= StreamTail
    BY StreamFacts DEF IInv
  <2>2. all \in Nat /\ all <= HeaderSize + MaxPayload
    BY <1>1 DEF Total
  <2>3. used + all < Capacity
    BY DEF IInv, ProducerInv
  <2>4. write_offset = Wrap(read_offset + used)
    BY DEF IInv, OffsetInv
  <2>. QED  BY <2>1, <2>2, <2>3, <2>4
<1>. HIDE DEF used, all, mem
<1>3. f + n < Capacity /\ f + n <= HeaderSize + MaxPayload /\ CopySize(n)
  BY <1>2 DEF CopySize, all
<1>4. o \in Offsets
  BY <1>1, <1>3, WrapWrap
<1>. HIDE DEF o
<1>5. /\ mem \in [Offsets -> Bytes]
      /\ \A i \in 0 .. (n - 1) : mem[Wrap(o + i)] = Byte(packet, f + i)
      /\ \A a \in Offsets : (\A i \in 0 .. (n - 1) : a # Wrap(o + i))
                               => mem[a] = memory[a]
  BY <1>1, <1>3, <1>4, WriteWrapped DEF mem
<1>6. ASSUME NEW i \in 0 .. (n - 1)
      PROVE  /\ Wrap(o + i) = Wrap(write_offset + (f + i))
             /\ Wrap(o + i) = Wrap(read_offset + (used + (f + i)))
             /\ used + (f + i) \in Offsets
             /\ f + i \in Offsets
  <2>1. i \in Nat /\ f + i < Capacity /\ used + (f + i) < Capacity
    BY <1>2, <1>3 DEF all
  <2>2. Wrap(o + i) = Wrap(write_offset + (f + i))
    BY <1>1, <2>1, WrapWrap DEF o
  <2>3. Wrap(Wrap(read_offset + used) + (f + i))
          = Wrap(read_offset + (used + (f + i)))
    BY <1>1, <1>2, <2>1, WrapWrap
  <2>. QED  BY <1>2, <2>1, <2>2, <2>3 DEF Offsets
<1>7. ASSUME NEW i \in 0 .. (n - 1)
      PROVE  mem[Wrap(write_offset + (f + i))] = Byte(packet, f + i)
  BY <1>5, <1>6
<1>8. ASSUME NEW j \in 0 .. (f - 1)
      PROVE  mem[Wrap(write_offset + j)] = memory[Wrap(write_offset + j)]
  <2>1. j \in Offsets /\ j \in Nat
    BY <1>3 DEF Offsets
  <2>2. \A i \in 0 .. (n - 1) : Wrap(write_offset + j) # Wrap(o + i)
    <3>1. SUFFICES ASSUME NEW i \in 0 .. (n - 1)
                   PROVE  Wrap(write_offset + j) # Wrap(o + i)
      OBVIOUS
    <3>2. j # f + i
      OBVIOUS
    <3>. QED  BY <1>1, <1>6, <2>1, <3>2, WrapInjective
  <2>3. Wrap(write_offset + j) \in Offsets
    BY <1>1, <2>1 DEF Wrap, Offsets
  <2>. QED  BY <1>5, <2>2, <2>3
<1>9. ASSUME NEW d \in 0 .. (used - 1)
      PROVE  mem[Wrap(read_offset + d)] = memory[Wrap(read_offset + d)]
  <2>1. d \in Offsets /\ d \in Nat
    BY <1>2 DEF Offsets
  <2>2. \A i \in 0 .. (n - 1) : Wrap(read_offset + d) # Wrap(o + i)
    <3>1. SUFFICES ASSUME NEW i \in 0 .. (n - 1)
                   PROVE  Wrap(read_offset + d) # Wrap(o + i)
      OBVIOUS
    <3>2. d # used + (f + i) /\ used + (f + i) \in Offsets
      BY <1>2, <1>6
    <3>3. Wrap(read_offset + d) # Wrap(read_offset + (used + (f + i)))
      BY <1>1, <2>1, <3>2, WrapInjective
    <3>. QED  BY <1>6, <3>3
  <2>3. Wrap(read_offset + d) \in Offsets
    BY <1>1, <2>1 DEF Wrap, Offsets
  <2>. QED  BY <1>5, <2>2, <2>3
<1>. QED  BY <1>5, <1>7, <1>8, <1>9 DEF mem, o, used

(* The packet that pop reads lies where the read offset points.            *)
LEMMA OldestInPlace ==
  ASSUME IInv, Len(delivered) < Len(pushed)
  PROVE  LET p == pushed[Len(delivered) + 1]
         IN  /\ p \in Packets
             /\ End(p) = StreamHead + Total(p.size)
             /\ End(p) <= StreamTail
             /\ Total(p.size) \in Nat /\ Total(p.size) < Capacity
             /\ \A i \in 0 .. (Total(p.size) - 1) :
                  memory[Wrap(read_offset + i)] = Byte(p, i)
<1>. USE CapacityAssumption, HeaderSizeAssumption, SizesAssumption
<1>. DEFINE p == pushed[Len(delivered) + 1]
<1>1. /\ Len(delivered) + 1 \in InTransit
      /\ p \in Packets /\ p.at = StreamHead /\ End(p) <= StreamTail
      /\ StreamHead \in Nat /\ StreamTail \in Nat
  BY StreamFacts DEF IInv
<1>. HIDE DEF p
<1>2. p.size \in Nat /\ Total(p.size) \in Nat /\ End(p) = StreamHead + Total(p.size)
  BY <1>1 DEF Packets, Total, End
<1>3. Total(p.size) < Capacity
  BY <1>1, <1>2 DEF IInv, OffsetInv
<1>4. ASSUME NEW i \in 0 .. (Total(p.size) - 1)
      PROVE  memory[Wrap(read_offset + i)] = Byte(p, i)
  <2>1. memory[Wrap(read_offset + (p.at + i - StreamHead))] = Byte(p, i)
    BY <1>1 DEF IInv, MemoryInv, p
  <2>2. p.at + i - StreamHead = i
    BY <1>1, <1>2
  <2>. QED  BY <2>1, <2>2
<1>. QED  BY <1>1, <1>2, <1>3, <1>4 DEF p

LEMMA HeaderRead ==
  ASSUME IInv, cpc = "header"
  PROVE  HeadersIn(read_wrapped(memory, read_offset, HeaderSize))
           = {pushed[Len(delivered) + 1]}
<1>. USE CapacityAssumption, HeaderSizeAssumption, SizesAssumption
<1>. DEFINE p     == pushed[Len(delivered) + 1]
            bytes == read_wrapped(memory, read_offset, HeaderSize)
<1>1. Len(delivered) < Len(pushed) /\ read_offset \in Offsets
  BY DEF IInv, ConsumerInv, TypeOK
<1>2. /\ p \in Packets /\ Total(p.size) \in Nat /\ Total(p.size) < Capacity
      /\ \A i \in 0 .. (Total(p.size) - 1) :
           memory[Wrap(read_offset + i)] = Byte(p, i)
  BY <1>1, OldestInPlace
<1>. HIDE DEF p
<1>3. CopySize(HeaderSize) /\ HeaderSize <= Total(p.size)
  BY <1>2 DEF CopySize, Total, Packets
<1>4. ASSUME NEW i \in 0 .. (HeaderSize - 1)
      PROVE  bytes[i] = Byte(p, i)
  <2>1. bytes[i] = memory[CellOf(read_offset, HeaderSize, i)]
    BY DEF read_wrapped
  <2>2. CellOf(read_offset, HeaderSize, i) = Wrap(read_offset + i)
    BY <1>1, <1>3, CellIsWrap
  <2>3. i \in 0 .. (Total(p.size) - 1)
    BY <1>2, <1>3
  <2>. QED  BY <1>2, <2>1, <2>2, <2>3
<1>. HIDE DEF bytes
<1>5. bytes[0].packet = p
  <2>1. bytes[0] = Byte(p, 0)
    BY <1>4
  <2>. QED  BY <2>1 DEF Byte
<1>6. HeadersIn(bytes) = {p}
  BY <1>4, <1>5 DEF HeadersIn
<1>. QED  BY <1>6 DEF bytes, p

LEMMA PayloadRead ==
  ASSUME IInv, cpc = "payload"
  PROVE  read_wrapped(memory, data_read_offset, out_header.size)
           = Returned(out_header).data
<1>. USE CapacityAssumption, HeaderSizeAssumption, SizesAssumption
<1>. DEFINE p == pushed[Len(delivered) + 1]
            n == p.size
<1>1. /\ Len(delivered) < Len(pushed) /\ read_offset \in Offsets
      /\ out_header = p
  BY DEF IInv, ConsumerInv, TypeOK
<1>2. /\ p \in Packets /\ Total(n) \in Nat /\ Total(n) < Capacity
      /\ \A i \in 0 .. (Total(n) - 1) :
           memory[Wrap(read_offset + i)] = Byte(p, i)
  BY <1>1, OldestInPlace
<1>3. n \in Nat /\ n <= MaxPayload /\ Total(n) = HeaderSize + n
  BY <1>2 DEF Packets, Total
<1>. HIDE DEF n
<1>4. CopySize(n)
  BY <1>2, <1>3 DEF CopySize
<1>5. data_read_offset = Wrap(read_offset + HeaderSize)
  BY <1>1, <1>2, <1>3, ModIsWrap DEF data_read_offset, Offsets
<1>6. data_read_offset \in Offsets
  BY <1>1, <1>2, <1>3, <1>5, WrapWrap
<1>7. ASSUME NEW i \in 0 .. (n - 1)
      PROVE  memory[CellOf(data_read_offset, n, i)] = Byte(p, HeaderSize + i)
  <2>1. CellOf(data_read_offset, n, i) = Wrap(data_read_offset + i)
    BY <1>4, <1>6, CellIsWrap
  <2>2. Wrap(data_read_offset + i) = Wrap(read_offset + (HeaderSize + i))
    BY <1>1, <1>2, <1>3, <1>5, WrapWrap
  <2>3. HeaderSize + i \in 0 .. (Total(n) - 1)
    BY <1>3
  <2>. QED  BY <1>2, <2>1, <2>2, <2>3
<1>8. read_wrapped(memory, data_read_offset, n)
        = [i \in 0 .. (n - 1) |-> Byte(p, HeaderSize + i)]
  BY <1>7 DEF read_wrapped
<1>. QED  BY <1>1, <1>8 DEF Returned, n

-----------------------------------------------------------------------------
(* The producer's steps preserve the invariant.                            *)

(* The free space that push computes.                                      *)
LEMMA FreeSpace ==
  ASSUME IInv
  PROVE  free_space = Capacity - (StreamTail - StreamHead)
<1>1. /\ StreamHead \in Nat /\ StreamTail \in Nat /\ StreamHead <= StreamTail
      /\ write_offset \in Offsets /\ read_offset \in Offsets
  BY StreamFacts DEF IInv, TypeOK
<1>. QED  BY <1>1, CapacityAssumption
          DEF IInv, OffsetInv, free_space, Wrap, Offsets

LEMMA PushBeginStep ==
  ASSUME IInv, NEW n \in PayloadSizes, PushBegin(n)
  PROVE  IInv'
<1>. USE HeaderSizeAssumption, SizesAssumption, CapacityAssumption
<1>1. n \in 0 .. MaxPayload /\ Total(n) \in Nat
  BY DEF PushBegin, Total
<1>2. StreamHead \in Nat /\ StreamTail \in Nat
  BY StreamFacts DEF IInv
<1>3. StreamTail \in 0 .. StreamBound
  BY <1>1, <1>2 DEF PushBegin
<1>4. packet' \in Packets
  BY <1>1, <1>3 DEF PushBegin, Packets
<1>5. TypeOK'
  BY <1>4 DEF IInv, TypeOK, PushBegin, consumer
<1>6. StreamTail' = StreamTail /\ StreamHead' = StreamHead
      /\ InTransit' = InTransit
  BY DEF PushBegin, StreamTail, StreamHead, InTransit
<1>7. StreamInv'
  BY DEF IInv, StreamInv, PushBegin
<1>8. OffsetInv' /\ MemoryInv'
  BY <1>6 DEF IInv, OffsetInv, MemoryInv, PushBegin
<1>9. ProducerInv'
  <2>1. StreamTail - StreamHead + Total(n) < Capacity
    BY <1>1, <1>2, FreeSpace DEF PushBegin
  <2>2. packet'.at = StreamTail /\ packet'.size = n /\ ppc' = "header"
    BY DEF PushBegin
  <2>. QED  BY <1>6, <2>1, <2>2 DEF ProducerInv
<1>10. ConsumerInv'
  BY DEF IInv, ConsumerInv, PushBegin, consumer
<1>. QED  BY <1>5, <1>7, <1>8, <1>9, <1>10 DEF IInv

(* What the copies of a push leave as it was.                              *)
LEMMA PushCopyKeeps ==
  ASSUME IInv, UNCHANGED <<read_offset, consumer, pushed, delivered>>,
         \A d \in 0 .. (StreamTail - StreamHead - 1) :
           memory'[Wrap(read_offset + d)] = memory[Wrap(read_offset + d)]
  PROVE  StreamInv' /\ MemoryInv' /\ ConsumerInv'
         /\ StreamTail' = StreamTail /\ StreamHead' = StreamHead
<1>. USE HeaderSizeAssumption, SizesAssumption, CapacityAssumption
<1>1. StreamTail' = StreamTail /\ StreamHead' = StreamHead
      /\ InTransit' = InTransit
  BY DEF StreamTail, StreamHead, InTransit
<1>2. StreamInv' /\ ConsumerInv'
  BY DEF IInv, StreamInv, ConsumerInv, consumer
<1>3. ASSUME NEW k \in InTransit, NEW i \in 0 .. (Total(pushed[k].size) - 1)
      PROVE  memory'[Wrap(read_offset + (pushed[k].at + i - StreamHead))]
               = Byte(pushed[k], i)
  <2>1. /\ pushed[k] \in Packets /\ StreamHead <= pushed[k].at
        /\ End(pushed[k]) <= StreamTail
        /\ StreamHead \in Nat /\ StreamTail \in Nat
    BY StreamFacts DEF IInv
  <2>2. /\ pushed[k].at \in Nat /\ Total(pushed[k].size) \in Nat
        /\ End(pushed[k]) = pushed[k].at + Total(pushed[k].size)
    BY <2>1 DEF Packets, Total, End
  <2>3. pushed[k].at + i - StreamHead \in 0 .. (StreamTail - StreamHead - 1)
    BY <2>1, <2>2
  <2>4. memory[Wrap(read_offset + (pushed[k].at + i - StreamHead))]
          = Byte(pushed[k], i)
    BY DEF IInv, MemoryInv
  <2>. QED  BY <2>3, <2>4
<1>4. MemoryInv'
  BY <1>1, <1>3 DEF MemoryInv
<1>. QED  BY <1>1, <1>2, <1>4

LEMMA PushHeaderStep ==
  ASSUME IInv, PushHeader
  PROVE  IInv'
<1>. USE HeaderSizeAssumption, SizesAssumption, CapacityAssumption
<1>1. /\ packet \in Packets /\ packet.size \in Nat
      /\ write_offset \in Offsets
  BY DEF IInv, TypeOK, Packets
<1>2. 0 + HeaderSize <= Total(packet.size) /\ ppc # "idle"
      /\ Wrap(write_offset + 0) = write_offset
  BY <1>1 DEF Total, PushHeader, Wrap, Offsets
<1>3. /\ memory' \in [Offsets -> Bytes]
      /\ \A i \in 0 .. (HeaderSize - 1) :
           memory'[Wrap(write_offset + (0 + i))] = Byte(packet, 0 + i)
      /\ \A d \in 0 .. (StreamTail - StreamHead - 1) :
           memory'[Wrap(read_offset + d)] = memory[Wrap(read_offset + d)]
  <2>1. 0 \in Nat /\ HeaderSize \in Nat
    OBVIOUS
  <2>2. memory' = write_wrapped(memory, Wrap(write_offset + 0), packet, 0,
                                HeaderSize)
    BY <1>2 DEF PushHeader
  <2>. HIDE HeaderSizeAssumption, SizesAssumption, CapacityAssumption
  <2>. QED  BY <1>2, <2>1, <2>2, PushCopy
<1>4. StreamInv' /\ MemoryInv' /\ ConsumerInv'
      /\ StreamTail' = StreamTail /\ StreamHead' = StreamHead
  BY <1>3, PushCopyKeeps DEF PushHeader
<1>5. TypeOK'
  BY <1>3 DEF IInv, TypeOK, PushHeader, consumer
<1>6. OffsetInv'
  BY <1>4 DEF IInv, OffsetInv, PushHeader
<1>7. ProducerInv'
  <2>1. ASSUME NEW i \in 0 .. (HeaderSize - 1)
        PROVE  memory'[Wrap(write_offset + i)] = Byte(packet, i)
    BY <1>3
  <2>2. ppc' = "publish" => Total(packet.size) = HeaderSize
    BY <1>1 DEF PushHeader, Total
  <2>. QED  BY <1>1, <1>4, <2>1, <2>2 DEF IInv, ProducerInv, PushHeader
<1>. QED  BY <1>4, <1>5, <1>6, <1>7 DEF IInv

LEMMA PushPayloadStep ==
  ASSUME IInv, PushPayload
  PROVE  IInv'
<1>. USE HeaderSizeAssumption, SizesAssumption, CapacityAssumption
<1>1. /\ packet \in Packets /\ packet.size \in Nat /\ packet.size <= MaxPayload
      /\ write_offset \in Offsets /\ ppc # "idle"
      /\ Total(packet.size) = HeaderSize + packet.size
  BY DEF IInv, TypeOK, Packets, Total, PushPayload
<1>2. HeaderSize < Capacity
  <2>1. StreamTail - StreamHead \in Nat
    BY StreamFacts DEF IInv
  <2>2. StreamTail - StreamHead + Total(packet.size) < Capacity
    BY <1>1 DEF IInv, ProducerInv
  <2>. QED  BY <1>1, <2>1, <2>2
<1>3. data_write_offset = Wrap(write_offset + HeaderSize)
  BY <1>1, <1>2, ModIsWrap DEF data_write_offset, Offsets
<1>4. /\ memory' \in [Offsets -> Bytes]
      /\ \A i \in 0 .. (packet.size - 1) :
           memory'[Wrap(write_offset + (HeaderSize + i))]
             = Byte(packet, HeaderSize + i)
      /\ \A i \in 0 .. (HeaderSize - 1) :
           memory'[Wrap(write_offset + i)] = memory[Wrap(write_offset + i)]
      /\ \A d \in 0 .. (StreamTail - StreamHead - 1) :
           memory'[Wrap(read_offset + d)] = memory[Wrap(read_offset + d)]
  <2>1. HeaderSize \in Nat /\ HeaderSize + packet.size <= Total(packet.size)
    BY <1>1
  <2>2. memory' = write_wrapped(memory, Wrap(write_offset + HeaderSize), packet,
                                HeaderSize, packet.size)
    BY <1>3 DEF PushPayload
  <2>. HIDE HeaderSizeAssumption, SizesAssumption, CapacityAssumption
  <2>. QED  BY <1>1, <2>1, <2>2, PushCopy
<1>5. StreamInv' /\ MemoryInv' /\ ConsumerInv'
      /\ StreamTail' = StreamTail /\ StreamHead' = StreamHead
  BY <1>4, PushCopyKeeps DEF PushPayload
<1>6. TypeOK'
  BY <1>4 DEF IInv, TypeOK, PushPayload, consumer
<1>7. OffsetInv'
  BY <1>5 DEF IInv, OffsetInv, PushPayload
<1>8. ProducerInv'
  <2>1. ASSUME NEW i \in 0 .. (Total(packet.size) - 1)
        PROVE  memory'[Wrap(write_offset + i)] = Byte(packet, i)
    <3>1. CASE i < HeaderSize
      <4>1. memory[Wrap(write_offset + i)] = Byte(packet, i)
        BY <3>1 DEF IInv, ProducerInv, PushPayload
      <4>. QED  BY <1>4, <3>1, <4>1
    <3>2. CASE i >= HeaderSize
      <4>1. i - HeaderSize \in 0 .. (packet.size - 1)
            /\ HeaderSize + (i - HeaderSize) = i
        BY <1>1, <3>2
      <4>. QED  BY <1>4, <4>1
    <3>. QED  BY <3>1, <3>2
  <2>. QED  BY <1>5, <2>1 DEF IInv, ProducerInv, PushPayload
<1>. QED  BY <1>5, <1>6, <1>7, <1>8 DEF IInv

LEMMA PushPublishStep ==
  ASSUME IInv, PushPublish
  PROVE  IInv'
<1>. USE HeaderSizeAssumption, SizesAssumption, CapacityAssumption
<1>. DEFINE all == Total(packet.size)
            N   == Len(pushed)
<1>1. /\ packet \in Packets /\ packet.size \in Nat /\ packet.at \in Nat
      /\ write_offset \in Offsets /\ read_offset \in Offsets
      /\ all \in Nat /\ all = HeaderSize + packet.size /\ all > 0
      /\ pushed \in Seq(Packets) /\ N \in Nat
  BY DEF IInv, TypeOK, Packets, Total
<1>2. /\ StreamHead \in Nat /\ StreamTail \in Nat /\ StreamHead <= StreamTail
      /\ Len(delivered) <= N /\ Len(delivered) \in Nat
  BY StreamFacts DEF IInv, StreamInv
<1>3. /\ packet.at = StreamTail
      /\ StreamTail - StreamHead + all < Capacity
      /\ \A i \in 0 .. (all - 1) : memory[Wrap(write_offset + i)] = Byte(packet, i)
  BY DEF IInv, ProducerInv, PushPublish
<1>4. /\ pushed' \in Seq(Packets) /\ Len(pushed') = N + 1
      /\ \A k \in 1 .. N : pushed'[k] = pushed[k]
      /\ pushed'[N + 1] = packet
      /\ delivered' = delivered
  BY <1>1 DEF PushPublish
<1>5. write_offset' = Wrap(write_offset + all) /\ write_offset' \in Offsets
  <2>1. data_write_offset = Wrap(write_offset + HeaderSize)
    BY <1>1, <1>2, <1>3, ModIsWrap DEF data_write_offset, Offsets
  <2>2. /\ data_write_offset \in Offsets
        /\ Wrap(data_write_offset + packet.size) = Wrap(write_offset + all)
    BY <1>1, <1>2, <1>3, <2>1, WrapWrap
  <2>3. (data_write_offset + packet.size) % Capacity
          = Wrap(data_write_offset + packet.size)
    <3>1. /\ data_write_offset + packet.size \in Nat
          /\ data_write_offset + packet.size < 2 * Capacity
      BY <1>1, <1>2, <1>3, <2>2, SMTT(20) DEF Offsets
    <3>. QED  BY <3>1, ModIsWrap
  <2>4. Wrap(write_offset + all) \in Offsets
    <3>1. all + 0 < Capacity
      BY <1>1, <1>2, <1>3
    <3>. QED  BY <1>1, <3>1, WrapWrap
  <2>. QED  BY <2>2, <2>3, <2>4 DEF PushPublish
<1>6. StreamTail' = StreamTail + all
  <2>1. StreamTail' = End(packet)
    BY <1>1, <1>4 DEF StreamTail
  <2>. QED  BY <1>1, <1>2, <1>3, <2>1 DEF End
<1>7. StreamHead' = StreamHead
  BY <1>1, <1>2, <1>4 DEF StreamHead, IInv, StreamInv
<1>8. TypeOK'
  BY <1>4, <1>5 DEF IInv, TypeOK, PushPublish, consumer
<1>9. ASSUME NEW j \in 1 .. N
      PROVE  End(pushed[j]) <= StreamTail
  <2>1. CASE j = N
    BY <1>1, <2>1, <1>2 DEF StreamTail
  <2>2. CASE j < N
    <3>1. End(pushed[j]) <= pushed[N].at
      BY <1>1, <2>2 DEF IInv, StreamInv
    <3>2. StreamTail = End(pushed[N]) /\ pushed[N] \in Packets /\ pushed[j] \in Packets
      BY <1>1, <2>2 DEF StreamTail
    <3>. QED  BY <3>1, <3>2 DEF Packets, End, Total
  <2>. QED  BY <1>1, <2>1, <2>2
<1>10. StreamInv'
  <2>1. Len(delivered') <= Len(pushed')
    BY <1>1, <1>2, <1>4
  <2>2. delivered' \in Seq({Returned(p) : p \in Packets})
    BY <1>4 DEF IInv, StreamInv
  <2>3. \A k \in 1 .. Len(delivered') : delivered'[k] = Returned(pushed'[k])
    BY <1>1, <1>2, <1>4 DEF IInv, StreamInv
  <2>4. ASSUME NEW k \in 1 .. (N + 1)
        PROVE  pushed'[k].at = IF k = 1 THEN 0 ELSE End(pushed'[k - 1])
    <3>1. CASE k \in 1 .. N
      <4>1. pushed'[k] = pushed[k] /\ (k # 1 => pushed'[k - 1] = pushed[k - 1])
        BY <1>1, <1>4, <3>1
      <4>. QED  BY <3>1, <4>1 DEF IInv, StreamInv
    <3>2. CASE k = N + 1
      <4>1. pushed'[k].at = StreamTail
        BY <1>3, <1>4, <3>2
      <4>2. CASE N = 0
        BY <1>1, <3>2, <4>1, <4>2 DEF StreamTail
      <4>3. CASE N # 0
        <5>1. /\ pushed'[k - 1] = pushed[N] /\ k # 1
              /\ StreamTail = End(pushed[N])
          BY <1>1, <1>4, <3>2, <4>3 DEF StreamTail
        <5>. QED  BY <4>1, <5>1
      <4>. QED  BY <4>2, <4>3
    <3>. QED  BY <1>1, <3>1, <3>2
  <2>5. ASSUME NEW j \in 1 .. (N + 1), NEW k \in 1 .. (N + 1), j < k
        PROVE  End(pushed'[j]) <= pushed'[k].at
    <3>1. j \in 1 .. N /\ pushed'[j] = pushed[j]
      BY <1>1, <1>4, <2>5
    <3>2. CASE k \in 1 .. N
      BY <1>4, <2>5, <3>1, <3>2 DEF IInv, StreamInv
    <3>3. CASE k = N + 1
      BY <1>3, <1>4, <1>9, <3>1, <3>3
    <3>. QED  BY <1>1, <3>2, <3>3
  <2>. QED  BY <1>4, <2>1, <2>2, <2>3, <2>4, <2>5 DEF StreamInv
<1>11. OffsetInv'
  <2>1. write_offset = Wrap(read_offset + (StreamTail - StreamHead))
    BY DEF IInv, OffsetInv
  <2>2. Wrap(write_offset + all)
          = Wrap(read_offset + ((StreamTail - StreamHead) + all))
    BY <1>1, <1>2, <1>3, <2>1, WrapWrap
  <2>3. (StreamTail - StreamHead) + all = StreamTail' - StreamHead'
    BY <1>1, <1>2, <1>6, <1>7
  <2>4. read_offset' = read_offset
    BY DEF PushPublish
  <2>. QED  BY <1>3, <1>5, <2>2, <2>3, <2>4 DEF OffsetInv
<1>12. MemoryInv'
  <2>1. memory' = memory /\ read_offset' = read_offset
    BY DEF PushPublish
  <2>2. SUFFICES ASSUME NEW k \in InTransit',
                        NEW i \in 0 .. (Total(pushed'[k].size) - 1)
                 PROVE  memory[Wrap(read_offset + (pushed'[k].at + i - StreamHead))]
                          = Byte(pushed'[k], i)
    BY <1>7, <2>1 DEF MemoryInv
  <2>3. k \in (Len(delivered) + 1) .. (N + 1)
    BY <1>4 DEF InTransit
  <2>4. CASE k \in 1 .. N
    <3>1. k \in InTransit /\ pushed'[k] = pushed[k]
      BY <1>2, <1>4, <2>3, <2>4 DEF InTransit
    <3>. QED  BY <3>1 DEF IInv, MemoryInv
  <2>5. CASE k = N + 1
    <3>1. pushed'[k] = packet /\ i \in 0 .. (all - 1)
      BY <1>4, <2>5
    <3>2. memory[Wrap(write_offset + i)] = Byte(packet, i)
      BY <1>3, <3>1
    <3>3. Wrap(write_offset + i)
            = Wrap(read_offset + ((StreamTail - StreamHead) + i))
      <4>1. write_offset = Wrap(read_offset + (StreamTail - StreamHead))
        BY DEF IInv, OffsetInv
      <4>2. /\ i \in Nat /\ StreamTail - StreamHead \in Nat
            /\ (StreamTail - StreamHead) + i < Capacity
        BY <1>1, <1>2, <1>3, <3>1
      <4>. QED  BY <1>1, <4>1, <4>2, WrapWrap
    <3>4. (StreamTail - StreamHead) + i = packet.at + i - StreamHead
      BY <1>1, <1>2, <1>3, <3>1
    <3>. QED  BY <3>1, <3>2, <3>3, <3>4
  <2>. QED  BY <1>1, <1>2, <2>3, <2>4, <2>5
<1>13. ProducerInv'
  BY DEF ProducerInv, PushPublish
<1>14. ConsumerInv'
  <2>1. ASSUME Len(delivered) < N
        PROVE  /\ Len(delivered') < Len(pushed')
               /\ pushed'[Len(delivered') + 1] = pushed[Len(delivered) + 1]
    <3>1. Len(delivered) + 1 \in 1 .. N
      BY <1>1, <1>2, <2>1
    <3>. QED  BY <1>1, <1>2, <1>4, <2>1, <3>1
  <2>. QED  BY <2>1 DEF IInv, ConsumerInv, PushPublish, consumer
<1>. QED  BY <1>8, <1>10, <1>11, <1>12, <1>13, <1>14 DEF IInv

-----------------------------------------------------------------------------
(* The consumer's steps preserve the invariant.                            *)

(* Every step of pop but the last changes the consumer's locals only.      *)
LEMMA PopKeeps ==
  ASSUME IInv, UNCHANGED <<memory, write_offset, read_offset, producer,
                           pushed, delivered>>
  PROVE  StreamInv' /\ OffsetInv' /\ MemoryInv' /\ ProducerInv'
<1>1. StreamTail' = StreamTail /\ StreamHead' = StreamHead
      /\ InTransit' = InTransit
  BY DEF StreamTail, StreamHead, InTransit
<1>2. StreamInv'
  BY DEF IInv, StreamInv
<1>3. OffsetInv' /\ MemoryInv'
  BY <1>1 DEF IInv, OffsetInv, MemoryInv
<1>4. ProducerInv'
  BY <1>1 DEF IInv, ProducerInv, producer
<1>. QED  BY <1>2, <1>3, <1>4

LEMMA PopBeginStep ==
  ASSUME IInv, NEW n \in RoomSizes, PopBegin(n)
  PROVE  IInv'
<1>1. StreamInv' /\ OffsetInv' /\ MemoryInv' /\ ProducerInv'
  BY PopKeeps DEF PopBegin
<1>2. TypeOK'
  BY SizesAssumption DEF IInv, TypeOK, PopBegin, producer
<1>3. Len(delivered) < Len(pushed)
  <2>1. SUFFICES ASSUME Len(delivered) = Len(pushed) PROVE FALSE
    BY StreamFacts DEF IInv, StreamInv
  <2>2. StreamTail = StreamHead /\ StreamHead \in Nat
    BY <2>1, StreamFacts DEF IInv, StreamInv, TypeOK, StreamTail, StreamHead
  <2>3. write_offset = Wrap(read_offset + 0)
    BY <2>2 DEF IInv, OffsetInv
  <2>. QED  BY <2>3, CapacityAssumption DEF PopBegin, Wrap, IInv, TypeOK, Offsets
<1>4. ConsumerInv'
  BY <1>3 DEF ConsumerInv, PopBegin
<1>. QED  BY <1>1, <1>2, <1>4 DEF IInv

LEMMA PopTooSmallStep ==
  ASSUME IInv, PopTooSmall
  PROVE  IInv'
<1>1. StreamInv' /\ OffsetInv' /\ MemoryInv' /\ ProducerInv'
  BY PopKeeps DEF PopTooSmall
<1>2. out_header' \in Packets
  BY HeaderRead, OldestInPlace DEF PopTooSmall, IInv, ConsumerInv
<1>3. TypeOK' /\ ConsumerInv'
  BY <1>2 DEF IInv, TypeOK, ConsumerInv, PopTooSmall, producer
<1>. QED  BY <1>1, <1>3 DEF IInv

LEMMA PopHeaderStep ==
  ASSUME IInv, PopHeader
  PROVE  IInv'
<1>1. StreamInv' /\ OffsetInv' /\ MemoryInv' /\ ProducerInv'
  BY PopKeeps DEF PopHeader
<1>2. /\ out_header' = pushed[Len(delivered) + 1]
      /\ Len(delivered) < Len(pushed) /\ out_buffer = <<>>
  BY HeaderRead DEF PopHeader, IInv, ConsumerInv
<1>3. out_header' \in Packets /\ out_header'.size \in Nat
  BY <1>2, OldestInPlace, SizesAssumption DEF Packets
<1>4. TypeOK'
  BY <1>3 DEF IInv, TypeOK, PopHeader, producer
<1>5. out_header'.size = 0 => Returned(out_header').data = <<>>
  <2>1. SUFFICES ASSUME out_header'.size = 0
                 PROVE  Returned(out_header').data = <<>>
    OBVIOUS
  <2>2. Returned(out_header').data = [i \in {} |-> Byte(out_header', HeaderSize + i)]
    BY <2>1 DEF Returned
  <2>. QED  BY <2>2
<1>6. ConsumerInv'
  BY <1>2, <1>3, <1>5 DEF ConsumerInv, PopHeader
<1>. QED  BY <1>1, <1>4, <1>6 DEF IInv

LEMMA PopPayloadStep ==
  ASSUME IInv, PopPayload
  PROVE  IInv'
<1>1. StreamInv' /\ OffsetInv' /\ MemoryInv' /\ ProducerInv'
  BY PopKeeps DEF PopPayload
<1>2. TypeOK'
  BY DEF IInv, TypeOK, PopPayload, producer
<1>3. out_buffer' = Returned(out_header).data
  BY PayloadRead DEF PopPayload
<1>4. ConsumerInv'
  BY <1>3 DEF IInv, ConsumerInv, PopPayload
<1>. QED  BY <1>1, <1>2, <1>4 DEF IInv

LEMMA PopCommitStep ==
  ASSUME IInv, PopCommit
  PROVE  IInv'
<1>. USE HeaderSizeAssumption, SizesAssumption, CapacityAssumption
<1>. DEFINE D   == Len(delivered)
            p   == pushed[D + 1]
            all == Total(p.size)
<1>1. /\ D < Len(pushed) /\ D \in Nat /\ Len(pushed) \in Nat
      /\ out_header = p /\ out_buffer = Returned(p).data
      /\ read_offset \in Offsets
  BY StreamFacts DEF IInv, ConsumerInv, PopCommit, TypeOK
<1>2. /\ p \in Packets /\ all \in Nat /\ all < Capacity
      /\ End(p) = StreamHead + all /\ End(p) <= StreamTail
  BY <1>1, OldestInPlace
<1>3. /\ StreamHead \in Nat /\ StreamTail \in Nat
      /\ all = HeaderSize + p.size /\ p.size \in Nat
  BY <1>2, StreamFacts DEF IInv, Total, Packets
<1>4. read_offset' = Wrap(read_offset + all) /\ read_offset' \in Offsets
  <2>1. read_offset + HeaderSize + p.size = read_offset + all
    BY <1>1, <1>3 DEF Offsets
  <2>2. (read_offset + all) % Capacity = Wrap(read_offset + all)
    BY <1>1, <1>2, ModIsWrap DEF Offsets
  <2>. QED  BY <1>1, <1>2, <2>1, <2>2 DEF PopCommit, Wrap, Offsets
<1>5. /\ delivered' \in Seq({Returned(q) : q \in Packets})
      /\ Len(delivered') = D + 1
      /\ \A k \in 1 .. D : delivered'[k] = delivered[k]
      /\ delivered'[D + 1] = Returned(p)
  <2>1. delivered' = Append(delivered, Returned(p))
    BY <1>1 DEF PopCommit, Returned
  <2>2. Returned(p) \in {Returned(q) : q \in Packets}
    BY <1>2
  <2>3. delivered \in Seq({Returned(q) : q \in Packets})
    BY DEF IInv, StreamInv
  <2>. HIDE DEF p
  <2>. QED  BY <2>1, <2>2, <2>3
<1>6. /\ pushed' = pushed /\ memory' = memory /\ write_offset' = write_offset
      /\ ppc' = ppc /\ packet' = packet
  BY DEF PopCommit, producer
<1>7. StreamTail' = StreamTail /\ StreamHead' = StreamHead + all
  <2>1. StreamHead' = End(p)
    BY <1>1, <1>5, <1>6 DEF StreamHead
  <2>. QED  BY <1>2, <1>6, <2>1 DEF StreamTail
<1>8. TypeOK'
  BY <1>4 DEF IInv, TypeOK, PopCommit, producer
<1>9. StreamInv'
  <2>1. ASSUME NEW k \in 1 .. (D + 1)
        PROVE  delivered'[k] = Returned(pushed[k])
    <3>1. CASE k \in 1 .. D
      BY <1>5, <3>1 DEF IInv, StreamInv
    <3>2. CASE k = D + 1
      BY <1>5, <3>2
    <3>. QED  BY <1>1, <3>1, <3>2
  <2>. QED  BY <1>1, <1>5, <1>6, <2>1 DEF IInv, StreamInv
<1>. HIDE DEF all, p
<1>9a. StreamHead + all <= StreamTail /\ all \in Nat
  BY <1>2, <1>3
<1>10. OffsetInv'
  <2>1. /\ StreamTail - StreamHead < Capacity
        /\ write_offset = Wrap(read_offset + (StreamTail - StreamHead))
    BY DEF IInv, OffsetInv
  <2>2. /\ StreamTail' - StreamHead' \in Nat
        /\ StreamTail - StreamHead = all + (StreamTail' - StreamHead')
    BY <1>3, <1>7, <1>9a
  <2>3. Wrap(read_offset' + (StreamTail' - StreamHead'))
          = Wrap(read_offset + (StreamTail - StreamHead))
    BY <1>1, <1>2, <1>4, <2>1, <2>2, WrapWrap
  <2>4. StreamTail' - StreamHead' < Capacity
    BY <1>2, <2>1, <2>2
  <2>. QED  BY <1>6, <2>1, <2>3, <2>4 DEF OffsetInv
<1>11. MemoryInv'
  <2>1. SUFFICES ASSUME NEW k \in InTransit',
                        NEW i \in 0 .. (Total(pushed[k].size) - 1)
                 PROVE  memory[Wrap(read_offset' + (pushed[k].at + i - StreamHead'))]
                          = Byte(pushed[k], i)
    BY <1>6 DEF MemoryInv
  <2>2. /\ k \in InTransit /\ k \in 1 .. Len(pushed) /\ D + 1 \in 1 .. Len(pushed)
        /\ D + 1 < k
    BY <1>1, <1>5, <1>6 DEF InTransit
  <2>3. /\ pushed[k] \in Packets /\ End(pushed[k]) <= StreamTail
        /\ End(p) <= pushed[k].at
    BY <2>2, StreamFacts DEF IInv, StreamInv, p
  <2>4. /\ pushed[k].at \in Nat /\ Total(pushed[k].size) \in Nat
        /\ End(pushed[k]) = pushed[k].at + Total(pushed[k].size)
    BY <2>3 DEF Packets, Total, End
  <2>. DEFINE d == pushed[k].at + i - StreamHead'
  <2>5. /\ d \in Nat /\ all + d < Capacity
        /\ pushed[k].at + i - StreamHead = all + d
    <3>1. StreamHead + all <= pushed[k].at
      BY <1>2, <2>3
    <3>2. pushed[k].at + i < StreamTail /\ i \in Nat
      BY <1>3, <2>3, <2>4
    <3>3. StreamTail - StreamHead < Capacity
      BY DEF IInv, OffsetInv
    <3>. QED  BY <1>3, <1>7, <1>9a, <2>4, <3>1, <3>2, <3>3
  <2>. HIDE DEF d
  <2>6. Wrap(read_offset' + d) = Wrap(read_offset + (all + d))
    BY <1>1, <1>2, <1>4, <2>5, WrapWrap
  <2>7. memory[Wrap(read_offset + (pushed[k].at + i - StreamHead))]
          = Byte(pushed[k], i)
    BY <2>2 DEF IInv, MemoryInv
  <2>. QED  BY <2>5, <2>6, <2>7 DEF d
<1>12. ProducerInv'
  <2>1. ASSUME packet.at = StreamTail,
               StreamTail - StreamHead + Total(packet.size) < Capacity,
               packet \in Packets
        PROVE  StreamTail' - StreamHead' + Total(packet.size) < Capacity
    <3>1. Total(packet.size) \in Nat
      BY <2>1 DEF Packets, Total
    <3>. QED  BY <1>3, <1>7, <1>9a, <2>1, <3>1
  <2>. QED  BY <1>6, <1>7, <2>1 DEF IInv, TypeOK, ProducerInv
<1>13. ConsumerInv'
  BY DEF ConsumerInv, PopCommit
<1>. QED  BY <1>8, <1>9, <1>10, <1>11, <1>12, <1>13 DEF IInv

-----------------------------------------------------------------------------
(* The theorems.                                                           *)

LEMMA InitInv == Init => IInv
<1>. USE CapacityAssumption, HeaderSizeAssumption, SizesAssumption
<1>1. SUFFICES ASSUME Init PROVE IInv
  OBVIOUS
<1>2. Blank \in Bytes /\ Blank.packet \in Packets
  BY DEF Blank, Byte, Bytes, Packets
<1>3. TypeOK
  BY <1>1, <1>2 DEF Init, TypeOK, Offsets
<1>4. StreamTail = 0 /\ StreamHead = 0 /\ Len(pushed) = 0 /\ Len(delivered) = 0
  BY <1>1 DEF Init, StreamTail, StreamHead
<1>5. StreamInv
  BY <1>1, <1>4 DEF Init, StreamInv
<1>6. OffsetInv /\ MemoryInv
  BY <1>1, <1>4 DEF Init, OffsetInv, MemoryInv, InTransit, Wrap
<1>7. ProducerInv /\ ConsumerInv
  BY <1>1 DEF Init, ProducerInv, ConsumerInv
<1>. QED  BY <1>3, <1>5, <1>6, <1>7 DEF IInv

LEMMA NextInv == IInv /\ [Next]_vars => IInv'
<1>. SUFFICES ASSUME IInv, [Next]_vars PROVE IInv'
  OBVIOUS
<1>1. CASE UNCHANGED vars
  BY <1>1 DEF vars, producer, consumer, IInv, TypeOK, StreamInv, OffsetInv,
              MemoryInv, ProducerInv, ConsumerInv, StreamTail, StreamHead,
              InTransit
<1>2. ASSUME NEW n \in PayloadSizes, PushTooLarge(n) \/ PushFull(n)
      PROVE  IInv'
  BY <1>1, <1>2 DEF PushTooLarge, PushFull
<1>3. ASSUME NEW n \in PayloadSizes, PushBegin(n)
      PROVE  IInv'
  BY <1>3, PushBeginStep
<1>4. CASE PushHeader
  BY <1>4, PushHeaderStep
<1>5. CASE PushPayload
  BY <1>5, PushPayloadStep
<1>6. CASE PushPublish
  BY <1>6, PushPublishStep
<1>7. CASE PopEmpty
  BY <1>1, <1>7 DEF PopEmpty
<1>8. ASSUME NEW n \in RoomSizes, PopBegin(n)
      PROVE  IInv'
  BY <1>8, PopBeginStep
<1>9. CASE PopTooSmall
  BY <1>9, PopTooSmallStep
<1>10. CASE PopHeader
  BY <1>10, PopHeaderStep
<1>11. CASE PopPayload
  BY <1>11, PopPayloadStep
<1>12. CASE PopCommit
  BY <1>12, PopCommitStep
<1>. QED  BY <1>1, <1>2, <1>3, <1>4, <1>5, <1>6, <1>7, <1>8, <1>9, <1>10,
             <1>11, <1>12 DEF Next, Push, Pop

(* Every state push and pop can reach, interleaved in any order, satisfies *)
(* the inductive invariant.                                                *)
THEOREM Inductive == Spec => []IInv
<1>. QED  BY InitInv, NextInv, PTL DEF Spec

(* The variables of the ring keep their types; in particular, both offsets *)
(* stay inside the ring.                                                   *)
THEOREM TypeCorrect == Spec => []TypeOK
<1>1. IInv => TypeOK
  BY DEF IInv
<1>. QED  BY <1>1, Inductive, PTL

(* push's comparison of the two offsets always computes the free bytes.    *)
THEOREM FreeSpaceExact == Spec => []FreeSpaceIsExact
<1>1. IInv => FreeSpaceIsExact
  BY FreeSpace DEF FreeSpaceIsExact
<1>. QED  BY <1>1, Inductive, PTL

(* From the successful push of a packet to its release by pop, the ring    *)
(* holds every byte of it.                                                 *)
THEOREM TransitSafe == Spec => []TransitIntact
<1>1. ASSUME IInv PROVE TransitIntact
  <2>. USE CapacityAssumption, HeaderSizeAssumption, SizesAssumption
  <2>1. SUFFICES ASSUME NEW k \in InTransit,
                        NEW i \in 0 .. (Total(pushed[k].size) - 1)
                 PROVE  memory[CellAt(pushed[k].at + i)] = Byte(pushed[k], i)
    BY DEF TransitIntact
  <2>2. /\ pushed[k] \in Packets /\ StreamHead <= pushed[k].at
        /\ End(pushed[k]) <= StreamTail
        /\ StreamHead \in Nat /\ StreamTail \in Nat /\ read_offset \in Offsets
    BY <1>1, StreamFacts DEF IInv, TypeOK
  <2>3. /\ pushed[k].at \in Nat /\ Total(pushed[k].size) \in Nat
        /\ End(pushed[k]) = pushed[k].at + Total(pushed[k].size)
    BY <2>2 DEF Packets, Total, End
  <2>. DEFINE d == pushed[k].at + i - StreamHead
  <2>4. d \in Nat /\ d < Capacity
    BY <1>1, <2>2, <2>3 DEF IInv, OffsetInv
  <2>5. (read_offset + d) % Capacity = Wrap(read_offset + d)
    BY <2>2, <2>4, ModIsWrap DEF Offsets
  <2>6. CellAt(pushed[k].at + i) = (read_offset + d) % Capacity
    BY <2>2, <2>3, <2>4 DEF CellAt
  <2>7. memory[Wrap(read_offset + d)] = Byte(pushed[k], i)
    BY <1>1 DEF IInv, MemoryInv
  <2>. QED  BY <2>5, <2>6, <2>7
<1>. QED  BY <1>1, Inductive, PTL

(* The cells of a copy, by their distance from the read offset.            *)
LEMMA CopyCells ==
  ASSUME NEW b \in Offsets, NEW f \in Nat, NEW n, f + n < Capacity, CopySize(n)
  PROVE  \A a \in CellsOf(Wrap(b + f), n) :
           \E i \in 0 .. (n - 1) : a = Wrap(b + (f + i))
<1>. USE CapacityAssumption
<1>1. SUFFICES ASSUME NEW i \in 0 .. (n - 1)
               PROVE  CellOf(Wrap(b + f), n, i) = Wrap(b + (f + i))
  BY DEF CellsOf
<1>2. n \in Nat /\ f + 0 < Capacity
  BY DEF CopySize
<1>3. Wrap(b + f) \in Offsets
  BY <1>2, WrapWrap
<1>4. CellOf(Wrap(b + f), n, i) = Wrap(Wrap(b + f) + i)
  BY <1>3, CellIsWrap
<1>. QED  BY <1>2, <1>4, WrapWrap

(* The bytes that push is about to write are all beyond those in transit.  *)
LEMMA ProducerAhead ==
  ASSUME IInv
  PROVE  \A a \in ProducerCells : \E d \in Offsets :
           d >= StreamTail - StreamHead /\ a = Wrap(read_offset + d)
<1>. USE CapacityAssumption, HeaderSizeAssumption, SizesAssumption
<1>. DEFINE used == StreamTail - StreamHead
<1>1. /\ packet \in Packets /\ packet.size \in 0 .. MaxPayload
      /\ write_offset \in Offsets /\ read_offset \in Offsets
      /\ used \in Nat /\ used < Capacity
      /\ write_offset = Wrap(read_offset + used)
      /\ Total(packet.size) = HeaderSize + packet.size
  BY StreamFacts, SMTT(20) DEF IInv, TypeOK, OffsetInv, Packets, Total
<1>. HIDE DEF used
<1>2. SUFFICES ASSUME NEW a \in ProducerCells
               PROVE  \E d \in Offsets : d >= used /\ a = Wrap(read_offset + d)
  BY DEF used
<1>3. CASE ppc = "header" \/ ppc = "payload"
  <2>1. used + HeaderSize + packet.size < Capacity
    BY <1>1, <1>3 DEF IInv, ProducerInv, used
  <2>2. CASE ppc = "header"
    <3>1. ProducerCells = CellsOf(Wrap(read_offset + used), HeaderSize)
      BY <1>1, <2>2 DEF ProducerCells
    <3>2. CopySize(HeaderSize) /\ used + HeaderSize < Capacity
      BY <1>1, <2>1 DEF CopySize
    <3>3. PICK i \in 0 .. (HeaderSize - 1) : a = Wrap(read_offset + (used + i))
      BY <1>1, <3>1, <3>2, CopyCells, SMTT(20)
    <3>4. used + i \in Offsets /\ used + i >= used
      BY <1>1, <3>2 DEF Offsets
    <3>. QED  BY <3>3, <3>4
  <2>3. CASE ppc = "payload"
    <3>1. data_write_offset = Wrap(write_offset + HeaderSize)
      BY <1>1, <2>1, ModIsWrap DEF data_write_offset, Offsets
    <3>2. data_write_offset = Wrap(read_offset + (used + HeaderSize))
      BY <1>1, <2>1, <3>1, WrapWrap
    <3>3. ProducerCells
            = CellsOf(Wrap(read_offset + (used + HeaderSize)), packet.size)
      BY <2>3, <3>2 DEF ProducerCells
    <3>4. /\ CopySize(packet.size) /\ used + HeaderSize \in Nat
          /\ (used + HeaderSize) + packet.size < Capacity
      BY <1>1, <2>1 DEF CopySize
    <3>5. PICK i \in 0 .. (packet.size - 1) :
            a = Wrap(read_offset + ((used + HeaderSize) + i))
      BY <1>1, <3>3, <3>4, CopyCells
    <3>6. (used + HeaderSize) + i \in Offsets /\ (used + HeaderSize) + i >= used
      BY <1>1, <3>4 DEF Offsets
    <3>. QED  BY <3>5, <3>6
  <2>. QED  BY <1>3, <2>2, <2>3
<1>. QED  BY <1>3 DEF ProducerCells

(* The bytes that pop is about to read are all in transit.                 *)
LEMMA ConsumerBehind ==
  ASSUME IInv
  PROVE  \A a \in ConsumerCells : \E d \in Offsets :
           d < StreamTail - StreamHead /\ a = Wrap(read_offset + d)
<1>. USE CapacityAssumption, HeaderSizeAssumption, SizesAssumption
<1>. DEFINE p == pushed[Len(delivered) + 1]
<1>1. SUFFICES ASSUME NEW a \in ConsumerCells
               PROVE  \E d \in Offsets : /\ d < StreamTail - StreamHead
                                         /\ a = Wrap(read_offset + d)
  OBVIOUS
<1>2. CASE cpc = "header" \/ cpc = "payload"
  <2>1. Len(delivered) < Len(pushed) /\ read_offset \in Offsets
        /\ StreamHead \in Nat /\ StreamTail \in Nat
    BY <1>2, StreamFacts DEF IInv, ConsumerInv, TypeOK
  <2>2. /\ p \in Packets /\ Total(p.size) < Capacity
        /\ StreamHead + Total(p.size) <= StreamTail
    BY <2>1, OldestInPlace
  <2>. HIDE DEF p
  <2>3. p.size \in 0 .. MaxPayload /\ Total(p.size) = HeaderSize + p.size
    BY <2>2 DEF Packets, Total
  <2>4. CASE cpc = "header"
    <3>1. /\ CopySize(HeaderSize) /\ 0 + HeaderSize < Capacity
          /\ Wrap(read_offset + 0) = read_offset
      BY <2>1, <2>2, <2>3 DEF CopySize, Wrap, Offsets
    <3>2. ConsumerCells = CellsOf(Wrap(read_offset + 0), HeaderSize)
      BY <2>4, <3>1 DEF ConsumerCells
    <3>3. PICK i \in 0 .. (HeaderSize - 1) : a = Wrap(read_offset + (0 + i))
      BY <2>1, <3>1, <3>2, CopyCells
    <3>4. 0 + i \in Offsets /\ 0 + i < StreamTail - StreamHead
      BY <2>1, <2>2, <2>3 DEF Offsets
    <3>. QED  BY <3>3, <3>4
  <2>5. CASE cpc = "payload"
    <3>1. out_header = p
      BY <2>5 DEF IInv, ConsumerInv, p
    <3>2. data_read_offset = Wrap(read_offset + HeaderSize)
      BY <2>1, <2>2, <2>3, ModIsWrap DEF data_read_offset, Offsets
    <3>3. ConsumerCells = CellsOf(Wrap(read_offset + HeaderSize), p.size)
      BY <2>5, <3>1, <3>2 DEF ConsumerCells
    <3>4. /\ CopySize(p.size) /\ HeaderSize + p.size < Capacity
          /\ HeaderSize \in Nat
      BY <2>2, <2>3 DEF CopySize
    <3>5. PICK i \in 0 .. (p.size - 1) : a = Wrap(read_offset + (HeaderSize + i))
      BY <2>1, <3>3, <3>4, CopyCells
    <3>6. HeaderSize + i \in Offsets /\ HeaderSize + i < StreamTail - StreamHead
      BY <2>1, <2>2, <2>3 DEF Offsets
    <3>. QED  BY <3>5, <3>6
  <2>. QED  BY <1>2, <2>4, <2>5
<1>. QED  BY <1>1, <1>2 DEF ConsumerCells

(* No byte of the ring is copied by both sides at the same time: the two   *)
(* atomic offsets are all the synchronisation that push and pop need.      *)
THEOREM RaceFree == Spec => []NoDataRace
<1>1. ASSUME IInv PROVE NoDataRace
  <2>1. SUFFICES ASSUME NEW a \in ProducerCells, a \in ConsumerCells
                 PROVE  FALSE
    BY DEF NoDataRace
  <2>2. PICK d \in Offsets : /\ d >= StreamTail - StreamHead
                             /\ a = Wrap(read_offset + d)
    BY <1>1, ProducerAhead
  <2>3. PICK e \in Offsets : /\ e < StreamTail - StreamHead
                             /\ a = Wrap(read_offset + e)
    BY <1>1, <2>1, ConsumerBehind
  <2>4. d # e /\ read_offset \in Offsets
    BY <1>1, <2>2, <2>3, StreamFacts DEF IInv, TypeOK, Offsets
  <2>. QED  BY <2>2, <2>3, <2>4, WrapInjective
<1>. QED  BY <1>1, Inductive, PTL

(* What the consumer got is what was pushed, in the same order.            *)
GotInv == /\ PacketsGot \in Seq(Packets)
          /\ Len(PacketsGot) = Len(delivered)
          /\ \A k \in 1 .. Len(delivered) : PacketsGot[k] = pushed[k]

LEMMA GotInOrder == IInv => GotInv
<1>. SUFFICES ASSUME StreamInv, pushed \in Seq(Packets) PROVE GotInv
  BY DEF IInv, TypeOK
<1>1. Len(delivered) \in Nat /\ Len(delivered) <= Len(pushed)
      /\ DOMAIN delivered = 1 .. Len(delivered)
  BY DEF StreamInv
<1>2. ASSUME NEW k \in 1 .. Len(delivered)
      PROVE  PacketsGot[k] = pushed[k] /\ pushed[k] \in Packets
  <2>1. delivered[k] = Returned(pushed[k])
    BY DEF StreamInv
  <2>2. Intact(Returned(pushed[k])) /\ Returned(pushed[k]).header = pushed[k]
    BY DEF Intact, Returned
  <2>3. PacketsGot[k] = pushed[k]
    BY <1>1, <2>1, <2>2 DEF PacketsGot
  <2>4. k \in 1 .. Len(pushed)
    BY <1>1
  <2>. QED  BY <2>3, <2>4
<1>3. PacketsGot = [k \in 1 .. Len(delivered) |-> PacketsGot[k]]
  BY <1>1 DEF PacketsGot
<1>. QED  BY <1>1, <1>2, <1>3 DEF GotInv

LEMMA StepRefines ==
  IInv /\ IInv' /\ [Next]_vars => [Queue!Next]_(Queue!vars)
<1>. SUFFICES ASSUME IInv, IInv', [Next]_vars
              PROVE  [Queue!Next]_(Queue!vars)
  OBVIOUS
<1>1. ASSUME UNCHANGED <<pushed, delivered>>
      PROVE  UNCHANGED Queue!vars
  BY <1>1 DEF Queue!vars, PacketsGot
<1>2. CASE PushPublish
  <2>1. packet \in Packets
    BY DEF IInv, TypeOK
  <2>2. Queue!Send(packet)
    BY <1>2 DEF PushPublish, Queue!Send, PacketsGot
  <2>. QED  BY <2>1, <2>2 DEF Queue!Next
<1>3. CASE PopCommit
  <2>1. /\ pushed \in Seq(Packets) /\ pushed' = pushed
        /\ Len(delivered') = Len(delivered) + 1 /\ Len(delivered) \in Nat
        /\ Len(delivered) < Len(pushed)
    BY <1>3, StreamFacts DEF PopCommit, IInv, TypeOK, StreamInv, ConsumerInv
  <2>2. /\ PacketsGot \in Seq(Packets) /\ Len(PacketsGot) = Len(delivered)
        /\ \A k \in 1 .. Len(delivered) : PacketsGot[k] = pushed[k]
    BY GotInOrder DEF GotInv
  <2>3. /\ PacketsGot' \in Seq(Packets)
        /\ Len(PacketsGot') = Len(delivered')
        /\ \A k \in 1 .. Len(delivered') : PacketsGot'[k] = pushed'[k]
    <3>1. IInv' => GotInv'
      BY GotInOrder, PTL
    <3>. QED  BY <2>1, <3>1 DEF GotInv
  <2>4. PacketsGot' = Append(PacketsGot, pushed[Len(PacketsGot) + 1])
    <3>. DEFINE A == Append(PacketsGot, pushed[Len(PacketsGot) + 1])
    <3>1. pushed[Len(PacketsGot) + 1] \in Packets
      BY <2>1, <2>2
    <3>2. /\ A \in Seq(Packets) /\ Len(A) = Len(delivered')
          /\ \A k \in 1 .. Len(A) : A[k] = pushed[k]
      BY <2>1, <2>2, <3>1
    <3>. HIDE DEF A
    <3>3. \A k \in 1 .. Len(A) : A[k] = PacketsGot'[k]
      BY <2>1, <2>3, <3>2
    <3>. QED  BY <2>3, <3>2, <3>3 DEF A
  <2>5. Queue!Receive
    BY <2>1, <2>2, <2>4 DEF Queue!Receive
  <2>. QED  BY <2>5 DEF Queue!Next
<1>4. CASE [Next]_vars /\ ~PushPublish /\ ~PopCommit
  BY <1>1, <1>4 DEF Next, Push, Pop, PushTooLarge, PushFull, PushBegin,
     PushHeader, PushPayload, PopEmpty, PopBegin, PopTooSmall, PopHeader,
     PopPayload, vars
<1>. QED  BY <1>2, <1>3, <1>4

(* The ring buffer implements the queue: whatever the interleaving, and    *)
(* wherever either side stops, pops return the packets of the successful   *)
(* pushes, each once, in order, with their whole payload.                  *)
THEOREM Refinement == Spec => RefinesQueue
<1>1. Init => Queue!Init
  BY DEF Init, Queue!Init, PacketsGot
<1>. QED  BY <1>1, StepRefines, Inductive, PTL DEF Spec, RefinesQueue, Queue!Spec

=============================================================================

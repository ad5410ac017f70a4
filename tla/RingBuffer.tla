----------------------------- MODULE RingBuffer -----------------------------
(***************************************************************************)
(* RingBufferView (IACore/ADT/RingBuffer.hpp): a byte ring in memory that  *)
(* one producer and one consumer share, usually from two processes.  The   *)
(* two sides synchronise on two atomic offsets only.                       *)
(*                                                                         *)
(* Every load or store of an offset and every call of write_wrapped or     *)
(* read_wrapped is one step, so a push takes up to four steps and a pop up *)
(* to four, interleaved in any order.  Taking a copy as one step is sound  *)
(* because NoDataRace holds: while one side copies, the other touches none *)
(* of the same bytes.  Each side is the only one to store its own offset,  *)
(* so the local copy it loads of it (relaxed) is that offset itself.       *)
(*                                                                         *)
(* A byte is [packet, pos]: the packet it belongs to and its position in   *)
(* it, header first.  A packet is [at, size]: at, its position in the      *)
(* stream of all bytes ever pushed, is unique and stands for the packet's  *)
(* id and contents, of which the ring looks at nothing but the size.       *)
(*                                                                         *)
(* The definitions marked "Fault" are plausible mistakes in the one that   *)
(* follows: with any of them in its place a property below fails.          *)
(***************************************************************************)
EXTENDS Integers, Sequences

CONSTANTS
  Capacity,              \* m_capacity: bytes of the ring
  HeaderSize,            \* sizeof(PacketHeader), 4 in the code
  MaxPayload,            \* numeric_limits<u16>::max()
  Modulus,               \* 2^32: offset + size is a u32 sum in the copies
  PayloadSizes,          \* data.size() of the pushes attempted
  RoomSizes,             \* out_buffer.size() of the pops attempted
  StreamBound            \* bound of the model: bytes ever pushed

ASSUME CapacityAssumption   == Capacity \in Nat \ {0}
ASSUME HeaderSizeAssumption == HeaderSize \in Nat \ {0}
ASSUME SizesAssumption      == /\ MaxPayload \in Nat
                               /\ PayloadSizes \subseteq Nat
                               /\ RoomSizes \subseteq Nat
                               /\ StreamBound \in Nat
(* No copy overflows: the ring ends at least 64 KiB below 2^32 bytes.      *)
ASSUME ModulusAssumption    == /\ Modulus \in Nat
                               /\ Capacity + HeaderSize <= Modulus
                               /\ Capacity + MaxPayload <= Modulus

VARIABLES
  memory,                \* m_data_ptr[0 .. m_capacity - 1]
  write_offset,          \* control block: stored by the producer only
  read_offset,           \* control block: stored by the consumer only
  ppc, packet,           \* the producer: where push is, and what it pushes
  cpc, room,             \* the consumer: where pop is, out_buffer.size()
  out_header, out_buffer,\* what pop has copied out so far
  pushed,                \* history: packets whose push returned success
  delivered              \* history: what successful pops returned

producer == <<ppc, packet>>
consumer == <<cpc, room, out_header, out_buffer>>
vars == <<memory, write_offset, read_offset, producer, consumer,
          pushed, delivered>>

Offsets == 0 .. (Capacity - 1)
Packets == [at : 0 .. StreamBound, size : 0 .. MaxPayload]
Bytes   == [packet : Packets, pos : 0 .. (HeaderSize + MaxPayload)]

Byte(p, i) == [packet |-> p, pos |-> i]
(* What the memory holds before anything is written: no packet's byte.     *)
Blank == Byte([at |-> 0, size |-> 0], HeaderSize)

Total(n) == HeaderSize + n
End(p)   == p.at + Total(p.size)

(* Stream positions of the next byte to write and the next byte to read.   *)
StreamTail == IF pushed = <<>> THEN 0 ELSE End(pushed[Len(pushed)])
StreamHead == IF delivered = <<>> THEN 0 ELSE End(pushed[Len(delivered)])

-----------------------------------------------------------------------------
(* The copies.  Straight is their test, with the u32 sum it computes: when *)
(* it fails the copy is made in two chunks.                                *)

Straight(offset, size) == (offset + size) % Modulus <= Capacity

(* The cell that the i-th byte of a copy of size bytes at offset uses.     *)
CellOf(offset, size, i) ==
  IF Straight(offset, size) \/ i < Capacity - offset
    THEN offset + i
    ELSE i - (Capacity - offset)

CellsOf(offset, size) == {CellOf(offset, size, i) : i \in 0 .. (size - 1)}

(* Fault: the second chunk is copied from the start of the data again.     *)
write_wrapped_same_source(mem, offset, p, first, size) ==
  LET first_chunk  == Capacity - offset
      second_chunk == size - first_chunk
  IN  [a \in Offsets |->
         IF a \in offset .. (offset + size - 1)
           THEN Byte(p, first + (a - offset))
         ELSE IF ~Straight(offset, size) /\ a < second_chunk
           THEN Byte(p, first + a)
         ELSE mem[a]]

(* Copies bytes first .. first + size - 1 of packet p into mem at offset.  *)
write_wrapped(mem, offset, p, first, size) ==
  LET first_chunk  == Capacity - offset
      second_chunk == size - first_chunk
  IN  [a \in Offsets |->
         IF a \in offset .. (offset + size - 1)
           THEN Byte(p, first + (a - offset))
         ELSE IF ~Straight(offset, size) /\ a < second_chunk
           THEN Byte(p, first + first_chunk + a)
         ELSE mem[a]]

(* Fault: the second chunk is copied over the end of the output again.     *)
read_wrapped_late_source(mem, offset, size) ==
  [i \in 0 .. (size - 1) |->
     mem[IF Straight(offset, size) \/ i < Capacity - offset
           THEN offset + i ELSE i]]

read_wrapped(mem, offset, size) ==
  [i \in 0 .. (size - 1) |-> mem[CellOf(offset, size, i)]]

(* The header that HeaderSize copied bytes make: the packet's own when     *)
(* they are the header of one packet, anything when they are not.          *)
HeadersIn(bytes) ==
  LET p == bytes[0].packet
  IN  IF \A i \in 0 .. (HeaderSize - 1) : bytes[i] = Byte(p, i)
        THEN {p}
        ELSE Packets

-----------------------------------------------------------------------------
(* push(packet_id, data), by the producer.                                 *)

free_space == IF read_offset <= write_offset
                THEN (Capacity - write_offset) + read_offset
                ELSE read_offset - write_offset

data_write_offset == (write_offset + HeaderSize) % Capacity

Init == /\ memory = [a \in Offsets |-> Blank]
        /\ write_offset = 0 /\ read_offset = 0
        /\ ppc = "idle" /\ packet = Blank.packet
        /\ cpc = "idle" /\ room = 0
        /\ out_header = Blank.packet /\ out_buffer = <<>>
        /\ pushed = <<>> /\ delivered = <<>>

(* "Data size exceeds u16 limit": the error is the only effect.            *)
PushTooLarge(n) == /\ ppc = "idle"
                   /\ n > MaxPayload
                   /\ UNCHANGED vars

(* "RingBuffer full": the error is the only effect.                        *)
PushFull(n) == /\ ppc = "idle"
               /\ n <= MaxPayload
               /\ free_space <= Total(n)
               /\ UNCHANGED vars

(* Fault: the byte that is to stay empty is given away.                    *)
PushBegin_fills_ring(n) ==
  /\ ppc = "idle"
  /\ n <= MaxPayload
  /\ free_space >= Total(n)
  /\ StreamTail + Total(n) <= StreamBound
  /\ packet' = [at |-> StreamTail, size |-> n]
  /\ ppc' = "header"
  /\ UNCHANGED <<memory, write_offset, read_offset, consumer, pushed, delivered>>

PushBegin(n) == /\ ppc = "idle"
                /\ n <= MaxPayload
                /\ free_space > Total(n)
                /\ StreamTail + Total(n) <= StreamBound
                /\ packet' = [at |-> StreamTail, size |-> n]
                /\ ppc' = "header"
                /\ UNCHANGED <<memory, write_offset, read_offset, consumer,
                               pushed, delivered>>

PushHeader == /\ ppc = "header"
              /\ memory' = write_wrapped(memory, write_offset, packet, 0,
                                         HeaderSize)
              /\ ppc' = IF packet.size > 0 THEN "payload" ELSE "publish"
              /\ UNCHANGED <<packet, write_offset, read_offset, consumer,
                             pushed, delivered>>

PushPayload == /\ ppc = "payload"
               /\ memory' = write_wrapped(memory, data_write_offset, packet,
                                          HeaderSize, packet.size)
               /\ ppc' = "publish"
               /\ UNCHANGED <<packet, write_offset, read_offset, consumer,
                              pushed, delivered>>

(* Fault: the new offset is not taken modulo the capacity.                 *)
PushPublish_unwrapped ==
  /\ ppc = "publish"
  /\ write_offset' = data_write_offset + packet.size
  /\ pushed' = Append(pushed, packet)
  /\ ppc' = "idle"
  /\ UNCHANGED <<packet, memory, read_offset, consumer, delivered>>

PushPublish == /\ ppc = "publish"
               /\ write_offset' = (data_write_offset + packet.size) % Capacity
               /\ pushed' = Append(pushed, packet)
               /\ ppc' = "idle"
               /\ UNCHANGED <<packet, memory, read_offset, consumer, delivered>>

-----------------------------------------------------------------------------
(* pop(out_header, out_buffer), by the consumer.                           *)

(* Returns nullopt: nothing changes.                                       *)
PopEmpty == /\ cpc = "idle"
            /\ read_offset = write_offset
            /\ UNCHANGED vars

(* Fault: a ring that has wrapped around is taken for an empty one.        *)
PopBegin_ordered(n) ==
  /\ cpc = "idle"
  /\ read_offset < write_offset
  /\ room' = n
  /\ out_buffer' = <<>>
  /\ cpc' = "header"
  /\ UNCHANGED <<memory, write_offset, read_offset, producer, out_header,
                 pushed, delivered>>

PopBegin(n) == /\ cpc = "idle"
               /\ read_offset # write_offset
               /\ room' = n
               /\ out_buffer' = <<>>
               /\ cpc' = "header"
               /\ UNCHANGED <<memory, write_offset, read_offset, producer,
                              out_header, pushed, delivered>>

(* "Buffer too small": the packet stays the first of the ring.             *)
PopTooSmall == /\ cpc = "header"
               /\ out_header' \in HeadersIn(read_wrapped(memory, read_offset,
                                                         HeaderSize))
               /\ out_header'.size > room
               /\ cpc' = "idle"
               /\ UNCHANGED <<memory, write_offset, read_offset, producer,
                              room, out_buffer, pushed, delivered>>

PopHeader == /\ cpc = "header"
             /\ out_header' \in HeadersIn(read_wrapped(memory, read_offset,
                                                       HeaderSize))
             /\ out_header'.size <= room
             /\ cpc' = IF out_header'.size > 0 THEN "payload" ELSE "commit"
             /\ UNCHANGED <<memory, write_offset, read_offset, producer,
                            room, out_buffer, pushed, delivered>>

data_read_offset == (read_offset + HeaderSize) % Capacity

PopPayload == /\ cpc = "payload"
              /\ out_buffer' = read_wrapped(memory, data_read_offset,
                                            out_header.size)
              /\ cpc' = "commit"
              /\ UNCHANGED <<memory, write_offset, read_offset, producer,
                             room, out_header, pushed, delivered>>

(* Fault: the header is not counted.                                       *)
PopCommit_payload_only ==
  /\ cpc = "commit"
  /\ read_offset' = (read_offset + out_header.size) % Capacity
  /\ delivered' = Append(delivered, [header |-> out_header,
                                     data   |-> out_buffer])
  /\ cpc' = "idle"
  /\ UNCHANGED <<memory, write_offset, producer, room, out_header, out_buffer,
                 pushed>>

PopCommit == /\ cpc = "commit"
             /\ read_offset' = (read_offset + HeaderSize + out_header.size)
                                 % Capacity
             /\ delivered' = Append(delivered, [header |-> out_header,
                                                data   |-> out_buffer])
             /\ cpc' = "idle"
             /\ UNCHANGED <<memory, write_offset, producer, room, out_header,
                            out_buffer, pushed>>

-----------------------------------------------------------------------------
Push == \/ \E n \in PayloadSizes : PushTooLarge(n) \/ PushFull(n) \/ PushBegin(n)
        \/ PushHeader \/ PushPayload \/ PushPublish

Pop == \/ \E n \in RoomSizes : PopBegin(n)
       \/ PopEmpty \/ PopTooSmall \/ PopHeader \/ PopPayload \/ PopCommit

Next == Push \/ Pop

Spec == Init /\ [][Next]_vars

(* The consumer's thread keeps calling pop and finishes the calls it has   *)
(* begun: IpcNode::update and IpcManager::update poll their ring forever.  *)
(* It calls pop with room for any packet again and again, as they always   *)
(* do, whatever else it calls it with.  Nothing is asked of the producer,  *)
(* which may stop in the middle of a push, as a process that dies does.    *)
PopBeginRoomy == \E n \in RoomSizes : n >= MaxPayload /\ PopBegin(n)
FairSpec == Spec /\ WF_vars(Pop) /\ SF_vars(PopBeginRoomy)

-----------------------------------------------------------------------------
(* Values of the variables.                                                *)
TypeOK ==
  /\ memory \in [Offsets -> Bytes]
  /\ write_offset \in Offsets /\ read_offset \in Offsets
  /\ ppc \in {"idle", "header", "payload", "publish"}
  /\ packet \in Packets
  /\ cpc \in {"idle", "header", "payload", "commit"}
  /\ room \in Nat
  /\ out_header \in Packets
  /\ pushed \in Seq(Packets)

(* The bytes each side copies in its next step.                            *)
ProducerCells ==
  CASE ppc = "header"  -> CellsOf(write_offset, HeaderSize)
    [] ppc = "payload" -> CellsOf(data_write_offset, packet.size)
    [] OTHER           -> {}

ConsumerCells ==
  CASE cpc = "header"  -> CellsOf(read_offset, HeaderSize)
    [] cpc = "payload" -> CellsOf(data_read_offset, out_header.size)
    [] OTHER           -> {}

(* The memcpy calls of push and of pop, which no lock separates, never     *)
(* touch the same byte of the ring at the same time.                       *)
NoDataRace == ProducerCells \cap ConsumerCells = {}

(* The offset comparison of push computes the free bytes exactly: it never *)
(* takes a full ring for an empty one or the other way round ("Leave 1     *)
(* byte empty (prevent ambiguities)"), and so push refuses a packet just   *)
(* when it would not fit with that byte left free.                         *)
FreeSpaceIsExact == free_space = Capacity - (StreamTail - StreamHead)

(* Cell of the byte at position v of the stream, v >= StreamHead.               *)
CellAt(v) == (read_offset + (v - StreamHead)) % Capacity

InTransit == (Len(delivered) + 1) .. Len(pushed)

(* Until pop has released it, every byte of a packet whose push succeeded  *)
(* is in the ring where pop will look for it, whatever the producer does   *)
(* meanwhile.                                                              *)
TransitIntact ==
  \A k \in InTransit : \A i \in 0 .. (Total(pushed[k].size) - 1) :
    memory[CellAt(pushed[k].at + i)] = Byte(pushed[k], i)

(* What a pop returned is a packet only if all its payload bytes are.      *)
Intact(d) == d.data = [i \in 0 .. (d.header.size - 1) |->
                         Byte(d.header, HeaderSize + i)]

(* The packets the consumer got; a byte in place of one that is not.       *)
PacketsGot == [k \in DOMAIN delivered |->
                 IF Intact(delivered[k]) THEN delivered[k].header ELSE Blank]

Queue == INSTANCE PacketQueue WITH
  Packet   <- Packets,
  sent     <- pushed,
  received <- PacketsGot

(* The ring is a queue: a pop returns the oldest packet not yet returned,  *)
(* its header and every byte of its payload, once.                         *)
RefinesQueue == Queue!Spec

(* And when the consumer keeps popping into a buffer that is large enough, *)
(* every packet whose push succeeded is returned in the end.               *)
RefinesFairQueue == Queue!FairSpec

=============================================================================

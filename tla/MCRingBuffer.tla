---------------------------- MODULE MCRingBuffer ----------------------------
(***************************************************************************)
(* An instance of RingBuffer for TLC: a ring of 7 bytes with headers of 2, *)
(* so that headers and payloads of every size get split by its end.  The   *)
(* sizes have one that fits only an empty ring (4), one that never does    *)
(* (5) and one above MaxPayload (6).  The consumer pops into 2 bytes, too  *)
(* few for some packets, or into 5, like those of IPC.cpp, whose buffers   *)
(* of 65536 bytes have room for any payload.                               *)
(***************************************************************************)
EXTENDS RingBuffer

MCPayloadSizes == {0, 1, 4, 5, 6}
MCRoomSizes    == {2, 5}

=============================================================================

---------------------------- MODULE BoundedBuffer ----------------------------
(***************************************************************************)
(* What flow control promises (loadsmith-core/src/pump.rs): the source and *)
(* the destination work through a buffer of a fixed size, however far      *)
(* apart they are and whatever lies between them.                          *)
(***************************************************************************)
EXTENDS Naturals

CONSTANT Capacity

VARIABLES put, got

buffer == <<put, got>>

BufferInit == put = 0 /\ got = 0

Put ==
  /\ put < got + Capacity
  /\ put' = put + 1
  /\ UNCHANGED got

Get ==
  /\ got < put
  /\ got' = got + 1
  /\ UNCHANGED put

BufferSpec == BufferInit /\ [][Put \/ Get]_buffer
=============================================================================

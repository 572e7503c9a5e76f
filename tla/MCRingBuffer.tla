---------------------------- MODULE MCRingBuffer ----------------------------
(* The ring buffer on instances small enough that every cursor wraps.        *)
EXTENDS RingBuffer

MCByte == {0, 1}
MCWriteLens == 0..3
MCReadLens == {0, 1, 2, BufferSize}
=============================================================================

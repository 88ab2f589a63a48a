-------------------------- MODULE MCCircularBuffer --------------------------
(* Model-checking instances of the circular buffer. *)
EXTENDS CircularBufferSpec

CONSTANTS Blocks, MaxSize

\* Entries of every size up to MaxSize at every block.
BlockEntries == [buffptr : Blocks, size : 1 .. MaxSize]
=============================================================================

------------------------- MODULE CircularBufferSpec -------------------------
(***************************************************************************)
(* The circular buffer under every sequence of calls of                    *)
(* aesd_circular_buffer_add_entry, its only operation that changes it, and *)
(* what its functions must answer at every moment.  The reference          *)
(* definitions speak of the log of entries "concatenated end to end", as   *)
(* the comments of aesd-circular-buffer.c do.                              *)
(***************************************************************************)
EXTENDS CircularBuffer, Sequences

CONSTANT Entries      \* the entries that may be added
ASSUME EntriesAssumption ==
  /\ Entries \subseteq [buffptr : {e.buffptr : e \in Entries}, size : Nat]
  /\ \A e \in Entries : e.buffptr # NULL

VARIABLES
  buffer,     \* struct aesd_circular_buffer
  old         \* what the last aesd_circular_buffer_add_entry returned

vars == <<buffer, old>>

Init ==
  /\ buffer = InitBuffer
  /\ old = NULL

Add(entry) ==
  /\ buffer' = AddEntry(buffer, entry)
  /\ old' = Replaced(buffer)

Next == \E entry \in Entries : Add(entry)

Spec == Init /\ [][Next]_vars

-----------------------------------------------------------------------------
Pointers == {e.buffptr : e \in Entries} \cup {NULL}

\* The buffer is in order however many entries aesd_circular_buffer_add_entry
\* has stored, and what it returns is a pointer it was once given, or NULL.
BufferOK == InOrder(buffer, Entries) /\ old \in Pointers

CommandLog == INSTANCE CommandLog
  WITH Depth <- Capacity, NoPointer <- NULL,
       log <- Log(buffer), handedBack <- old

\* The ring implements the log of the last Capacity entries: nothing is lost,
\* doubled or reordered as it fills and wraps, and the pointer returned is
\* always the one that just dropped out.
ImplementsLog == CommandLog!Spec

-----------------------------------------------------------------------------
\* find_entry_offset_for_fpos: for every offset into the entries concatenated
\* end to end it gives the entry and the byte at that offset, and it finds
\* nothing from the end on ("NULL if this position is not available").
FindsEveryCharacter ==
  \A char_offset \in 0 .. Total(buffer) + 1 :
    LET answer == FindEntryOffsetForFpos(buffer, char_offset)
    IN  IF char_offset >= Total(buffer)
        THEN ~answer.found
        ELSE \E k \in 1 .. EntryArraySize(buffer) :
               /\ answer.found
               /\ answer.offset = AbsoluteEntryOffset(buffer, k - 1)
               /\ answer.byte = char_offset - SizeOfFirst(buffer, k - 1)
               /\ answer.byte \in 0 .. Log(buffer)[k].size - 1

\* find_fpos_for_entry_offset: the position of byte j of the k-th oldest
\* entry, and -1 for an entry or a byte that does not exist, so that a seek
\* can never land outside the log.
SeeksEveryCommand ==
  \A k \in 0 .. Capacity, j \in 0 .. Total(buffer) :
    LET exists == k < EntryArraySize(buffer) /\ j < Log(buffer)[k + 1].size
    IN  FindFposForEntryOffset(buffer, k, j) =
          IF exists THEN SizeOfFirst(buffer, k) + j ELSE -1

\* aesd_circular_buffer_size visits the slots in index order and tests the
\* pointers; it still measures exactly the log, which llseek relies on.
SizeIsTotal == BufferSize(buffer) = Total(buffer)

=============================================================================

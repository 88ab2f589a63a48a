--------------------------- MODULE CircularBuffer ---------------------------
(***************************************************************************)
(* The ring of write operations of the char driver                         *)
(* (aesd-char-driver/aesd-circular-buffer.c): struct aesd_circular_buffer  *)
(* as a record and its functions as operators on that record.  The module  *)
(* keeps no state of its own, like the code: the caller owns the buffer    *)
(* and does the locking.                                                   *)
(*                                                                         *)
(* Three encodings make it easy to get wrong: in_offs = out_offs means     *)
(* empty or full, depending on the flag; offsets are relative (counted     *)
(* from the oldest entry) or absolute (an index of entry); and with a full *)
(* ring the relative offset of out_offs is the capacity, not zero.         *)
(***************************************************************************)
EXTENDS Integers, Functions

CONSTANTS
  Capacity,   \* AESDCHAR_MAX_WRITE_OPERATIONS_SUPPORTED
  NULL

\* The offsets and the capacity are uint8_t values.
ASSUME CapacityAssumption == Capacity \in 1..255

Offsets == 0 .. Capacity - 1
NoEntry == [buffptr |-> NULL, size |-> 0]

\* aesd_circular_buffer_init
InitBuffer ==
  [entry |-> [i \in Offsets |-> NoEntry],
   in_offs |-> 0, out_offs |-> 0, full |-> FALSE]

AbsoluteEntryOffset(b, offset) == (b.out_offs + offset) % Capacity

RelativeEntryOffset(b, offset) ==
  LET adjusted == offset % Capacity
  IN  IF b.full /\ adjusted = b.in_offs THEN Capacity
      ELSE IF adjusted >= b.out_offs THEN adjusted - b.out_offs
      ELSE adjusted + Capacity - b.out_offs

\* % is never negative here.  In C that of a negative difference is, and
\* uint8_t makes it another number; but in_offs is only below out_offs once
\* entries have been replaced, and from then on the ring stays full.
EntryArraySize(b) ==
  IF b.full THEN Capacity ELSE (b.in_offs - b.out_offs) % Capacity

NextEntryOffset(offset) == (offset + 1) % Capacity

-----------------------------------------------------------------------------
(* aesd_circular_buffer_find_entry_offset_for_fpos *)

NoOffset == [found |-> FALSE]

\* The loop variables: the entry looked at, the characters still to skip, and
\* whether the character was found in that entry.
SearchState == [offset : Offsets, remaining : Nat, found : BOOLEAN]

\* aesd_circular_buffer_iterate_find_entry_offset_for_fpos: stop in this entry
\* or skip all of it.
IterateFind(b, s) ==
  LET size == b.entry[s.offset].size
  IN  IF s.remaining < size
      THEN [s EXCEPT !.found = TRUE]
      ELSE [s EXCEPT !.remaining = @ - size,
                     !.offset = NextEntryOffset(@)]

SearchFrom(b, start) ==
  LET loop[s \in SearchState] ==
        IF ~s.found /\ RelativeEntryOffset(b, s.offset) < EntryArraySize(b)
        THEN loop[IterateFind(b, s)]
        ELSE s
      end == loop[start]
  IN  IF end.found
      THEN [found |-> TRUE, offset |-> end.offset, byte |-> end.remaining]
      ELSE NoOffset

\* Mutant: without the iteration before the loop a full ring is not searched.
FindWithoutFirstStep(b, char_offset) ==
  SearchFrom(b, [offset |-> b.out_offs, remaining |-> char_offset,
                 found |-> FALSE])

\* The first iteration is made before the loop because the loop's condition
\* compares relative offsets, and out_offs counts as Capacity in a full ring.
FindEntryOffsetForFpos(b, char_offset) ==
  LET start == [offset |-> b.out_offs, remaining |-> char_offset,
                found |-> FALSE]
  IN  SearchFrom(b, IF 0 < EntryArraySize(b) THEN IterateFind(b, start)
                                             ELSE start)

-----------------------------------------------------------------------------
(* aesd_circular_buffer_find_fpos_for_entry_offset; -1 when there is no such *)
(* entry or no such byte in it.                                              *)

\* The sizes of the entries from absolute offset iter up to relative offset
\* entry_offset.
SizesUpTo(b, start, entry_offset) ==
  LET loop[iter \in Offsets] ==
        IF RelativeEntryOffset(b, iter) < entry_offset
        THEN b.entry[iter].size + loop[NextEntryOffset(iter)]
        ELSE 0
  IN  loop[start]

\* Mutant: the byte offset is not checked against the size of the entry.
FindFposAnyByte(b, entry_offset, entry_offset_byte) ==
  IF entry_offset >= EntryArraySize(b)
  THEN -1
  ELSE entry_offset_byte +
       (IF 0 < entry_offset
        THEN b.entry[b.out_offs].size +
             SizesUpTo(b, NextEntryOffset(b.out_offs), entry_offset)
        ELSE SizesUpTo(b, b.out_offs, entry_offset))

FindFposForEntryOffset(b, entry_offset, entry_offset_byte) ==
  IF \/ entry_offset >= EntryArraySize(b)
     \/ entry_offset_byte >=
          b.entry[AbsoluteEntryOffset(b, entry_offset)].size
  THEN -1
  ELSE entry_offset_byte +
       (IF 0 < entry_offset
        THEN b.entry[b.out_offs].size +
             SizesUpTo(b, NextEntryOffset(b.out_offs), entry_offset)
        ELSE SizesUpTo(b, b.out_offs, entry_offset))

-----------------------------------------------------------------------------
(* aesd_circular_buffer_add_entry: the buffer it leaves, and the pointer it *)
(* returns for the caller to free.                                          *)

\* Mutant: out_offs does not follow in_offs round a full ring.
AddEntryKeepingOut(b, entry) ==
  LET next == NextEntryOffset(b.in_offs)
  IN  [b EXCEPT !.entry[b.in_offs] = entry,
                !.in_offs = next,
                !.full = @ \/ next = b.out_offs]

AddEntry(b, entry) ==
  LET next == NextEntryOffset(b.in_offs)
  IN  [entry    |-> [b.entry EXCEPT ![b.in_offs] = entry],
       in_offs  |-> next,
       out_offs |-> IF b.full THEN next ELSE b.out_offs,
       full     |-> b.full \/ next = b.out_offs]

\* Mutant: the entry next to the one overwritten is returned.
ReplacedAfterAdvance(b) ==
  IF b.full THEN b.entry[NextEntryOffset(b.in_offs)].buffptr ELSE NULL

Replaced(b) == IF b.full THEN b.entry[b.in_offs].buffptr ELSE NULL

Sizes(b) == [i \in Offsets |-> b.entry[i].size]

\* Mutant: only the entries between out_offs and in_offs are visited.
SizeUpToInOffs(b) ==
  SumFunctionOnSet(Sizes(b),
                   {i \in Offsets : b.out_offs <= i /\ i < b.in_offs})

\* aesd_circular_buffer_size: every slot holding a pointer, whatever the
\* offsets say.
BufferSize(b) ==
  SumFunctionOnSet(Sizes(b), {i \in Offsets : b.entry[i].buffptr # NULL})

-----------------------------------------------------------------------------
(* How the buffer is read by the specifications that use it. *)

\* The entries in the order they were added.
Log(b) == [k \in 1 .. EntryArraySize(b) |->
             b.entry[AbsoluteEntryOffset(b, k - 1)]]

\* The characters of the first k entries of the log.
SizeOfFirst(b, k) ==
  SumFunctionOnSet([i \in DOMAIN Log(b) |-> Log(b)[i].size], 1..k)

Total(b) == SizeOfFirst(b, EntryArraySize(b))

\* A buffer of entries of E whose redundant parts agree: it is only read from
\* the start until it first fills up (nothing ever takes an entry out), the
\* slots in front of in_offs are the filled ones, and a full ring is read from
\* where it is written.
InOrder(b, E) ==
  /\ b \in [entry : [Offsets -> E \cup {NoEntry}],
            in_offs : Offsets, out_offs : Offsets, full : BOOLEAN]
  /\ b.full => b.out_offs = b.in_offs
  /\ ~b.full => b.out_offs = 0
  /\ \A i \in Offsets : b.entry[i] \in E <=> b.full \/ i < b.in_offs

=============================================================================

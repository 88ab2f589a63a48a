------------------------ MODULE CircularBufferProofs ------------------------
(***************************************************************************)
(* The circular buffer is in order in every reachable state, and it        *)
(* implements CommandLog, for every capacity and every set of entries.     *)
(***************************************************************************)
EXTENDS CircularBufferSpec, CircularBufferLemmas

\* An entry of the caller is told from an unused slot by its pointer.
LEMMA EntryIsNotEmpty == NoEntry \notin Entries
BY EntriesAssumption DEF NoEntry

\* The buffer is in order after any number of additions.
THEOREM BufferInOrder == Spec => []BufferOK
<1>1. Init => BufferOK
  BY InitInOrder, EntryIsNotEmpty DEF Init, BufferOK, Pointers
<1>2. BufferOK /\ [Next]_vars => BufferOK'
  <2>1. ASSUME BufferOK, NEW entry \in Entries, Add(entry)
        PROVE  BufferOK'
    <3>1. InOrder(buffer', Entries)
      BY <2>1, AddInOrder DEF BufferOK, Add
    <3>2. old' \in Pointers
      BY <2>1 DEF BufferOK, InOrder, Add, Replaced, Pointers, NoEntry
    <3>3. QED
      BY <3>1, <3>2 DEF BufferOK, InOrder, Offsets, Pointers
  <2>2. BufferOK /\ UNCHANGED vars => BufferOK'
    BY DEF vars, BufferOK, InOrder
  <2>3. QED
    BY <2>1, <2>2 DEF Next
<1>3. QED
  BY <1>1, <1>2, PTL DEF Spec

\* The ring implements the log of the last Capacity entries, together with the
\* pointer to free, for every capacity and every sequence of additions.
THEOREM RingImplementsLog == Spec => ImplementsLog
<1>1. Init => CommandLog!Init
  <2> SUFFICES ASSUME Init PROVE CommandLog!Init
    OBVIOUS
  <2>1. EntryArraySize(buffer) = 0
    <3>1. InOrder(buffer, Entries)
      BY InitInOrder, EntryIsNotEmpty DEF Init
    <3>2. ~buffer.full /\ buffer.in_offs = 0
      BY DEF Init, InitBuffer
    <3>3. QED
      BY <3>1, <3>2, EntryCount
  <2>2. Log(buffer) \in Seq(Entries) /\ Len(Log(buffer)) = 0
    BY <2>1, LogIsSeq, InitInOrder, EntryIsNotEmpty DEF Init
  <2>3. Log(buffer) = <<>>
    BY <2>2
  <2>4. QED
    BY <2>3 DEF Init, CommandLog!Init
<1>2. ASSUME BufferOK, NEW entry \in Entries, Add(entry)
      PROVE  CommandLog!Add(entry)
  <2>1. /\ Log(buffer)' = Append(IF buffer.full THEN Tail(Log(buffer))
                                                ELSE Log(buffer), entry)
        /\ Len(Log(buffer)) = EntryArraySize(buffer)
        /\ Log(buffer) \in Seq(Entries)
    <3>1. Log(buffer') = Log(AddEntry(buffer, entry))
      BY <1>2 DEF Add
    <3>2. Log(buffer)' = Log(buffer')
      BY DEF Log, EntryArraySize, AbsoluteEntryOffset
    <3>3. QED
      BY <1>2, <3>1, <3>2, LogAfterAdd, LogIsSeq DEF BufferOK
  <2>2. CASE ~buffer.full
    <3>1. Len(Log(buffer)) < Capacity
      <4>1. InOrder(buffer, Entries)
        BY <1>2 DEF BufferOK
      <4>2. EntryArraySize(buffer) = buffer.in_offs
        BY <2>2, <4>1, EntryCount
      <4>3. buffer.in_offs < Capacity
        BY <4>1, CapacityAssumption DEF InOrder, Offsets
      <4>4. QED
        BY <2>1, <4>2, <4>3
    <3>2. QED
      BY <1>2, <2>1, <2>2, <3>1 DEF Add, Replaced, CommandLog!Add
  <2>3. CASE buffer.full
    <3>1. Len(Log(buffer)) = Capacity
      BY <1>2, <2>1, <2>3, EntryCount DEF BufferOK
    <3>2. Replaced(buffer) = Head(Log(buffer)).buffptr
      BY <1>2, <2>1, <2>3, <3>1, ReplacedIsOldest, CapacityAssumption
         DEF BufferOK
    <3>3. QED
      BY <1>2, <2>1, <2>3, <3>1, <3>2, CapacityAssumption
         DEF Add, CommandLog!Add
  <2>4. QED
    BY <2>2, <2>3
<1>3. UNCHANGED vars => UNCHANGED <<Log(buffer), old>>
  BY DEF vars, Log, EntryArraySize, AbsoluteEntryOffset
<1>4. BufferOK /\ [Next]_vars => [CommandLog!Next]_<<Log(buffer), old>>
  BY <1>2, <1>3 DEF Next, CommandLog!Next
<1>5. QED
  BY <1>1, <1>4, BufferInOrder, PTL DEF Spec, ImplementsLog, CommandLog!Spec

-----------------------------------------------------------------------------
\* The ring of the specification has the entries the look-ups are about.
LEMMA BufferIsMeasured == BufferOK => Measured(buffer, Entries)
<1>1. \A e \in Entries : e.size \in Nat /\ e.buffptr # NULL
  BY EntriesAssumption
<1>2. QED
  BY <1>1 DEF BufferOK, Measured

\* The size that llseek relies on, aesd_circular_buffer_size, is that of the
\* log, at every fill level and wherever the ring has wrapped to.
THEOREM SizeAlwaysTotal == Spec => []SizeIsTotal
<1>1. BufferOK => SizeIsTotal
  BY BufferIsMeasured, SlotsMeasureLog DEF SizeIsTotal
<1>2. QED
  BY <1>1, BufferInOrder, PTL

\* aesd_circular_buffer_find_fpos_for_entry_offset answers every request with
\* the position in the log, or -1 if the log holds no such byte.
THEOREM AlwaysSeeksEveryCommand == Spec => []SeeksEveryCommand
<1>1. ASSUME BufferOK
      PROVE  SeeksEveryCommand
  <2>1. Measured(buffer, Entries)
    BY <1>1, BufferIsMeasured
  <2>2. Total(buffer) \in Nat /\ Capacity \in Nat
    <3>1. EntryArraySize(buffer) \in 0 .. EntryArraySize(buffer)
      BY <2>1, EntryCount, CapacityAssumption DEF Measured
    <3>2. QED
      BY <2>1, <3>1, SizeOfFirstStep, CapacityAssumption DEF Total
  <2>3. ASSUME NEW k \in 0 .. Capacity, NEW j \in 0 .. Total(buffer)
        PROVE  FindFposForEntryOffset(buffer, k, j) =
                 IF k < EntryArraySize(buffer) /\ j < Log(buffer)[k + 1].size
                 THEN SizeOfFirst(buffer, k) + j ELSE -1
    <3>1. k \in Nat /\ j \in Nat
      BY <2>2
    <3>2. QED
      BY <2>1, <3>1, FposIsPosition
  <2>4. QED
    BY <2>3 DEF SeeksEveryCommand
<1>2. QED
  BY <1>1, BufferInOrder, PTL

\* aesd_circular_buffer_find_entry_offset_for_fpos finds every character of the
\* entries "concatenated end to end" and nothing behind them, in an empty, a
\* part-filled and a full ring.
THEOREM AlwaysFindsEveryCharacter == Spec => []FindsEveryCharacter
<1>1. ASSUME BufferOK
      PROVE  FindsEveryCharacter
  <2>1. Measured(buffer, Entries)
    BY <1>1, BufferIsMeasured
  <2>2. Total(buffer) \in Nat
    <3>1. EntryArraySize(buffer) \in 0 .. EntryArraySize(buffer)
      BY <2>1, EntryCount, CapacityAssumption DEF Measured
    <3>2. QED
      BY <2>1, <3>1, SizeOfFirstStep DEF Total
  <2>3. ASSUME NEW char_offset \in 0 .. Total(buffer) + 1
        PROVE  IF char_offset >= Total(buffer)
               THEN ~FindEntryOffsetForFpos(buffer, char_offset).found
               ELSE /\ FindEntryOffsetForFpos(buffer, char_offset).found
                    /\ \E k \in 1 .. EntryArraySize(buffer) :
                         /\ FindEntryOffsetForFpos(buffer, char_offset).offset =
                              AbsoluteEntryOffset(buffer, k - 1)
                         /\ FindEntryOffsetForFpos(buffer, char_offset).byte =
                              char_offset - SizeOfFirst(buffer, k - 1)
                         /\ FindEntryOffsetForFpos(buffer, char_offset).byte
                              \in 0 .. Log(buffer)[k].size - 1
    BY <2>1, <2>2, FindsPosition
  <2>4. QED
    BY <2>3 DEF FindsEveryCharacter
<1>2. QED
  BY <1>1, BufferInOrder, PTL

=============================================================================

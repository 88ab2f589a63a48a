-------------------------- MODULE AesdDriverProofs ---------------------------
(***************************************************************************)
(* Proofs about the aesdchar driver, for every capacity of the ring, any   *)
(* files and any kernel blocks, whatever fails and is interrupted.         *)
(***************************************************************************)
EXTENDS AesdDriverProps, CircularBufferLemmas, SequenceTheorems

LEMMA EmptyEntryIsNone == NoEntry \notin Entries
BY ValuesAssumption DEF NoEntry, Entries

-----------------------------------------------------------------------------
(* What the device must be like, said of a log of entries, the blocks and   *)
(* the unterminated buffer, so that it can be said of the next state too.   *)

\* A block that holds the characters of a finished command.
HoldsCommand(h, block, size) ==
  /\ h[block] \in Seq(Bytes) /\ Len(h[block]) = size
  /\ \A i \in 1 .. size : h[block][i] = Terminator <=> i = size

\* A block that holds the characters of an unfinished one.
HoldsPart(h, block, size) ==
  /\ h[block] \in Seq(Bytes) /\ Len(h[block]) = size
  /\ \A i \in 1 .. size : h[block][i] # Terminator

Sound(log, h, block, size) ==
  /\ \A k \in 1 .. Len(log) : HoldsCommand(h, log[k].buffptr, log[k].size)
  /\ \A k \in 1 .. Len(log) : log[k].buffptr # block
  /\ \A j, k \in 1 .. Len(log) : j # k => log[j].buffptr # log[k].buffptr
  /\ block # NULL => HoldsPart(h, block, size)

\* The inductive invariant.  Files are open only while the module is loaded.
OwnershipInv ==
  /\ loaded \in BOOLEAN
  /\ ~loaded => open = {}
  /\ InOrder(buffer, Entries)
  /\ unterminated_buffptr \in Blocks \cup {NULL}
  /\ unterminated_size \in Nat
  /\ heap \in [Blocks -> {Free} \cup Seq(Bytes)]
  /\ loaded => Sound(Log(buffer), heap, unterminated_buffptr,
                     unterminated_size)

LEMMA DeviceLogIsSeq ==
  ASSUME OwnershipInv
  PROVE  /\ DeviceLog \in Seq(Entries)
         /\ DOMAIN DeviceLog = 1 .. Len(DeviceLog)
         /\ \A k \in 1 .. Len(DeviceLog) :
              DeviceLog[k].buffptr \in Blocks /\ DeviceLog[k].size \in Nat
<1>1. DeviceLog \in Seq(Entries)
  BY LogIsSeq DEF OwnershipInv, DeviceLog
<1>2. \A k \in 1 .. Len(DeviceLog) : DeviceLog[k] \in Entries
  BY <1>1
<1>3. QED
  BY <1>1, <1>2 DEF Entries

\* What the invariant says is what the properties say.
LEMMA OwnershipIsSafe ==
  ASSUME OwnershipInv
  PROVE  BlocksOwned /\ OneCommandPerEntry
<1> SUFFICES ASSUME loaded PROVE BlocksOwned /\ OneCommandPerEntry
  BY DEF BlocksOwned, OneCommandPerEntry
<1>1. /\ DeviceLog \in Seq(Entries)
      /\ DOMAIN DeviceLog = 1 .. Len(DeviceLog)
  BY DeviceLogIsSeq
<1>2. Sound(DeviceLog, heap, unterminated_buffptr, unterminated_size)
  BY DEF OwnershipInv, DeviceLog
<1>3. \A b, n : HoldsCommand(heap, b, n) \/ HoldsPart(heap, b, n)
                   => heap[b] # Free /\ Len(heap[b]) = n
  BY ValuesAssumption DEF HoldsCommand, HoldsPart
<1>4. BlocksOwned
  BY <1>1, <1>2, <1>3 DEF BlocksOwned, Sound
<1>5. ASSUME NEW k \in DOMAIN DeviceLog
      PROVE  /\ EntryText(DeviceLog[k]) = heap[DeviceLog[k].buffptr]
             /\ HoldsCommand(heap, DeviceLog[k].buffptr, DeviceLog[k].size)
  BY <1>1, <1>2, SubSeqFull DEF Sound, HoldsCommand, EntryText
<1>6. unterminated_buffptr # NULL =>
        ~Contains(heap[unterminated_buffptr], Terminator)
  BY <1>2 DEF Sound, HoldsPart, Contains
<1>7. OneCommandPerEntry
  BY <1>5, <1>6 DEF OneCommandPerEntry, HoldsCommand
<1>8. QED
  BY <1>4, <1>7

-----------------------------------------------------------------------------
(* aesd_write *)

\* krealloc gives a block no entry has, and the one already in use if there is.
LEMMA BlockForWrite ==
  ASSUME OwnershipInv, loaded, CanReallocate
  PROVE  /\ Reallocated \in Blocks
         /\ unterminated_buffptr # NULL => Reallocated = unterminated_buffptr
         /\ \A k \in 1 .. Len(DeviceLog) : DeviceLog[k].buffptr # Reallocated
<1>1. CASE unterminated_buffptr = NULL
  <2>1. Reallocated \in FreeBlocks
    BY <1>1 DEF CanReallocate, Reallocated
  <2>2. \A k \in 1 .. Len(DeviceLog) :
          /\ heap[DeviceLog[k].buffptr] \in Seq(Bytes)
    BY DEF OwnershipInv, Sound, HoldsCommand, DeviceLog
  <2>3. QED
    BY <1>1, <2>1, <2>2, ValuesAssumption DEF FreeBlocks
<1>2. CASE unterminated_buffptr # NULL
  BY <1>2 DEF OwnershipInv, Reallocated, Sound, DeviceLog
<1>3. QED
  BY <1>1, <1>2

\* The characters already in it are those of an unfinished command (garbage, if
\* an earlier krealloc has failed).
LEMMA KeptIsPart ==
  ASSUME OwnershipInv, loaded
  PROVE  /\ Kept \in Seq(Bytes) /\ Len(Kept) = unterminated_size
         /\ \A i \in 1 .. unterminated_size : Kept[i] # Terminator
<1>1. CASE unterminated_buffptr = NULL
  <2>1. Kept = [i \in 1 .. unterminated_size |-> Garbage]
    BY <1>1 DEF Kept
  <2>2. Garbage \in Bytes /\ Garbage # Terminator /\ unterminated_size \in Nat
    BY ValuesAssumption DEF Bytes, OwnershipInv
  <2>3. QED
    BY <2>1, <2>2
<1>2. CASE unterminated_buffptr # NULL
  BY <1>2 DEF Kept, OwnershipInv, Sound, HoldsPart
<1>3. QED
  BY <1>1, <1>2

\* What a write puts behind them: a terminator only at the given place.
LEMMA UserDataText ==
  ASSUME NEW f \in Files, NEW count \in Nat, NEW p \in Int
  PROVE  /\ UserData(f, count, p) \in Seq(Bytes)
         /\ Len(UserData(f, count, p)) = count
         /\ \A i \in 1 .. count :
              UserData(f, count, p)[i] = Terminator <=> i - 1 = p
<1>1. f \in Bytes /\ Terminator \in Bytes /\ f # Terminator
  BY ValuesAssumption DEF Bytes
<1>2. QED
  BY <1>1 DEF UserData

\* The invariant reads the device, and which files are open.
LEMMA DeviceUnchanged ==
  ASSUME OwnershipInv, UNCHANGED <<loaded, device>>, ~loaded => open' = {}
  PROVE  OwnershipInv'
<1>1. /\ loaded' = loaded /\ buffer' = buffer /\ heap' = heap
      /\ unterminated_buffptr' = unterminated_buffptr
      /\ unterminated_size' = unterminated_size
  BY DEF device
<1>2. Log(buffer)' = Log(buffer)
  BY <1>1
<1>3. InOrder(buffer, Entries)'
  BY <1>1 DEF OwnershipInv
<1>4. Sound(Log(buffer), heap, unterminated_buffptr, unterminated_size)' <=>
        Sound(Log(buffer), heap, unterminated_buffptr, unterminated_size)
  BY <1>1, <1>2
<1>5. QED
  BY <1>1, <1>3, <1>4 DEF OwnershipInv

\* A step that changes what the unterminated buffer holds.
LEMMA PartWritten ==
  ASSUME OwnershipInv, loaded, UNCHANGED <<loaded, buffer, open>>,
         NEW block \in Blocks,
         \A k \in 1 .. Len(DeviceLog) : DeviceLog[k].buffptr # block,
         heap' \in [Blocks -> {Free} \cup Seq(Bytes)],
         \A b \in Blocks : b # block => heap'[b] = heap[b],
         unterminated_size' \in Nat,
         \/ unterminated_buffptr' = NULL
         \/ /\ unterminated_buffptr' = block
            /\ HoldsPart(heap', block, unterminated_size')
  PROVE  OwnershipInv'
<1>1. Log(buffer)' = DeviceLog /\ DeviceLog \in Seq(Entries)
  BY DeviceLogIsSeq DEF DeviceLog
<1>2. InOrder(buffer, Entries)'
  BY DEF OwnershipInv
<1>3. Sound(DeviceLog, heap, unterminated_buffptr, unterminated_size)
  BY DEF OwnershipInv, DeviceLog
<1>4. \A k \in 1 .. Len(DeviceLog) : DeviceLog[k].buffptr \in Blocks
  BY DeviceLogIsSeq
<1>5. \A k \in 1 .. Len(DeviceLog) :
        heap'[DeviceLog[k].buffptr] = heap[DeviceLog[k].buffptr]
  BY <1>4
<1>6. \A k \in 1 .. Len(DeviceLog) :
        HoldsCommand(heap', DeviceLog[k].buffptr, DeviceLog[k].size)
  BY <1>3, <1>5 DEF Sound, HoldsCommand
<1>7. \A k \in 1 .. Len(DeviceLog) :
        DeviceLog[k].buffptr # unterminated_buffptr'
  BY <1>4, ValuesAssumption
<1>8. Sound(DeviceLog, heap', unterminated_buffptr', unterminated_size')
  BY <1>3, <1>6, <1>7 DEF Sound
<1>9. Sound(Log(buffer), heap, unterminated_buffptr, unterminated_size)'
  BY <1>1, <1>8
<1>10. QED
  BY <1>2, <1>9 DEF OwnershipInv

-----------------------------------------------------------------------------
(* A command is ended: a new entry takes over the block, and the oldest one *)
(* of a full ring goes.                                                     *)

\* The text of the new entry has its only terminator at the end.
LEMMA CommandText ==
  ASSUME OwnershipInv, loaded, NEW f \in Files, NEW p \in Nat,
         NEW text, text = Kept \o UserData(f, p + 1, p)
  PROVE  /\ text \in Seq(Bytes) /\ Len(text) = unterminated_size + (p + 1)
         /\ \A i \in 1 .. Len(text) : text[i] = Terminator <=> i = Len(text)
<1> DEFINE data == UserData(f, p + 1, p)
           n == unterminated_size
<1>1. /\ data \in Seq(Bytes) /\ Len(data) = p + 1
      /\ \A i \in 1 .. p + 1 : data[i] = Terminator <=> i - 1 = p
  BY UserDataText
<1>2. /\ n \in Nat /\ Kept \in Seq(Bytes) /\ Len(Kept) = n
      /\ \A i \in 1 .. n : Kept[i] # Terminator
  BY KeptIsPart DEF OwnershipInv
<1>3. text = Kept \o data
  OBVIOUS
<1> HIDE DEF data, n
<1>4. /\ text \in Seq(Bytes) /\ Len(text) = n + (p + 1)
      /\ \A i \in 1 .. n + (p + 1) :
           text[i] = IF i <= n THEN Kept[i] ELSE data[i - n]
  <2>1. /\ Kept \o data \in Seq(Bytes)
        /\ Len(Kept \o data) = Len(Kept) + Len(data)
        /\ \A i \in 1 .. Len(Kept) + Len(data) :
             (Kept \o data)[i] = IF i <= Len(Kept) THEN Kept[i]
                                ELSE data[i - Len(Kept)]
    BY <1>1, <1>2, ConcatProperties
  <2>2. QED
    BY <1>1, <1>2, <1>3, <2>1
<1>5. ASSUME NEW i \in 1 .. n + (p + 1)
      PROVE  text[i] = Terminator <=> i = n + (p + 1)
  BY <1>1, <1>2, <1>4
<1>6. QED
  BY <1>4, <1>5 DEF n

\* The log of the device without the entry that is replaced.
Remaining == IF buffer.full THEN Tail(DeviceLog) ELSE DeviceLog

\* What remains are the entries of the blocks that are not freed.
LEMMA RemainingEntries ==
  ASSUME OwnershipInv, loaded
  PROVE  /\ Remaining \in Seq(Entries)
         /\ \A k \in 1 .. Len(Remaining) :
              \E i \in 1 .. Len(DeviceLog) :
                /\ Remaining[k] = DeviceLog[i]
                /\ i = IF buffer.full THEN k + 1 ELSE k
                /\ DeviceLog[i].buffptr # Replaced(buffer)
         /\ \A i \in 1 .. Len(DeviceLog) :
              \/ DeviceLog[i].buffptr = Replaced(buffer)
              \/ \E k \in 1 .. Len(Remaining) : Remaining[k] = DeviceLog[i]
<1>1. /\ DeviceLog \in Seq(Entries)
      /\ \A k \in 1 .. Len(DeviceLog) : DeviceLog[k].buffptr \in Blocks
      /\ \A j, k \in 1 .. Len(DeviceLog) :
           j # k => DeviceLog[j].buffptr # DeviceLog[k].buffptr
  BY DeviceLogIsSeq DEF OwnershipInv, Sound, DeviceLog
<1>2. Replaced(buffer) = IF buffer.full THEN DeviceLog[1].buffptr ELSE NULL
  BY ReplacedIsOldest DEF OwnershipInv, DeviceLog
<1>3. CASE buffer.full
  <2>1. Len(DeviceLog) = Capacity /\ Capacity \in 1 .. 255
    BY <1>3, LogIsSeq, EntryCount, CapacityAssumption
       DEF OwnershipInv, DeviceLog
  <2>2. /\ Remaining \in Seq(Entries)
        /\ Len(Remaining) = Len(DeviceLog) - 1
        /\ \A k \in 1 .. Len(Remaining) : Remaining[k] = DeviceLog[k + 1]
    BY <1>1, <1>3, <2>1 DEF Remaining
  <2>3. ASSUME NEW k \in 1 .. Len(Remaining)
        PROVE  /\ k + 1 \in 1 .. Len(DeviceLog)
               /\ DeviceLog[k + 1].buffptr # Replaced(buffer)
    BY <1>1, <1>2, <1>3, <2>1, <2>2
  <2>4. ASSUME NEW i \in 1 .. Len(DeviceLog), i # 1
        PROVE  /\ i - 1 \in 1 .. Len(Remaining)
               /\ Remaining[i - 1] = DeviceLog[i]
    BY <2>1, <2>2, <2>4
  <2>5. QED
    BY <1>2, <1>3, <2>2, <2>3, <2>4
<1>4. CASE ~buffer.full
  BY <1>1, <1>2, <1>4, ValuesAssumption DEF Remaining
<1>5. QED
  BY <1>3, <1>4

\* The block that is freed, if any, is that of an entry.
LEMMA ReplacedIsOwned ==
  ASSUME OwnershipInv
  PROVE  \/ Replaced(buffer) = NULL
         \/ \E k \in 1 .. Len(DeviceLog) :
              Replaced(buffer) = DeviceLog[k].buffptr
<1>1. Len(DeviceLog) = EntryArraySize(buffer)
  BY LogIsSeq DEF OwnershipInv, DeviceLog
<1>2. Replaced(buffer) = IF buffer.full THEN DeviceLog[1].buffptr ELSE NULL
  BY ReplacedIsOldest DEF OwnershipInv, DeviceLog
<1>3. buffer.full => 1 \in 1 .. Len(DeviceLog)
  BY <1>1, EntryCount, CapacityAssumption DEF OwnershipInv
<1>4. QED
  BY <1>2, <1>3

LEMMA CommandEnded ==
  ASSUME OwnershipInv, loaded, CanReallocate, UNCHANGED <<loaded, open>>,
         NEW f \in Files, NEW p \in Nat, EndCommand(f, p + 1, p)
  PROVE  /\ OwnershipInv'
         /\ \E e \in Entries : /\ e.buffptr = Reallocated
                               /\ Log(buffer)' = Append(Remaining, e)
<1> DEFINE e == [buffptr |-> Reallocated,
                 size |-> unterminated_size + (p + 1)]
           text == Kept \o UserData(f, p + 1, p)
<1>1. /\ text \in Seq(Bytes) /\ Len(text) = e.size
      /\ \A i \in 1 .. Len(text) : text[i] = Terminator <=> i = Len(text)
  BY CommandText
<1>2. /\ Reallocated \in Blocks
      /\ \A k \in 1 .. Len(DeviceLog) : DeviceLog[k].buffptr # Reallocated
  BY BlockForWrite
<1>3. e \in Entries /\ e.buffptr = Reallocated
  BY <1>2 DEF OwnershipInv, Entries
<1>4. /\ buffer' = AddEntry(buffer, e)
      /\ unterminated_buffptr' = NULL /\ unterminated_size' = 0
      /\ heap' = [b \in Blocks |-> CASE b = Reallocated      -> text
                                     [] b = Replaced(buffer) -> Free
                                     [] OTHER                -> heap[b]]
  BY DEF EndCommand
<1> HIDE DEF e, text
<1>5. /\ InOrder(buffer, Entries)'
      /\ Log(buffer)' = Append(Remaining, e)
  BY <1>3, <1>4, AddInOrder, LogAfterAdd DEF OwnershipInv, Remaining, DeviceLog
<1>6. heap' \in [Blocks -> {Free} \cup Seq(Bytes)]
  BY <1>1, <1>4 DEF OwnershipInv
<1>7. Sound(DeviceLog, heap, unterminated_buffptr, unterminated_size)
  BY DEF OwnershipInv, DeviceLog
<1>8. ASSUME NEW k \in 1 .. Len(Remaining)
      PROVE  /\ Remaining[k].buffptr # Reallocated
             /\ Remaining[k].buffptr # NULL
             /\ HoldsCommand(heap', Remaining[k].buffptr, Remaining[k].size)
  <2>1. PICK i \in 1 .. Len(DeviceLog) :
          /\ Remaining[k] = DeviceLog[i]
          /\ DeviceLog[i].buffptr # Replaced(buffer)
    BY RemainingEntries
  <2>2. DeviceLog[i].buffptr \in Blocks /\ DeviceLog[i].buffptr # Reallocated
    BY <1>2, DeviceLogIsSeq
  <2>3. heap'[DeviceLog[i].buffptr] = heap[DeviceLog[i].buffptr]
    BY <1>4, <2>1, <2>2
  <2>4. HoldsCommand(heap', DeviceLog[i].buffptr, DeviceLog[i].size)
    BY <1>7, <2>3 DEF Sound, HoldsCommand
  <2>5. QED
    BY <2>1, <2>2, <2>4, ValuesAssumption
<1>9. HoldsCommand(heap', e.buffptr, e.size)
  <2>1. Reallocated # Replaced(buffer)
    BY <1>2, ReplacedIsOwned, ValuesAssumption
  <2>2. heap'[Reallocated] = text
    BY <1>2, <1>4, <2>1
  <2>3. QED
    BY <1>1, <1>3, <2>2 DEF HoldsCommand
<1>10. \A j, k \in 1 .. Len(Remaining) :
         j # k => Remaining[j].buffptr # Remaining[k].buffptr
  BY <1>7, RemainingEntries, SMTT(30) DEF Sound
<1>11. Sound(Append(Remaining, e), heap', NULL, 0)
  <2> DEFINE log == Append(Remaining, e)
             n == Len(Remaining)
  <2>1. /\ n \in Nat /\ Len(log) = n + 1
        /\ \A k \in 1 .. n + 1 : log[k] = IF k <= n THEN Remaining[k] ELSE e
    <3>1. Remaining \in Seq(Entries)
      BY RemainingEntries
    <3>2. QED
      BY <1>3, <3>1, AppendProperties
  <2> HIDE DEF log, n
  <2>2. \A k \in 1 .. n : /\ Remaining[k].buffptr # Reallocated
                          /\ Remaining[k].buffptr # NULL
                          /\ HoldsCommand(heap', Remaining[k].buffptr,
                                          Remaining[k].size)
    BY <1>8 DEF n
  <2>3. \A j, k \in 1 .. n : j # k => Remaining[j].buffptr # Remaining[k].buffptr
    BY <1>10 DEF n
  <2>4. \A k \in 1 .. n + 1 : /\ log[k].buffptr # NULL
                              /\ HoldsCommand(heap', log[k].buffptr, log[k].size)
    BY <1>2, <1>3, <1>9, <2>1, <2>2, ValuesAssumption
  <2>5. \A j, k \in 1 .. n + 1 : j # k => log[j].buffptr # log[k].buffptr
    BY <1>3, <2>1, <2>2, <2>3
  <2>6. QED
    BY <2>1, <2>4, <2>5 DEF Sound, log
<1>12. Sound(Log(buffer), heap, unterminated_buffptr, unterminated_size)'
  BY <1>4, <1>5, <1>11
<1>13. QED
  BY <1>3, <1>4, <1>5, <1>6, <1>12 DEF OwnershipInv

-----------------------------------------------------------------------------
(* Every step of the driver keeps each block with one owner. *)

\* krealloc gives back what the failed write has put in the block, or keeps it.
LEMMA FaultKeepsOwnership ==
  ASSUME OwnershipInv, loaded, NEW f \in Files, WriteFault(f)
  PROVE  OwnershipInv'
<1>1. /\ Reallocated \in Blocks
      /\ \A k \in 1 .. Len(DeviceLog) : DeviceLog[k].buffptr # Reallocated
  BY BlockForWrite DEF WriteFault
<1>2. /\ Kept \in Seq(Bytes) /\ Len(Kept) = unterminated_size
      /\ \A i \in 1 .. unterminated_size : Kept[i] # Terminator
  BY KeptIsPart
<1>3. /\ unterminated_buffptr' = IF unterminated_size = 0 THEN NULL
                                                        ELSE Reallocated
      /\ unterminated_size' = unterminated_size
      /\ heap' = [heap EXCEPT ![Reallocated] =
                    IF unterminated_size = 0 THEN Free ELSE Kept]
      /\ UNCHANGED <<loaded, buffer, open>>
  BY DEF WriteFault
<1>4. /\ heap' \in [Blocks -> {Free} \cup Seq(Bytes)]
      /\ \A b \in Blocks : b # Reallocated => heap'[b] = heap[b]
      /\ unterminated_size # 0 => heap'[Reallocated] = Kept
      /\ unterminated_size' \in Nat
  BY <1>1, <1>2, <1>3 DEF OwnershipInv
<1>5. \/ unterminated_buffptr' = NULL
      \/ /\ unterminated_buffptr' = Reallocated
         /\ HoldsPart(heap', Reallocated, unterminated_size')
  BY <1>2, <1>3, <1>4 DEF HoldsPart
<1>6. QED
  BY <1>1, <1>3, <1>4, <1>5, PartWritten

\* The characters of a write join those of the unfinished command.
LEMMA SomeKeepsOwnership ==
  ASSUME OwnershipInv, loaded, NEW f \in Files, NEW count \in Nat,
         WriteSome(f, count)
  PROVE  OwnershipInv'
<1> DEFINE data == UserData(f, count, -1)
           text == Kept \o data
<1>1. /\ Reallocated \in Blocks
      /\ \A k \in 1 .. Len(DeviceLog) : DeviceLog[k].buffptr # Reallocated
  BY BlockForWrite DEF WriteSome
<1>2. /\ Kept \in Seq(Bytes) /\ Len(Kept) = unterminated_size
      /\ \A i \in 1 .. unterminated_size : Kept[i] # Terminator
      /\ unterminated_size \in Nat
  BY KeptIsPart DEF OwnershipInv
<1>3. /\ data \in Seq(Bytes) /\ Len(data) = count
      /\ \A i \in 1 .. count : data[i] # Terminator
  BY UserDataText
<1>4. /\ unterminated_buffptr' = Reallocated
      /\ unterminated_size' = unterminated_size + count
      /\ heap' = [heap EXCEPT ![Reallocated] = text]
      /\ UNCHANGED <<loaded, buffer, open>>
  BY DEF WriteSome
<1> HIDE DEF data
<1>5. /\ text \in Seq(Bytes) /\ Len(text) = Len(Kept) + Len(data)
      /\ \A i \in 1 .. Len(Kept) + Len(data) :
           text[i] = IF i <= Len(Kept) THEN Kept[i] ELSE data[i - Len(Kept)]
  BY <1>2, <1>3, ConcatProperties
<1> HIDE DEF text
<1>6. \A i \in 1 .. unterminated_size + count : text[i] # Terminator
  BY <1>2, <1>3, <1>5
<1>7. /\ heap' \in [Blocks -> {Free} \cup Seq(Bytes)]
      /\ \A b \in Blocks : b # Reallocated => heap'[b] = heap[b]
      /\ heap'[Reallocated] = text
  BY <1>1, <1>4, <1>5 DEF OwnershipInv
<1>8. HoldsPart(heap', Reallocated, unterminated_size')
  BY <1>2, <1>3, <1>4, <1>5, <1>6, <1>7 DEF HoldsPart
<1>9. unterminated_size' \in Nat
  BY <1>2, <1>4
<1>10. QED
  BY <1>1, <1>4, <1>7, <1>8, <1>9, PartWritten

\* When krealloc fails the characters are forgotten, and their number is not.
LEMMA NoMemoryKeepsOwnership ==
  ASSUME OwnershipInv, loaded, NEW f \in Files, WriteNoMemory(f)
  PROVE  OwnershipInv'
<1>1. /\ unterminated_buffptr' = NULL
      /\ UNCHANGED <<loaded, buffer, unterminated_size, heap, open>>
  BY DEF WriteNoMemory
<1>2. Log(buffer)' = DeviceLog /\ InOrder(buffer, Entries)'
  BY <1>1 DEF DeviceLog, OwnershipInv
<1>3. \A k \in 1 .. Len(DeviceLog) : DeviceLog[k].buffptr # NULL
  BY DeviceLogIsSeq, ValuesAssumption
<1>4. Sound(DeviceLog, heap, unterminated_buffptr, unterminated_size)
  BY DEF OwnershipInv, DeviceLog
<1>5. Sound(DeviceLog, heap, NULL, unterminated_size)
  BY <1>3, <1>4 DEF Sound
<1>6. Sound(Log(buffer), heap, unterminated_buffptr, unterminated_size)'
  BY <1>1, <1>2, <1>5
<1>7. QED
  BY <1>1, <1>2, <1>6 DEF OwnershipInv

\* A device that is loaded is empty: it points to no block.
LEMMA EmptyDevice ==
  ASSUME NEW h, NEW n
  PROVE  Sound(Log(InitBuffer), h, NULL, n) /\ Log(InitBuffer) = <<>>
<1>1. InOrder(InitBuffer, Entries)
  BY InitInOrder, EmptyEntryIsNone
<1>2. EntryArraySize(InitBuffer) = 0
  BY <1>1, EntryCount DEF InitBuffer
<1>3. Log(InitBuffer) \in Seq(Entries) /\ Len(Log(InitBuffer)) = 0
  BY <1>1, <1>2, LogIsSeq
<1>4. Log(InitBuffer) = <<>>
  BY <1>3
<1>5. QED
  BY <1>4 DEF Sound

LEMMA LoadKeepsOwnership ==
  ASSUME OwnershipInv, Load
  PROVE  OwnershipInv'
<1>1. InOrder(buffer, Entries)'
  BY InitInOrder, EmptyEntryIsNone DEF Load
<1>2. Sound(Log(buffer), heap, unterminated_buffptr, unterminated_size)'
  BY EmptyDevice DEF Load
<1>3. QED
  BY <1>1, <1>2 DEF Load, OwnershipInv

LEMMA CleanupKeepsOwnership ==
  ASSUME OwnershipInv, Cleanup
  PROVE  OwnershipInv'
<1>1. InOrder(buffer, Entries)'
  BY DEF Cleanup, OwnershipInv
<1>2. heap' \in [Blocks -> {Free} \cup Seq(Bytes)]
  BY DEF Cleanup, OwnershipInv
<1>3. QED
  BY <1>1, <1>2 DEF Cleanup, OwnershipInv

\* The file operations that only read the device, and the calls that end early.
ReadsOnly(f) ==
  \/ Open(f) \/ Release(f) \/ Interrupted(f) \/ IoctlRefused(f)
  \/ WriteNothing(f)
  \/ \E count \in 1 .. MaxRequest : Read(f, count)
  \/ \E offset \in SeekOffsets,
        whence \in {"SEEK_SET", "SEEK_CUR", "SEEK_END"} :
       Llseek(f, offset, whence)
  \/ \E write_cmd \in SeekCommands, write_cmd_offset \in 0 .. MaxRequest :
       SeekTo(f, write_cmd, write_cmd_offset)

\* What a step can be, the writes that change the device apart.
LEMMA StepCases ==
  ASSUME Next
  PROVE  \/ Load \/ Cleanup
         \/ \E f \in Files :
              \/ ReadsOnly(f) \/ WriteNoMemory(f) \/ WriteFault(f)
              \/ \E count \in 1 .. MaxRequest :
                   \/ WriteSome(f, count)
                   \/ \E terminator_position \in 0 .. count - 1 :
                        WriteCommand(f, count, terminator_position)
BY Zenon DEF Next, FileOperation, Write, ReadsOnly

LEMMA ReadsOnlyKeeps ==
  ASSUME NEW f \in Files, ReadsOnly(f), ~loaded => open = {}
  PROVE  UNCHANGED <<loaded, device>> /\ (~loaded => open' = {})
<1>1. CASE Open(f) \/ Release(f) \/ Interrupted(f) \/ IoctlRefused(f)
           \/ WriteNothing(f)
  BY <1>1 DEF Open, Release, Interrupted, IoctlRefused, WriteNothing
<1>2. CASE \E count \in 1 .. MaxRequest : Read(f, count)
  BY <1>2 DEF Read
<1>3. CASE \E offset \in SeekOffsets,
              whence \in {"SEEK_SET", "SEEK_CUR", "SEEK_END"} :
             Llseek(f, offset, whence)
  BY <1>3 DEF Llseek
<1>4. CASE \E write_cmd \in SeekCommands, write_cmd_offset \in 0 .. MaxRequest :
             SeekTo(f, write_cmd, write_cmd_offset)
  BY <1>4 DEF SeekTo
<1>5. QED
  BY <1>1, <1>2, <1>3, <1>4 DEF ReadsOnly

-----------------------------------------------------------------------------
LEMMA OwnershipInit == Init => OwnershipInv
<1> SUFFICES ASSUME Init PROVE OwnershipInv
  OBVIOUS
<1>1. InOrder(buffer, Entries)
  BY InitInOrder, EmptyEntryIsNone DEF Init
<1>2. Sound(Log(buffer), heap, unterminated_buffptr, unterminated_size)
  BY EmptyDevice DEF Init
<1>3. QED
  BY <1>1, <1>2 DEF Init, OwnershipInv

LEMMA OwnershipStep == OwnershipInv /\ [Next]_vars => OwnershipInv'
<1> SUFFICES ASSUME OwnershipInv, [Next]_vars PROVE OwnershipInv'
  OBVIOUS
<1>0. ~loaded => open = {}
  BY DEF OwnershipInv
<1>1. CASE Load
  BY <1>1, LoadKeepsOwnership
<1>2. CASE Cleanup
  BY <1>2, CleanupKeepsOwnership
<1>3. ASSUME NEW f \in Files, ReadsOnly(f)
      PROVE  OwnershipInv'
  BY <1>0, <1>3, ReadsOnlyKeeps, DeviceUnchanged
<1>4. ASSUME NEW f \in Files, WriteNoMemory(f)
      PROVE  OwnershipInv'
  BY <1>0, <1>4, NoMemoryKeepsOwnership DEF WriteNoMemory, Locks
<1>5. ASSUME NEW f \in Files, WriteFault(f)
      PROVE  OwnershipInv'
  BY <1>0, <1>5, FaultKeepsOwnership DEF WriteFault, Locks
<1>6. ASSUME NEW f \in Files, NEW count \in 1 .. MaxRequest,
             WriteSome(f, count)
      PROVE  OwnershipInv'
  <2>1. count \in Nat
    BY BoundsAssumption
  <2>2. loaded
    BY <1>0, <1>6 DEF WriteSome, Locks
  <2>3. QED
    BY <1>6, <2>1, <2>2, SomeKeepsOwnership
<1>7. ASSUME NEW f \in Files, NEW count \in 1 .. MaxRequest,
             NEW terminator_position \in 0 .. count - 1,
             WriteCommand(f, count, terminator_position)
      PROVE  OwnershipInv'
  <2>1. terminator_position \in Nat
    BY BoundsAssumption
  <2>2. /\ loaded /\ CanReallocate /\ UNCHANGED <<loaded, open>>
        /\ EndCommand(f, terminator_position + 1, terminator_position)
    BY <1>0, <1>7 DEF WriteCommand, Locks
  <2>3. QED
    BY <2>1, <2>2, CommandEnded
<1>8. CASE UNCHANGED vars
  BY <1>0, <1>8, DeviceUnchanged DEF vars
<1>9. QED
  BY <1>1, <1>2, <1>3, <1>4, <1>5, <1>6, <1>7, <1>8, StepCases

THEOREM OwnershipHolds == Spec => []OwnershipInv
<1>1. Init => OwnershipInv
  BY OwnershipInit
<1>2. OwnershipInv /\ [Next]_vars => OwnershipInv'
  BY OwnershipStep
<1>3. QED
  BY <1>1, <1>2, PTL DEF Spec

\* Whatever fails and whatever the writers interleave, no block has two owners
\* and none is freed that is still pointed to: aesd_write and
\* aesd_cleanup_module never free twice.
THEOREM BlocksAlwaysOwned == Spec => []BlocksOwned
<1>1. OwnershipInv => BlocksOwned
  BY OwnershipIsSafe
<1>2. QED
  BY <1>1, OwnershipHolds, PTL

\* An entry of the ring is always one whole command with its newline, and the
\* newline is never left behind in the unterminated buffer: what aesd_write and
\* aesd_iocseekto take for a command is one.
THEOREM AlwaysOneCommandPerEntry == Spec => []OneCommandPerEntry
<1>1. OwnershipInv => OneCommandPerEntry
  BY OwnershipIsSafe
<1>2. QED
  BY <1>1, OwnershipHolds, PTL

-----------------------------------------------------------------------------
(* No block is lost, as long as krealloc never fails: aesd_write assigns its *)
(* NULL to the only pointer to the unterminated block.                       *)

LEMMA NoLeakStep ==
  ASSUME KreallocMayFail = FALSE
  PROVE  OwnershipInv /\ NoLeak /\ [Next]_vars => NoLeak'
<1> SUFFICES ASSUME OwnershipInv, NoLeak, [Next]_vars,
                    NEW b \in Blocks, heap'[b] # Free
             PROVE  loaded' /\ b \in BlocksInUse'
  BY DEF NoLeak
<1>0. /\ ~loaded => open = {}
      /\ heap \in [Blocks -> {Free} \cup Seq(Bytes)]
      /\ DOMAIN DeviceLog = 1 .. Len(DeviceLog)
  BY DeviceLogIsSeq DEF OwnershipInv
<1>1. CASE Load
  BY <1>1 DEF Load, NoLeak
<1>2. CASE Cleanup
  <2>1. heap[b] # Free /\ b \notin EntryPointers \cup {unterminated_buffptr}
    BY <1>2 DEF Cleanup
  <2>2. PICK k \in 1 .. Len(DeviceLog) : b = DeviceLog[k].buffptr
    BY <1>0, <2>1 DEF NoLeak, BlocksInUse
  <2>3. Len(DeviceLog) = EntryArraySize(buffer)
    BY LogIsSeq DEF OwnershipInv, DeviceLog
  <2>4. DeviceLog[k] = buffer.entry[AbsoluteEntryOffset(buffer, k - 1)]
    BY <2>3 DEF DeviceLog, Log
  <2>5. k - 1 \in Offsets /\ buffer.out_offs \in Offsets
    <3>1. InOrder(buffer, Entries)
      BY DEF OwnershipInv
    <3>2. EntryArraySize(buffer) \in 0 .. Capacity
      BY <3>1, EntryCount
    <3>3. QED
      BY <2>3, <3>1, <3>2, CapacityAssumption DEF Offsets, InOrder
  <2>6. AbsoluteEntryOffset(buffer, k - 1) \in Offsets
    BY <2>5, AbsoluteOffset
  <2>7. b \in EntryPointers
    BY <2>2, <2>4, <2>6, ValuesAssumption DEF EntryPointers
  <2>8. QED
    BY <2>1, <2>7
<1>3. ASSUME UNCHANGED <<loaded, device>>
      PROVE  loaded' /\ b \in BlocksInUse'
  <2>1. /\ UNCHANGED <<loaded, buffer, heap, unterminated_buffptr>>
        /\ DeviceLog' = DeviceLog
    BY <1>3 DEF device, DeviceLog
  <2>2. BlocksInUse' = BlocksInUse
    BY <2>1 DEF BlocksInUse
  <2>3. QED
    BY <2>1, <2>2 DEF NoLeak
<1>4. ASSUME NEW f \in Files, ReadsOnly(f)
      PROVE  loaded' /\ b \in BlocksInUse'
  BY <1>0, <1>3, <1>4, ReadsOnlyKeeps
<1>5. ASSUME NEW f \in Files, WriteNoMemory(f)
      PROVE  loaded' /\ b \in BlocksInUse'
  BY <1>5 DEF WriteNoMemory
<1>6. ASSUME UNCHANGED <<loaded, buffer>>, loaded, CanReallocate, NEW text,
             heap' = [heap EXCEPT ![Reallocated] = text],
             \/ unterminated_buffptr' = Reallocated
             \/ unterminated_buffptr' = NULL /\ text = Free
      PROVE  loaded' /\ b \in BlocksInUse'
  <2>1. DeviceLog' = DeviceLog
    BY <1>6 DEF DeviceLog
  <2>2. Reallocated \in Blocks
    BY <1>6, BlockForWrite
  <2>3. CASE b = Reallocated
    BY <1>0, <1>6, <2>2, <2>3, ValuesAssumption DEF BlocksInUse
  <2>4. CASE b # Reallocated
    <3>1. heap[b] # Free
      BY <1>0, <1>6, <2>4
    <3>2. b \in BlocksInUse /\ b # unterminated_buffptr
      BY <1>6, <2>4, <3>1, ValuesAssumption DEF NoLeak, Reallocated
    <3>3. QED
      BY <1>6, <2>1, <3>2 DEF BlocksInUse
  <2>5. QED
    BY <2>3, <2>4
<1>7. ASSUME NEW f \in Files, WriteFault(f)
      PROVE  loaded' /\ b \in BlocksInUse'
  <2>1. /\ UNCHANGED <<loaded, buffer>> /\ loaded /\ CanReallocate
        /\ heap' = [heap EXCEPT ![Reallocated] =
                      IF unterminated_size = 0 THEN Free ELSE Kept]
        /\ unterminated_buffptr' = IF unterminated_size = 0 THEN NULL
                                                          ELSE Reallocated
    BY <1>0, <1>7 DEF WriteFault, Locks
  <2>2. QED
    BY <1>6, <2>1
<1>8. ASSUME NEW f \in Files, NEW count \in 1 .. MaxRequest,
             WriteSome(f, count)
      PROVE  loaded' /\ b \in BlocksInUse'
  <2>1. /\ UNCHANGED <<loaded, buffer>> /\ loaded /\ CanReallocate
        /\ heap' = [heap EXCEPT ![Reallocated] =
                      Kept \o UserData(f, count, -1)]
        /\ unterminated_buffptr' = Reallocated
    BY <1>0, <1>8 DEF WriteSome, Locks
  <2>2. QED
    BY <1>6, <2>1
<1>9. ASSUME NEW f \in Files, NEW count \in 1 .. MaxRequest,
             NEW terminator_position \in 0 .. count - 1,
             WriteCommand(f, count, terminator_position)
      PROVE  loaded' /\ b \in BlocksInUse'
  <2> DEFINE p == terminator_position
  <2>1. p \in Nat
    BY BoundsAssumption
  <2>2. /\ loaded /\ CanReallocate /\ UNCHANGED <<loaded, open>>
        /\ EndCommand(f, p + 1, p)
    BY <1>0, <1>9 DEF WriteCommand, Locks
  <2>3. PICK e \in Entries : /\ e.buffptr = Reallocated
                             /\ Log(buffer)' = Append(Remaining, e)
    BY <2>1, <2>2, CommandEnded
  <2>4. /\ Remaining \in Seq(Entries)
        /\ Append(Remaining, e) \in Seq(Entries)
        /\ Len(Append(Remaining, e)) = Len(Remaining) + 1
        /\ \A k \in 1 .. Len(Remaining) :
             Append(Remaining, e)[k] = Remaining[k]
        /\ Append(Remaining, e)[Len(Remaining) + 1] = e
    BY RemainingEntries, AppendProperties, <2>2
  <2>5. /\ DeviceLog' = Append(Remaining, e)
        /\ DOMAIN Append(Remaining, e) = 1 .. Len(Remaining) + 1
    BY <2>3, <2>4 DEF DeviceLog
  <2>6. \A k \in 1 .. Len(Remaining) + 1 :
          Append(Remaining, e)[k].buffptr \in BlocksInUse'
    BY <2>5 DEF BlocksInUse
  <2>7. CASE b = Reallocated
    BY <2>2, <2>3, <2>4, <2>6, <2>7
  <2>8. CASE b # Reallocated
    <3>1. heap[b] # Free /\ b # Replaced(buffer)
      BY <2>2, <2>8 DEF EndCommand
    <3>2. b # unterminated_buffptr
      BY <2>8, ValuesAssumption DEF Reallocated
    <3>3. PICK i \in 1 .. Len(DeviceLog) : b = DeviceLog[i].buffptr
      BY <1>0, <3>1, <3>2 DEF NoLeak, BlocksInUse
    <3>4. PICK k \in 1 .. Len(Remaining) : Remaining[k] = DeviceLog[i]
      BY <2>2, <3>1, <3>3, RemainingEntries
    <3>5. QED
      BY <2>2, <2>4, <2>6, <3>3, <3>4
  <2>9. QED
    BY <2>7, <2>8
<1>10. CASE UNCHANGED vars
  BY <1>3, <1>10 DEF vars
<1>11. QED
  BY <1>1, <1>2, <1>4, <1>5, <1>7, <1>8, <1>9, <1>10, StepCases

\* Without a failing krealloc every allocated block is in the ring or is the
\* unterminated buffer, and an unloaded module leaves none behind.
THEOREM NeverLeaks ==
  ASSUME KreallocMayFail = FALSE
  PROVE  Spec => []NoLeak
<1>1. Init => OwnershipInv /\ NoLeak
  BY OwnershipInit DEF Init, NoLeak
<1>2. OwnershipInv /\ NoLeak /\ [Next]_vars => (OwnershipInv /\ NoLeak)'
  BY OwnershipStep, NoLeakStep
<1>3. QED
  BY <1>1, <1>2, PTL DEF Spec

-----------------------------------------------------------------------------
(* aesd_read and the seeks: what they find in the ring. *)

LEMMA RingIsMeasured == OwnershipInv => Measured(buffer, Entries)
<1>1. \A e \in Entries : e.size \in Nat /\ e.buffptr # NULL
  BY ValuesAssumption DEF Entries
<1>2. QED
  BY <1>1 DEF OwnershipInv, Measured

\* The log and its length, for the entries and for what they hold.
LEMMA RingSizes ==
  ASSUME OwnershipInv
  PROVE  /\ Len(DeviceLog) = EntryArraySize(buffer)
         /\ EntryArraySize(buffer) \in 0 .. Capacity
         /\ Total(buffer) \in Nat
         /\ BufferSize(buffer) = Total(buffer)
<1>1. Measured(buffer, Entries)
  BY RingIsMeasured
<1>2. Len(DeviceLog) = EntryArraySize(buffer)
  BY LogIsSeq DEF OwnershipInv, DeviceLog
<1>3. EntryArraySize(buffer) \in 0 .. Capacity
  BY EntryCount DEF OwnershipInv
<1>4. EntryArraySize(buffer) \in 0 .. EntryArraySize(buffer)
  BY <1>3, CapacityAssumption
<1>5. QED
  BY <1>1, <1>2, <1>3, <1>4, SizeOfFirstStep, SlotsMeasureLog DEF Total

\* Where aesd_read reads: in the entry that holds the position, or past them
\* all.
LEMMA ReadPlace ==
  ASSUME OwnershipInv, NEW pos \in Nat
  PROVE  \/ /\ FindEntryOffsetForFpos(buffer, pos).found
            /\ \E k \in 1 .. Len(DeviceLog) :
                 /\ buffer.entry[FindEntryOffsetForFpos(buffer, pos).offset] =
                      DeviceLog[k]
                 /\ FindEntryOffsetForFpos(buffer, pos).byte =
                      pos - SizeOfFirst(buffer, k - 1)
                 /\ FindEntryOffsetForFpos(buffer, pos).byte
                      \in 0 .. DeviceLog[k].size - 1
         \/ /\ ~FindEntryOffsetForFpos(buffer, pos).found
            /\ pos - BufferSize(buffer) \in Nat
<1> DEFINE found == FindEntryOffsetForFpos(buffer, pos)
<1>1. /\ Measured(buffer, Entries)
      /\ Len(DeviceLog) = EntryArraySize(buffer)
      /\ BufferSize(buffer) = Total(buffer) /\ Total(buffer) \in Nat
  BY RingIsMeasured, RingSizes
<1>2. IF pos >= Total(buffer)
      THEN ~found.found
      ELSE /\ found.found
           /\ \E k \in 1 .. EntryArraySize(buffer) :
                /\ found.offset = AbsoluteEntryOffset(buffer, k - 1)
                /\ found.byte = pos - SizeOfFirst(buffer, k - 1)
                /\ found.byte \in 0 .. Log(buffer)[k].size - 1
  BY <1>1, FindsPosition
<1> HIDE DEF found
<1>3. CASE pos >= Total(buffer)
  BY <1>1, <1>2, <1>3 DEF found
<1>4. CASE ~ pos >= Total(buffer)
  <2>1. PICK k \in 1 .. EntryArraySize(buffer) :
               /\ found.offset = AbsoluteEntryOffset(buffer, k - 1)
               /\ found.byte = pos - SizeOfFirst(buffer, k - 1)
               /\ found.byte \in 0 .. Log(buffer)[k].size - 1
    BY <1>2, <1>4
  <2>2. DeviceLog[k] = buffer.entry[found.offset]
    BY <2>1 DEF DeviceLog, Log
  <2>3. QED
    BY <1>1, <1>2, <1>4, <2>1, <2>2 DEF found, DeviceLog
<1>5. QED
  BY <1>3, <1>4

LEMMA MinOfTwo ==
  ASSUME NEW a \in Int, NEW c \in Int
  PROVE  Min({a, c}) = IF a <= c THEN a ELSE c
<1> DEFINE least == IF a <= c THEN a ELSE c
<1>1. least \in {a, c} /\ \A y \in {a, c} : least <= y
  OBVIOUS
<1>2. \A x \in {a, c} : (\A y \in {a, c} : x <= y) => x = least
  OBVIOUS
<1>3. QED
  BY <1>1, <1>2 DEF Min

\* A read that succeeds copies at least one character, and only characters the
\* block is known to hold.
Copied(f, block, byte, size, n) ==
  /\ byte + n <= size
  /\ f_pos' = [f_pos EXCEPT ![f] = @ + n]
  /\ reply' = Characters(SubSeq(heap[block], byte + 1, byte + n))
  /\ SubSeq(heap[block], byte + 1, byte + n) \in Seq(Bytes)

LEMMA CopyOutEffect ==
  ASSUME NEW f \in Files, NEW block, NEW size \in Nat, NEW byte \in 0 .. size - 1,
         NEW count \in Nat \ {0},
         block # NULL => heap[block] \in Seq(Bytes) /\ Len(heap[block]) = size,
         CopyOut(f, block, byte, size, count)
  PROVE  \/ /\ block # NULL
            /\ UNCHANGED wedged
            /\ \E n \in 1 .. count : Copied(f, block, byte, size, n)
         \/ /\ reply' = Error(EFAULT)
            /\ UNCHANGED <<f_pos, wedged>>
         \/ /\ block = NULL
            /\ UNCHANGED <<f_pos, reply>>
<1> DEFINE n == Min({count, size - byte})
           data == SubSeq(heap[block], byte + 1, byte + n)
<1>1. n = IF count <= size - byte THEN count ELSE size - byte
  BY MinOfTwo
<1> HIDE DEF n
<1>2. n \in 1 .. count /\ byte + n <= size
  BY <1>1
<1>3. ASSUME block # NULL
      PROVE  data \in Seq(Bytes)
  <2>1. \A i \in byte + 1 .. byte + n : heap[block][i] \in Bytes
    BY <1>2, <1>3
  <2>2. QED
    BY <1>2, <2>1, SubSeqProperties
<1>4. \/ /\ block # NULL /\ UNCHANGED wedged
         /\ f_pos' = [f_pos EXCEPT ![f] = @ + n]
         /\ reply' = Characters(data)
      \/ reply' = Error(EFAULT) /\ UNCHANGED <<f_pos, wedged>>
      \/ block = NULL /\ UNCHANGED <<f_pos, reply>>
  BY DEF CopyOut, n
<1>5. (block # NULL /\ f_pos' = [f_pos EXCEPT ![f] = @ + n]
       /\ reply' = Characters(data)) => Copied(f, block, byte, size, n)
  BY <1>2, <1>3 DEF Copied
<1>6. QED
  BY <1>2, <1>4, <1>5

-----------------------------------------------------------------------------
(* The type of the files' positions and of the replies, which rests on what *)
(* the look-ups answer: a wrong one would take f_pos below zero or copy what *)
(* is no text.                                                               *)

Replies == [ret : Int] \cup [ret : Nat, data : Seq(Bytes)]

FilesTyped ==
  /\ wedged \in BOOLEAN
  /\ open \subseteq Files
  /\ f_pos \in [Files -> Nat]
  /\ reply \in Replies

LEMMA ReplyType ==
  ASSUME NEW n \in Int
  PROVE  Ok(n) \in Replies /\ Error(n) \in Replies
BY DEF Replies, Ok, Error

LEMMA CharactersType ==
  ASSUME NEW data \in Seq(Bytes)
  PROVE  Characters(data) \in Replies
BY DEF Replies, Characters

LEMMA ErrorNumbers ==
  {ENOMEM, EFAULT, EINVAL, ENOTTY, ERESTARTSYS} \subseteq Int
BY DEF ENOMEM, EFAULT, EINVAL, ENOTTY, ERESTARTSYS

\* Writes move f_pos forward, by what they have taken.
LEMMA PositionMoved ==
  ASSUME FilesTyped, NEW f \in Files, NEW n \in Nat,
         f_pos' = [f_pos EXCEPT ![f] = @ + n]
  PROVE  f_pos' \in [Files -> Nat]
BY DEF FilesTyped

LEMMA ReadTyped ==
  ASSUME OwnershipInv, FilesTyped, loaded, NEW f \in Files,
         NEW count \in 1 .. MaxRequest, Read(f, count)
  PROVE  FilesTyped'
<1> DEFINE found  == FindEntryOffsetForFpos(buffer, f_pos[f])
           entry  == buffer.entry[found.offset]
           beyond == f_pos[f] - BufferSize(buffer)
<1>1. f_pos[f] \in Nat /\ count \in Nat \ {0} /\ UNCHANGED open
  BY BoundsAssumption DEF FilesTyped, Read
<1>2. ASSUME NEW block, NEW size \in Nat, NEW byte \in 0 .. size - 1,
             block # NULL =>
               heap[block] \in Seq(Bytes) /\ Len(heap[block]) = size,
             CopyOut(f, block, byte, size, count)
      PROVE  FilesTyped'
  <2>1. wedged' \in BOOLEAN
    BY <1>2 DEF CopyOut, FilesTyped
  <2>2. CASE \E n \in 1 .. count :
               /\ f_pos' = [f_pos EXCEPT ![f] = @ + n]
               /\ reply' = Characters(SubSeq(heap[block], byte + 1, byte + n))
               /\ SubSeq(heap[block], byte + 1, byte + n) \in Seq(Bytes)
    <3>1. PICK n \in 1 .. count :
                 /\ f_pos' = [f_pos EXCEPT ![f] = @ + n]
                 /\ reply' =
                      Characters(SubSeq(heap[block], byte + 1, byte + n))
                 /\ SubSeq(heap[block], byte + 1, byte + n) \in Seq(Bytes)
      BY <2>2
    <3>2. f_pos' \in [Files -> Nat]
      <4>1. n \in Nat
        BY <1>1
      <4>2. QED
        BY <3>1, <4>1, PositionMoved
    <3>3. reply' \in Replies
      BY <3>1, CharactersType
    <3>4. QED
      BY <1>1, <2>1, <3>2, <3>3 DEF FilesTyped, Replies
  <2>3. CASE UNCHANGED f_pos /\ (reply' = Error(EFAULT) \/ UNCHANGED reply)
    <3>1. Error(EFAULT) \in Replies
      BY ErrorNumbers, ReplyType
    <3>2. QED
      BY <1>1, <2>1, <2>3, <3>1 DEF FilesTyped
  <2>4. QED
    BY <1>1, <1>2, <2>2, <2>3, CopyOutEffect DEF Copied
<1>3. Sound(DeviceLog, heap, unterminated_buffptr, unterminated_size)
  BY DEF OwnershipInv, DeviceLog
<1>4. CASE found.found
  <2>1. PICK k \in 1 .. Len(DeviceLog) :
               /\ entry = DeviceLog[k]
               /\ found.byte \in 0 .. DeviceLog[k].size - 1
    BY <1>1, <1>4, ReadPlace
  <2>2. /\ heap[entry.buffptr] \in Seq(Bytes)
        /\ Len(heap[entry.buffptr]) = entry.size
        /\ entry.size \in Nat
    BY <1>3, <2>1, DeviceLogIsSeq DEF Sound, HoldsCommand
  <2>3. CopyOut(f, entry.buffptr, found.byte, entry.size, count)
    BY <1>4 DEF Read
  <2> HIDE DEF found, entry
  <2>4. QED
    BY <1>2, <2>1, <2>2, <2>3
<1>5. CASE ~found.found /\ beyond < unterminated_size
  <2>1. beyond \in 0 .. unterminated_size - 1 /\ unterminated_size \in Nat
    BY <1>1, <1>5, ReadPlace DEF OwnershipInv
  <2>2. unterminated_buffptr # NULL =>
          /\ heap[unterminated_buffptr] \in Seq(Bytes)
          /\ Len(heap[unterminated_buffptr]) = unterminated_size
    BY <1>3 DEF Sound, HoldsPart
  <2>3. CopyOut(f, unterminated_buffptr, beyond, unterminated_size, count)
    BY <1>5, <2>1 DEF Read
  <2> HIDE DEF beyond
  <2>4. QED
    BY <1>2, <2>1, <2>2, <2>3
<1>6. CASE reply' = Characters(<<>>) /\ UNCHANGED <<f_pos, wedged>>
  <2>1. Characters(<<>>) \in Replies
    <3>1. <<>> \in Seq(Bytes)
      OBVIOUS
    <3>2. QED
      BY <3>1, CharactersType
  <2>2. QED
    BY <1>1, <1>6, <2>1 DEF FilesTyped
<1>7. QED
  BY <1>4, <1>5, <1>6 DEF Read

LEMMA SetPositionTyped ==
  ASSUME FilesTyped, NEW f \in Files, NEW target \in Int, NEW size \in Nat,
         SetPosition(f, target, size), UNCHANGED <<wedged, open>>
  PROVE  FilesTyped'
<1>1. CASE target \in 0 .. size
  BY <1>1, ReplyType DEF SetPosition, FilesTyped
<1>2. CASE target \notin 0 .. size
  BY <1>2, ReplyType, ErrorNumbers DEF SetPosition, FilesTyped
<1>3. QED
  BY <1>1, <1>2

\* What AESDCHAR_IOCSEEKTO asks for is a position inside the text, or refused.
LEMMA SeekTarget ==
  ASSUME OwnershipInv, NEW k \in Nat, NEW j \in Nat
  PROVE  LET pos == FindFposForEntryOffset(buffer, k, j)
         IN  IF k < Len(DeviceLog) /\ j < DeviceLog[k + 1].size
             THEN /\ pos = SizeOfFirst(buffer, k) + j
                  /\ pos \in 0 .. BufferSize(buffer)
             ELSE pos = -1
<1> DEFINE n == EntryArraySize(buffer)
<1>1. /\ Measured(buffer, Entries)
      /\ Len(DeviceLog) = n /\ n \in Nat
      /\ BufferSize(buffer) = SizeOfFirst(buffer, n)
  BY RingIsMeasured, RingSizes, CapacityAssumption DEF Total
<1>2. FindFposForEntryOffset(buffer, k, j) =
        IF k < n /\ j < DeviceLog[k + 1].size
        THEN SizeOfFirst(buffer, k) + j ELSE -1
  BY <1>1, FposIsPosition DEF DeviceLog
<1>3. ASSUME k < n, j < DeviceLog[k + 1].size
      PROVE  SizeOfFirst(buffer, k) + j \in 0 .. BufferSize(buffer)
  <2>1. /\ k \in 0 .. n - 1 /\ k + 1 \in 0 .. n /\ k \in 0 .. n
        /\ n \in 0 .. n
    BY <1>1, <1>3
  <2>2. /\ SizeOfFirst(buffer, k + 1) =
             SizeOfFirst(buffer, k) + Slot(buffer, k).size
        /\ SizeOfFirst(buffer, k) \in Nat /\ SizeOfFirst(buffer, n) \in Nat
        /\ Slot(buffer, k).size \in Nat /\ DeviceLog[k + 1] = Slot(buffer, k)
    BY <1>1, <2>1, SizeOfFirstStep, SlotIsEntry DEF DeviceLog
  <2>3. SizeOfFirst(buffer, k + 1) <= SizeOfFirst(buffer, n)
    BY <1>1, <2>1, SizeGrows
  <2>4. QED
    BY <1>1, <1>3, <2>2, <2>3
<1>4. QED
  BY <1>1, <1>2, <1>3

LEMMA SeekToTyped ==
  ASSUME OwnershipInv, FilesTyped, NEW f \in Files, NEW k \in SeekCommands,
         NEW j \in 0 .. MaxRequest, SeekTo(f, k, j)
  PROVE  FilesTyped'
<1> DEFINE pos == FindFposForEntryOffset(buffer, k % 256, j)
<1>1. /\ k % 256 \in Nat /\ j \in Nat
      /\ BufferSize(buffer) \in Nat
      /\ UNCHANGED <<wedged, open>>
  <2>1. k \in Nat
    BY BoundsAssumption
  <2>2. k % 256 \in Nat
    BY <2>1
  <2>3. QED
    BY <2>2, RingSizes, BoundsAssumption DEF SeekTo
<1>2. CASE pos >= 0 /\ SetPosition(f, pos, BufferSize(buffer))
  <2>1. pos \in Int
    BY <1>1, SeekTarget
  <2> HIDE DEF pos
  <2>2. QED
    BY <1>1, <1>2, <2>1, SetPositionTyped
<1>3. CASE reply' = Error(EINVAL) /\ UNCHANGED f_pos
  BY <1>1, <1>3, ReplyType, ErrorNumbers DEF FilesTyped
<1>4. QED
  BY <1>2, <1>3 DEF SeekTo

LEMMA LlseekTyped ==
  ASSUME OwnershipInv, FilesTyped, NEW f \in Files, NEW offset \in SeekOffsets,
         NEW whence, Llseek(f, offset, whence)
  PROVE  FilesTyped'
<1> DEFINE size == BufferSize(buffer)
<1>1. /\ size \in Nat /\ offset \in Int /\ f_pos[f] \in Nat
      /\ UNCHANGED <<wedged, open>>
  BY RingSizes, BoundsAssumption DEF Llseek, FilesTyped
<1>2. \/ \E target \in Int : SetPosition(f, target, size)
      \/ reply' = Ok(f_pos[f]) /\ UNCHANGED f_pos
  <2>1. offset \in Int /\ size + offset \in Int /\ f_pos[f] + offset \in Int
    BY <1>1
  <2>2. QED
    BY <2>1 DEF Llseek
<1> HIDE DEF size
<1>3. CASE \E target \in Int : SetPosition(f, target, size)
  BY <1>1, <1>3, SetPositionTyped
<1>4. CASE reply' = Ok(f_pos[f]) /\ UNCHANGED f_pos
  BY <1>1, <1>4, ReplyType DEF FilesTyped
<1>5. QED
  BY <1>2, <1>3, <1>4

LEMMA FilesTypedStep ==
  OwnershipInv /\ FilesTyped /\ [Next]_vars => FilesTyped'
<1> SUFFICES ASSUME OwnershipInv, FilesTyped, [Next]_vars
             PROVE  FilesTyped'
  OBVIOUS
<1>0. /\ \A f \in Files : Locks(f) => loaded
      /\ \A n \in Int : Ok(n) \in Replies /\ Error(n) \in Replies
      /\ {ENOMEM, EFAULT, EINVAL, ENOTTY, ERESTARTSYS} \subseteq Int
  BY ReplyType, ErrorNumbers DEF OwnershipInv, Locks
<1> USE DEF FilesTyped
<1>1. CASE Load \/ Cleanup \/ UNCHANGED vars
  BY <1>1 DEF Load, Cleanup, vars
<1>2. ASSUME NEW f \in Files, ReadsOnly(f)
      PROVE  FilesTyped'
  <2>1. CASE Open(f) \/ Release(f)
    <3>1. /\ open' \subseteq Files /\ UNCHANGED wedged
          /\ f_pos' = [f_pos EXCEPT ![f] = 0] /\ reply' = Ok(0)
      BY <2>1 DEF Open, Release
    <3>2. QED
      BY <1>0, <3>1
  <2>2. CASE Interrupted(f) \/ IoctlRefused(f) \/ WriteNothing(f)
    <3>1. /\ UNCHANGED <<wedged, open, f_pos>>
          /\ \E code \in {ENOMEM, EFAULT, ENOTTY, ERESTARTSYS} :
               reply' = Error(code)
      BY <2>2 DEF Interrupted, IoctlRefused, WriteNothing
    <3>2. QED
      BY <1>0, <3>1
  <2>3. CASE \E count \in 1 .. MaxRequest : Read(f, count)
    <3>1. loaded
      BY <1>0, <2>3 DEF Read
    <3>2. QED
      BY <2>3, <3>1, ReadTyped
  <2>4. CASE \E offset \in SeekOffsets,
                whence \in {"SEEK_SET", "SEEK_CUR", "SEEK_END"} :
               Llseek(f, offset, whence)
    BY <2>4, LlseekTyped
  <2>5. CASE \E k \in SeekCommands, j \in 0 .. MaxRequest : SeekTo(f, k, j)
    BY <2>5, SeekToTyped
  <2>6. QED
    BY <1>2, <2>1, <2>2, <2>3, <2>4, <2>5 DEF ReadsOnly
<1>3. ASSUME NEW f \in Files, WriteNoMemory(f) \/ WriteFault(f)
      PROVE  FilesTyped'
  BY <1>0, <1>3 DEF WriteNoMemory, WriteFault
<1>4. ASSUME NEW f \in Files, NEW n \in Nat,
             f_pos' = [f_pos EXCEPT ![f] = @ + n], reply' = Ok(n),
             UNCHANGED <<wedged, open>>
      PROVE  FilesTyped'
  BY <1>0, <1>4, PositionMoved
<1>5. ASSUME NEW f \in Files, NEW count \in 1 .. MaxRequest,
             WriteSome(f, count)
      PROVE  FilesTyped'
  <2>1. count \in Nat
    BY BoundsAssumption
  <2>2. QED
    BY <1>4, <1>5, <2>1 DEF WriteSome
<1>6. ASSUME NEW f \in Files, NEW count \in 1 .. MaxRequest,
             NEW terminator_position \in 0 .. count - 1,
             WriteCommand(f, count, terminator_position)
      PROVE  FilesTyped'
  <2>1. terminator_position + 1 \in Nat
    BY BoundsAssumption
  <2>2. QED
    BY <1>4, <1>6, <2>1 DEF WriteCommand
<1>7. QED
  BY <1>1, <1>2, <1>3, <1>5, <1>6, StepCases

THEOREM OwnershipAndTypes == Spec => [](OwnershipInv /\ FilesTyped)
<1>1. Init => OwnershipInv /\ FilesTyped
  <2>1. Init => FilesTyped
    <3>1. Ok(0) \in Replies
      BY 0 \in Int, ReplyType
    <3>2. Init => /\ wedged \in BOOLEAN /\ open \subseteq Files
                  /\ f_pos = [f \in Files |-> 0] /\ reply = Ok(0)
      BY DEF Init
    <3>3. [f \in Files |-> 0] \in [Files -> Nat]
      OBVIOUS
    <3>4. QED
      BY <3>1, <3>2, <3>3, Zenon DEF FilesTyped
  <2>2. QED
    BY <2>1, OwnershipInit
<1>2. OwnershipInv /\ FilesTyped /\ [Next]_vars
        => (OwnershipInv /\ FilesTyped)'
  BY OwnershipStep, FilesTypedStep
<1>3. QED
  BY <1>1, <1>2, PTL DEF Spec

\* The driver's variables keep their types: whatever is read, sought and
\* written, f_pos never goes below zero, and what a read copies out is
\* characters of an allocated block.
THEOREM DriverTypeOK == Spec => []TypeOK
<1>1. OwnershipInv /\ FilesTyped => TypeOK
  BY DEF OwnershipInv, FilesTyped, Replies, TypeOK
<1>2. QED
  BY <1>1, OwnershipAndTypes, PTL

\* AESDCHAR_IOCSEEKTO goes to the byte it was asked for, and nowhere when there
\* is none, for commands that fit the uint8_t they are passed as.
THEOREM AlwaysSeeksToCommand ==
  ASSUME SeekCommands \subseteq 0 .. 255
  PROVE  Spec => SeekToCommand
<1> DEFINE Sought(f, k, j) ==
             SeekTo(f, k, j) =>
               IF k < Len(DeviceLog) /\ j < DeviceLog[k + 1].size
               THEN f_pos'[f] = SizeOfFirst(buffer, k) + j
               ELSE UNCHANGED f_pos
<1>1. ASSUME OwnershipInv, FilesTyped,
             NEW f \in Files, NEW k \in SeekCommands, NEW j \in 0 .. MaxRequest
      PROVE  Sought(f, k, j)
  <2> SUFFICES ASSUME SeekTo(f, k, j)
               PROVE  IF k < Len(DeviceLog) /\ j < DeviceLog[k + 1].size
                      THEN f_pos'[f] = SizeOfFirst(buffer, k) + j
                      ELSE UNCHANGED f_pos
    OBVIOUS
  <2> DEFINE pos == FindFposForEntryOffset(buffer, k, j)
  <2>1. k \in Nat /\ k % 256 = k /\ j \in Nat
    BY BoundsAssumption
  <2>2. IF k < Len(DeviceLog) /\ j < DeviceLog[k + 1].size
        THEN /\ pos = SizeOfFirst(buffer, k) + j
             /\ pos \in 0 .. BufferSize(buffer)
        ELSE pos = -1
    BY <1>1, <2>1, SeekTarget
  <2>3. /\ BufferSize(buffer) \in Nat
        /\ f_pos \in [Files -> Nat]
        /\ IF pos >= 0 THEN SetPosition(f, pos, BufferSize(buffer))
                       ELSE UNCHANGED f_pos
    <3>1. BufferSize(buffer) \in Nat
      BY <1>1, RingSizes
    <3>2. QED
      BY <1>1, <2>1, <3>1 DEF SeekTo, FilesTyped
  <2> HIDE DEF pos
  <2>4. QED
    BY <2>2, <2>3 DEF SetPosition
<1>2. OwnershipInv /\ FilesTyped =>
        [\A f \in Files, k \in SeekCommands, j \in 0 .. MaxRequest :
           Sought(f, k, j)]_vars
  BY <1>1
<1>3. QED
  BY <1>2, OwnershipAndTypes, PTL DEF SeekToCommand

-----------------------------------------------------------------------------
(* The device of AesdDevice: the commands as one text. *)

\* What the recursive function of FlattenSeq computes.
IsFlatten(flat, seqs) ==
  flat = [i \in 1 .. Len(seqs) |-> IF i = 1 THEN seqs[i]
                                            ELSE flat[i - 1] \o seqs[i]]

LEMMA FlattenExists ==
  ASSUME NEW S, NEW seqs \in Seq(Seq(S))
  PROVE  \E flat : IsFlatten(flat, seqs)
<1> DEFINE n == Len(seqs)
           I == 1 .. n
           D == 2 .. n
           M == [i \in I |-> i]
           next == [i \in D |-> i - 1]
           base == [i \in I |-> seqs[i]]
           comb == [p \in D \X Seq(S) |-> p[2] \o seqs[p[1]]]
<1>1. n \in Nat /\ \A i \in I : seqs[i] \in Seq(S)
  OBVIOUS
<1>2. M \in [I -> 0 .. n]
  BY <1>1
<1>3. /\ next \in [D -> I] /\ D \in SUBSET I
      /\ \A i \in D : M[next[i]] < M[i]
  BY <1>1
<1>4. base \in [I -> Seq(S)] /\ <<>> \in Seq(S)
  BY <1>1
<1>5. comb \in [D \X Seq(S) -> Seq(S)]
  <2>1. ASSUME NEW p \in D \X Seq(S)
        PROVE  p[2] \o seqs[p[1]] \in Seq(S)
    <3>1. p[2] \in Seq(S) /\ seqs[p[1]] \in Seq(S)
      BY <1>1, <1>3
    <3>2. QED
      BY <3>1, ConcatProperties
  <2>2. QED
    BY <2>1
<1>6. \E flat \in [I -> Seq(S)] : IsRecursion(flat, I, D, next, base, comb)
  <2> HIDE DEF n, I, D, M, next, base, comb
  <2>1. QED
    BY <1>1, <1>2, <1>3, <1>4, <1>5, MeasuredRecursion
<1>7. ASSUME NEW flat \in [I -> Seq(S)],
             IsRecursion(flat, I, D, next, base, comb)
      PROVE  IsFlatten(flat, seqs)
  <2>1. \A i \in I :
          flat[i] = IF i \in D THEN comb[<<i, flat[next[i]]>>] ELSE base[i]
    BY <1>7 DEF IsRecursion
  <2>2. \A i \in I : flat[i] = IF i = 1 THEN seqs[i]
                                        ELSE flat[i - 1] \o seqs[i]
    <3>1. ASSUME NEW i \in D
          PROVE  comb[<<i, flat[next[i]]>>] = flat[i - 1] \o seqs[i]
      <4>0. next[i] = i - 1 /\ i - 1 \in I
        BY <1>1
      <4>1. next[i] = i - 1 /\ flat[i - 1] \in Seq(S)
        BY <4>0
      <4>2. <<i, flat[i - 1]>> \in D \X Seq(S)
        BY <4>1
      <4>3. QED
        BY <4>1, <4>2
    <3>2. \A i \in I : i \in D <=> i # 1
      BY <1>1
    <3>3. \A i \in I : base[i] = seqs[i]
      OBVIOUS
    <3> HIDE DEF D, base, comb, next
    <3>4. QED
      BY <2>1, <3>1, <3>2, <3>3
  <2>3. QED
    BY <2>2 DEF IsFlatten
<1>8. QED
  BY <1>6, <1>7

\* L[k] is the length of the first k sequences together.
AreLengths(L, seqs) ==
  /\ L[0] = 0
  /\ \A k \in 1 .. Len(seqs) : L[k] = L[k - 1] + Len(seqs[k])

\* The text holds the sequences one behind the other.
Concatenates(text, seqs, L, S) ==
  /\ text \in Seq(S) /\ Len(text) = L[Len(seqs)]
  /\ \A k \in 1 .. Len(seqs) : \A c \in 1 .. Len(seqs[k]) :
       text[L[k - 1] + c] = seqs[k][c]

\* So does the text FlattenSeq makes.
LEMMA FlattenedText ==
  ASSUME NEW S, NEW seqs \in Seq(Seq(S)), NEW L, AreLengths(L, seqs)
  PROVE  Concatenates(FlattenSeq(seqs), seqs, L, S)
<1> DEFINE n == Len(seqs)
           flat == CHOOSE flat : IsFlatten(flat, seqs)
<1>0. /\ L[0] = 0
      /\ \A k \in 1 .. n : L[k] = L[k - 1] + Len(seqs[k])
  BY DEF AreLengths
<1>1. n \in Nat /\ \A k \in 1 .. n : seqs[k] \in Seq(S) /\ Len(seqs[k]) \in Nat
  OBVIOUS
<1>2. CASE n = 0
  <2>1. seqs = <<>>
    BY <1>2
  <2>2. FlattenSeq(seqs) = <<>>
    BY <1>2, <2>1 DEF FlattenSeq
  <2>3. QED
    BY <1>0, <1>2, <2>2 DEF Concatenates
<1>3. CASE n # 0
  <2>1. FlattenSeq(seqs) = flat[n]
    BY <1>3 DEF FlattenSeq, IsFlatten
  <2>2. IsFlatten(flat, seqs)
    BY FlattenExists
  <2> HIDE DEF flat
  <2>3. \A i \in 1 .. n : flat[i] = IF i = 1 THEN seqs[i]
                                    ELSE flat[i - 1] \o seqs[i]
    BY <2>2 DEF IsFlatten
  <2> DEFINE Holds(k) ==
               /\ flat[k] \in Seq(S) /\ Len(flat[k]) = L[k] /\ L[k] \in Nat
               /\ \A j \in 1 .. k : /\ L[j] \in Nat /\ L[j] <= L[k]
                                    /\ L[j - 1] \in Nat
                                    /\ L[j] = L[j - 1] + Len(seqs[j])
               /\ \A j \in 1 .. k : \A c \in 1 .. Len(seqs[j]) :
                    flat[k][L[j - 1] + c] = seqs[j][c]
             T == {m \in Nat : m + 1 <= n => Holds(m + 1)}
  <2>4. Holds(1)
    <3>1. flat[1] = seqs[1] /\ L[1] = L[1 - 1] + Len(seqs[1])
      BY <1>0, <1>1, <1>3, <2>3
    <3>2. seqs[1] \in Seq(S) /\ Len(seqs[1]) \in Nat
      BY <1>1, <1>3
    <3>3. L[1 - 1] = 0 /\ L[1] = Len(seqs[1])
      BY <1>0, <3>1, <3>2
    <3>4. \A j \in 1 .. 1 : j = 1
      OBVIOUS
    <3>5. QED
      BY <3>1, <3>2, <3>3, <3>4
  <2>5. ASSUME NEW k \in 1 .. n, Holds(k), k + 1 <= n
        PROVE  Holds(k + 1)
    <3> HIDE DEF Holds
    <3> DEFINE old == flat[k]
               more == seqs[k + 1]
    <3>1. /\ k + 1 \in 1 .. n /\ k + 1 # 1 /\ (k + 1) - 1 = k
          /\ more \in Seq(S) /\ Len(more) \in Nat
      <4>1. k + 1 \in 1 .. n /\ k + 1 # 1 /\ (k + 1) - 1 = k
        BY <1>1, <2>5
      <4>2. QED
        BY <1>1, <4>1
    <3>2. flat[k + 1] = old \o more
      BY <2>3, <3>1
    <3>3. L[k + 1] = L[k] + Len(more)
      BY <1>0, <3>1
    <3>4. old \in Seq(S) /\ Len(old) = L[k] /\ L[k] \in Nat
      BY <2>5 DEF Holds
    <3>5. \A j \in 1 .. k : /\ L[j] \in Nat /\ L[j] <= L[k] /\ L[j - 1] \in Nat
                            /\ L[j] = L[j - 1] + Len(seqs[j])
                            /\ \A c \in 1 .. Len(seqs[j]) :
                                 old[L[j - 1] + c] = seqs[j][c]
      BY <2>5 DEF Holds
    <3> HIDE DEF old, more
    <3>0. /\ old \o more \in Seq(S)
          /\ Len(old \o more) = Len(old) + Len(more)
          /\ \A i \in 1 .. Len(old) + Len(more) :
               (old \o more)[i] = IF i <= Len(old) THEN old[i]
                                  ELSE more[i - Len(old)]
      <4>1. old \in Seq(S) /\ more \in Seq(S)
        BY <3>1, <3>4
      <4>2. QED
        BY <4>1, ConcatProperties
    <3>6. /\ flat[k + 1] \in Seq(S)
          /\ Len(flat[k + 1]) = Len(old) + Len(more)
          /\ \A i \in 1 .. Len(old) + Len(more) :
               flat[k + 1][i] = IF i <= Len(old) THEN old[i]
                                ELSE more[i - Len(old)]
      BY <3>0, <3>2
    <3>7. L[k + 1] \in Nat /\ Len(flat[k + 1]) = L[k + 1] /\ L[k] <= L[k + 1]
      BY <3>1, <3>3, <3>4, <3>6
    <3>8. ASSUME NEW j \in 1 .. k + 1
          PROVE  /\ L[j] \in Nat /\ L[j] <= L[k + 1] /\ L[j - 1] \in Nat
                 /\ L[j] = L[j - 1] + Len(seqs[j])
                 /\ \A c \in 1 .. Len(seqs[j]) :
                      flat[k + 1][L[j - 1] + c] = seqs[j][c]
      <4>1. CASE j \in 1 .. k
        <5>1. /\ L[j] \in Nat /\ L[j] <= L[k] /\ L[j - 1] \in Nat
              /\ L[j] = L[j - 1] + Len(seqs[j])
              /\ \A c \in 1 .. Len(seqs[j]) :
                   old[L[j - 1] + c] = seqs[j][c]
          BY <3>5, <4>1
        <5>2. Len(seqs[j]) \in Nat
          BY <1>1, <3>1, <4>1
        <5>3. ASSUME NEW c \in 1 .. Len(seqs[j])
              PROVE  flat[k + 1][L[j - 1] + c] = seqs[j][c]
          <6>1. L[j - 1] + c \in 1 .. Len(old) + Len(more)
                /\ L[j - 1] + c <= Len(old)
            <7>1. c \in Nat /\ 1 <= c /\ c <= Len(seqs[j])
              BY <5>2
            <7>2. L[j - 1] + c <= L[j]
              BY <5>1, <5>2, <7>1
            <7>3. L[j - 1] + c \in Nat /\ 1 <= L[j - 1] + c
              BY <5>1, <7>1
            <7>4. L[j - 1] + c <= Len(old)
              BY <3>4, <5>1, <7>2, <7>3, SMTT(30)
            <7>5. QED
              BY <3>1, <3>4, <7>3, <7>4, SMTT(30)
          <6>2. QED
            BY <3>6, <5>1, <6>1
        <5>4. QED
          BY <3>4, <3>7, <5>1, <5>3, SMTT(30)
      <4>2. CASE j = k + 1
        <5>1. L[j - 1] = L[k] /\ seqs[j] = more
          BY <3>1, <4>2 DEF more
        <5>2. ASSUME NEW c \in 1 .. Len(more)
              PROVE  flat[k + 1][L[k] + c] = more[c]
          <6>1. /\ L[k] + c \in 1 .. Len(old) + Len(more)
                /\ ~ L[k] + c <= Len(old) /\ (L[k] + c) - Len(old) = c
            BY <3>1, <3>4, SMTT(30)
          <6>2. QED
            BY <3>6, <6>1
        <5>3. QED
          BY <3>3, <3>4, <3>7, <4>2, <5>1, <5>2
      <4>3. QED
        BY <4>1, <4>2
    <3>9. QED
      BY <3>6, <3>7, <3>8 DEF Holds
  <2> HIDE DEF Holds
  <2>6. 0 \in T
    BY <2>4
  <2>7. ASSUME NEW m \in T
        PROVE  m + 1 \in T
    <3> SUFFICES ASSUME (m + 1) + 1 <= n
                 PROVE  Holds((m + 1) + 1)
      OBVIOUS
    <3>1. m + 1 \in 1 .. n /\ m + 1 <= n
      BY <1>1
    <3>2. QED
      BY <2>5, <3>1
  <2> HIDE DEF T
  <2>8. T = Nat
    BY <2>6, <2>7, SetInduction DEF T
  <2>9. n - 1 \in Nat /\ (n - 1) + 1 = n
    BY <1>1, <1>3
  <2>10. Holds(n)
    <3>1. n - 1 \in T /\ (n - 1) + 1 <= n
      BY <1>1, <2>8, <2>9
    <3>2. Holds((n - 1) + 1)
      BY <3>1, Zenon DEF T
    <3>3. QED
      BY <2>9, <3>2, Zenon
  <2>11. QED
    BY <2>1, <2>10 DEF Holds, Concatenates
<1>4. QED
  BY <1>2, <1>3

\* The entries' texts are the blocks they point to.
LEMMA EntryTexts ==
  ASSUME OwnershipInv, loaded
  PROVE  /\ DeviceCommands \in Seq(Seq(Bytes))
         /\ Len(DeviceCommands) = Len(DeviceLog)
         /\ \A k \in 1 .. Len(DeviceLog) :
              /\ DeviceCommands[k] = heap[DeviceLog[k].buffptr]
              /\ DeviceCommands[k] \in Seq(Bytes)
              /\ Len(DeviceCommands[k]) = DeviceLog[k].size
<1>1. /\ DOMAIN DeviceLog = 1 .. Len(DeviceLog) /\ Len(DeviceLog) \in Nat
      /\ Sound(DeviceLog, heap, unterminated_buffptr, unterminated_size)
  BY DeviceLogIsSeq DEF OwnershipInv, DeviceLog
<1>2. \A k \in 1 .. Len(DeviceLog) :
        /\ heap[DeviceLog[k].buffptr] \in Seq(Bytes)
        /\ Len(heap[DeviceLog[k].buffptr]) = DeviceLog[k].size
  BY <1>1 DEF Sound, HoldsCommand
<1>3. \A k \in 1 .. Len(DeviceLog) :
        EntryText(DeviceLog[k]) = heap[DeviceLog[k].buffptr]
  BY <1>2, SubSeqFull DEF EntryText
<1>4. DeviceCommands = [k \in 1 .. Len(DeviceLog) |->
                          heap[DeviceLog[k].buffptr]]
  BY <1>1, <1>3 DEF DeviceCommands
<1>5. QED
  BY <1>1, <1>2, <1>4

\* Seen as one text, the commands are as long as the ring says, and a character
\* of the k-th is where SizeOfFirst puts it.
LEMMA CommandsAsText ==
  ASSUME OwnershipInv, loaded
  PROVE  /\ Device!Commands \in Seq(Bytes)
         /\ Len(Device!Commands) = Total(buffer)
         /\ \A k \in 1 .. Len(DeviceLog) : \A c \in 1 .. DeviceLog[k].size :
              Device!Commands[SizeOfFirst(buffer, k - 1) + c] =
                heap[DeviceLog[k].buffptr][c]
<1> DEFINE n == Len(DeviceLog)
           L == [k \in 0 .. n |-> SizeOfFirst(buffer, k)]
<1>1. /\ DeviceCommands \in Seq(Seq(Bytes)) /\ Len(DeviceCommands) = n
      /\ \A k \in 1 .. n : /\ DeviceCommands[k] = heap[DeviceLog[k].buffptr]
                           /\ Len(DeviceCommands[k]) = DeviceLog[k].size
  BY EntryTexts
<1>2. /\ Measured(buffer, Entries) /\ n = EntryArraySize(buffer) /\ n \in Nat
  BY RingIsMeasured, RingSizes, CapacityAssumption
<1>3. L[0] = 0
  BY <1>2, SizeOfFirstStep
<1>4. \A k \in 1 .. n : L[k] = L[k - 1] + Len(DeviceCommands[k])
  <2> SUFFICES ASSUME NEW k \in 1 .. n
               PROVE  L[k] = L[k - 1] + Len(DeviceCommands[k])
    OBVIOUS
  <2>1. /\ k - 1 \in 0 .. EntryArraySize(buffer) - 1 /\ (k - 1) + 1 = k
        /\ k - 1 \in 0 .. n /\ k \in 0 .. n
    BY <1>2
  <2>2. /\ SizeOfFirst(buffer, (k - 1) + 1) =
             SizeOfFirst(buffer, k - 1) + Slot(buffer, k - 1).size
        /\ Log(buffer)[(k - 1) + 1] = Slot(buffer, k - 1)
    BY <1>2, <2>1, SizeOfFirstStep, SlotIsEntry
  <2>3. Len(DeviceCommands[k]) = DeviceLog[k].size
    BY <1>1
  <2>4. QED
    BY <2>1, <2>2, <2>3 DEF DeviceLog
<1> HIDE DEF L
<1>5. Concatenates(FlattenSeq(DeviceCommands), DeviceCommands, L, Bytes)
  BY <1>1, <1>3, <1>4, FlattenedText DEF AreLengths
<1>6. Device!Commands = FlattenSeq(DeviceCommands)
  BY DEF Device!Commands, Device!FlattenSeq, FlattenSeq
<1>7. \A k \in 0 .. n : L[k] = SizeOfFirst(buffer, k)
  BY DEF L
<1>8. n \in 0 .. n /\ \A k \in 1 .. n : k - 1 \in 0 .. n
  BY <1>2
<1>9. /\ Device!Commands \in Seq(Bytes) /\ Len(Device!Commands) = L[n]
      /\ \A k \in 1 .. n : \A c \in 1 .. DeviceLog[k].size :
           Device!Commands[L[k - 1] + c] = heap[DeviceLog[k].buffptr][c]
  <2> DEFINE all == FlattenSeq(DeviceCommands)
  <2>1. /\ all \in Seq(Bytes) /\ Len(all) = L[n]
        /\ \A k \in 1 .. n : \A c \in 1 .. Len(DeviceCommands[k]) :
             all[L[k - 1] + c] = DeviceCommands[k][c]
    BY <1>1, <1>5, Zenon DEF Concatenates
  <2>2. Device!Commands = all
    BY <1>6
  <2> HIDE DEF all
  <2>3. ASSUME NEW k \in 1 .. n, NEW c \in 1 .. DeviceLog[k].size
        PROVE  all[L[k - 1] + c] = heap[DeviceLog[k].buffptr][c]
    BY <1>1, <2>1
  <2>4. QED
    BY <2>1, <2>2, <2>3, Zenon
<1>10. QED
  BY <1>2, <1>7, <1>8, <1>9 DEF Total

\* No characters are counted that are not there, as long as krealloc never
\* fails.
NothingLost ==
  loaded /\ unterminated_buffptr = NULL => unterminated_size = 0

LEMMA NothingLostStep ==
  ASSUME KreallocMayFail = FALSE
  PROVE  OwnershipInv /\ NothingLost /\ [Next]_vars => NothingLost'
<1> SUFFICES ASSUME OwnershipInv, NothingLost, [Next]_vars
             PROVE  NothingLost'
  OBVIOUS
<1>0. ~loaded => open = {}
  BY DEF OwnershipInv
<1>1. CASE Load \/ Cleanup
  BY <1>1 DEF Load, Cleanup, NothingLost
<1>2. ASSUME NEW f \in Files, ReadsOnly(f)
      PROVE  NothingLost'
  BY <1>0, <1>2, ReadsOnlyKeeps DEF NothingLost, device
<1>3. ASSUME NEW f \in Files, WriteNoMemory(f)
      PROVE  NothingLost'
  BY <1>3 DEF WriteNoMemory
<1>4. ASSUME NEW f \in Files, WriteFault(f)
      PROVE  NothingLost'
  <2>1. Reallocated \in Blocks
    BY <1>0, <1>4, BlockForWrite DEF WriteFault, Locks
  <2>2. QED
    BY <1>4, <2>1, ValuesAssumption DEF WriteFault, NothingLost
<1>5. ASSUME NEW f \in Files, NEW count \in 1 .. MaxRequest,
             WriteSome(f, count)
      PROVE  NothingLost'
  <2>1. Reallocated \in Blocks
    BY <1>0, <1>5, BlockForWrite DEF WriteSome, Locks
  <2>2. QED
    BY <1>5, <2>1, ValuesAssumption DEF WriteSome, NothingLost
<1>6. ASSUME NEW f \in Files, NEW count \in 1 .. MaxRequest,
             NEW terminator_position \in 0 .. count - 1,
             WriteCommand(f, count, terminator_position)
      PROVE  NothingLost'
  BY <1>6 DEF WriteCommand, EndCommand, NothingLost
<1>7. CASE UNCHANGED vars
  BY <1>7 DEF vars, device, NothingLost
<1>8. QED
  BY <1>1, <1>2, <1>3, <1>4, <1>5, <1>6, <1>7, StepCases

\* The unfinished command of AesdDevice is what a write adds to.
LEMMA PartIsKept ==
  ASSUME OwnershipInv, loaded, NothingLost
  PROVE  /\ DevicePart = Kept /\ DevicePart \in Seq(Bytes)
         /\ Len(DevicePart) = unterminated_size
<1>1. Kept \in Seq(Bytes) /\ Len(Kept) = unterminated_size
  BY KeptIsPart
<1>2. CASE unterminated_buffptr = NULL
  <2>1. unterminated_size = 0
    BY <1>2 DEF NothingLost
  <2>2. Kept = <<>>
    BY <1>1, <2>1
  <2>3. QED
    BY <1>1, <1>2, <2>2 DEF DevicePart
<1>3. CASE unterminated_buffptr # NULL
  BY <1>1, <1>3 DEF DevicePart, Kept
<1>4. QED
  BY <1>2, <1>3

-----------------------------------------------------------------------------
(* The driver implements AesdDevice, call by call. *)

\* Two places that hold the same characters.
SameText(S, s, a, b, t, c) ==
  \A i \in a .. b : s[i] \in S /\ s[i] = t[i - a + c]

LEMMA SamePart ==
  ASSUME NEW S, NEW s, NEW t, NEW a \in Int, NEW b \in Int,
         NEW c \in Int, NEW d \in Int, b - a = d - c,
         SameText(S, s, a, b, t, c)
  PROVE  SubSeq(s, a, b) = SubSeq(t, c, d)
<1> DEFINE u == SubSeq(s, a, b)
           v == SubSeq(t, c, d)
           n == IF a <= b THEN b - a + 1 ELSE 0
<1>1. /\ u \in Seq(S) /\ Len(u) = n
      /\ \A i \in 1 .. b - a + 1 : u[i] = s[a + i - 1]
  BY SubSeqProperties DEF SameText
<1>2. ASSUME NEW i \in c .. d
      PROVE  t[i] \in S
  <2>1. i - c + a \in a .. b /\ (i - c + a) - a + c = i
    OBVIOUS
  <2>2. s[i - c + a] \in S /\ s[i - c + a] = t[(i - c + a) - a + c]
    BY <2>1 DEF SameText
  <2>3. QED
    BY <2>1, <2>2
<1>3. /\ v \in Seq(S) /\ Len(v) = IF c <= d THEN d - c + 1 ELSE 0
      /\ \A i \in 1 .. d - c + 1 : v[i] = t[c + i - 1]
  BY <1>2, SubSeqProperties
<1> HIDE DEF u, v
<1>4. \A i \in 1 .. n : u[i] = v[i]
  <2> SUFFICES ASSUME NEW i \in 1 .. n
               PROVE  u[i] = v[i]
    OBVIOUS
  <2>1. /\ a + i - 1 \in a .. b /\ (a + i - 1) - a + c = c + i - 1
        /\ i \in 1 .. b - a + 1 /\ i \in 1 .. d - c + 1
    OBVIOUS
  <2>2. s[a + i - 1] = t[(a + i - 1) - a + c]
    BY <2>1 DEF SameText
  <2>3. QED
    BY <1>1, <1>3, <2>1, <2>2
<1>5. n = IF c <= d THEN d - c + 1 ELSE 0
  OBVIOUS
<1> HIDE DEF n
<1>6. u = v
  BY <1>1, <1>3, <1>4, <1>5, SeqEqual
<1>7. QED
  BY <1>6 DEF u, v

\* Where the two places a read may find its characters in are in the text.
LEMMA TextOfDevice ==
  ASSUME OwnershipInv, loaded, NothingLost
  PROVE  /\ Device!Text \in Seq(Bytes)
         /\ Len(Device!Text) = Total(buffer) + unterminated_size
         /\ \A k \in 1 .. Len(DeviceLog) : \A c \in 1 .. DeviceLog[k].size :
              /\ SizeOfFirst(buffer, k - 1) + c <= Total(buffer)
              /\ SizeOfFirst(buffer, k - 1) \in Nat
              /\ Device!Text[SizeOfFirst(buffer, k - 1) + c] =
                   heap[DeviceLog[k].buffptr][c]
         /\ \A c \in 1 .. unterminated_size :
              Device!Text[Total(buffer) + c] = DevicePart[c]
<1> DEFINE commands == Device!Commands
           n == Len(DeviceLog)
<1>1. /\ commands \in Seq(Bytes) /\ Len(commands) = Total(buffer)
      /\ \A k \in 1 .. n : \A c \in 1 .. DeviceLog[k].size :
           commands[SizeOfFirst(buffer, k - 1) + c] =
             heap[DeviceLog[k].buffptr][c]
  BY CommandsAsText
<1>2. DevicePart \in Seq(Bytes) /\ Len(DevicePart) = unterminated_size
  BY PartIsKept
<1>3. /\ Measured(buffer, Entries) /\ n = EntryArraySize(buffer) /\ n \in Nat
      /\ Total(buffer) \in Nat /\ unterminated_size \in Nat
  BY RingIsMeasured, RingSizes, CapacityAssumption DEF OwnershipInv
<1>4. Device!Text = commands \o DevicePart
  BY DEF Device!Text
<1> HIDE DEF commands
<1>5. /\ Device!Text \in Seq(Bytes)
      /\ Len(Device!Text) = Total(buffer) + unterminated_size
      /\ \A i \in 1 .. Total(buffer) + unterminated_size :
           Device!Text[i] = IF i <= Total(buffer) THEN commands[i]
                            ELSE DevicePart[i - Total(buffer)]
  <2>1. /\ commands \o DevicePart \in Seq(Bytes)
        /\ Len(commands \o DevicePart) = Len(commands) + Len(DevicePart)
        /\ \A i \in 1 .. Len(commands) + Len(DevicePart) :
             (commands \o DevicePart)[i] =
               IF i <= Len(commands) THEN commands[i]
               ELSE DevicePart[i - Len(commands)]
    BY <1>1, <1>2, ConcatProperties
  <2>2. QED
    BY <1>1, <1>2, <1>4, <2>1
<1>6. ASSUME NEW k \in 1 .. n, NEW c \in 1 .. DeviceLog[k].size
      PROVE  /\ SizeOfFirst(buffer, k - 1) + c <= Total(buffer)
             /\ SizeOfFirst(buffer, k - 1) \in Nat
             /\ Device!Text[SizeOfFirst(buffer, k - 1) + c] =
                  heap[DeviceLog[k].buffptr][c]
  <2>1. /\ k - 1 \in 0 .. EntryArraySize(buffer) - 1 /\ (k - 1) + 1 = k
        /\ k - 1 \in 0 .. n /\ k \in 0 .. n /\ n \in 0 .. n
    BY <1>3
  <2>2. /\ SizeOfFirst(buffer, (k - 1) + 1) =
             SizeOfFirst(buffer, k - 1) + Slot(buffer, k - 1).size
        /\ Log(buffer)[(k - 1) + 1] = Slot(buffer, k - 1)
        /\ SizeOfFirst(buffer, k - 1) \in Nat
        /\ Slot(buffer, k - 1).size \in Nat
    BY <1>3, <2>1, SizeOfFirstStep, SlotIsEntry
  <2>3. SizeOfFirst(buffer, k) <= Total(buffer)
    BY <1>3, <2>1, SizeGrows DEF Total
  <2>4. c <= Slot(buffer, k - 1).size /\ c \in Nat /\ c >= 1
    BY <2>1, <2>2 DEF DeviceLog
  <2>5. SizeOfFirst(buffer, k - 1) + c <= Total(buffer)
    BY <1>3, <2>1, <2>2, <2>3, <2>4
  <2>6. SizeOfFirst(buffer, k - 1) + c
          \in 1 .. Total(buffer) + unterminated_size
    BY <1>3, <2>2, <2>4, <2>5
  <2>7. QED
    BY <1>1, <1>5, <2>2, <2>5, <2>6
<1>7. ASSUME NEW c \in 1 .. unterminated_size
      PROVE  Device!Text[Total(buffer) + c] = DevicePart[c]
  <2>1. /\ Total(buffer) + c \in 1 .. Total(buffer) + unterminated_size
        /\ ~ Total(buffer) + c <= Total(buffer)
        /\ (Total(buffer) + c) - Total(buffer) = c
    BY <1>3
  <2>2. QED
    BY <1>5, <2>1
<1>8. QED
  BY <1>5, <1>6, <1>7

\* The text has a block's characters behind its first start ones.
PlacedIn(text, start, block, size) ==
  /\ block # NULL
  /\ heap[block] \in Seq(Bytes) /\ Len(heap[block]) = size
  /\ Len(text) \in Nat /\ start + size <= Len(text)
  /\ \A i \in 1 .. size : text[start + i] = heap[block][i]

\* Characters copied out of such a block are the text's.
LEMMA CopyOutReads ==
  ASSUME NEW f \in Files, f \in open,
         UNCHANGED <<open, DeviceCommands, DevicePart>>,
         NEW count \in Nat \ {0}, NEW block, NEW size \in Nat,
         NEW byte \in 0 .. size - 1, NEW start \in Nat,
         f_pos[f] = start + byte, PlacedIn(Device!Text, start, block, size),
         CopyOut(f, block, byte, size, count)
  PROVE  Device!Read(f, count) \/ Device!Fail(f, EFAULT)
<1> DEFINE text == Device!Text
           pos  == f_pos[f]
<1>1. CASE reply' = Error(EFAULT) /\ UNCHANGED f_pos
  BY <1>1 DEF Device!Fail, Device!Error, Error
<1>2. ASSUME NEW n \in 1 .. count, Copied(f, block, byte, size, n)
      PROVE  Device!Read(f, count)
  <2> DEFINE a == byte + 1
             b == byte + n
             c == pos + 1
             d == pos + n
  <2>1. /\ n \in Nat /\ byte \in Nat /\ n >= 1 /\ byte + n <= size
        /\ pos \in Nat /\ pos = start + byte
    BY <1>2 DEF Copied
  <2> HIDE DEF text, pos
  <2>2. ASSUME NEW i \in a .. b
        PROVE  heap[block][i] \in Bytes /\ heap[block][i] = text[i - a + c]
    <3>1. i \in 1 .. size /\ start + i = i - a + c
      BY <2>1
    <3>2. heap[block][i] \in Bytes /\ text[start + i] = heap[block][i]
      BY <3>1 DEF PlacedIn, text
    <3>3. QED
      BY <3>1, <3>2
  <2>3. /\ a \in Int /\ b \in Int /\ c \in Int /\ d \in Int
        /\ b - a = d - c /\ SameText(Bytes, heap[block], a, b, text, c)
    BY <2>1, <2>2 DEF SameText
  <2> HIDE DEF a, b, c, d
  <2>4. SubSeq(heap[block], a, b) = SubSeq(text, c, d)
    BY <2>3, SamePart
  <2>5. ~ pos >= Len(text) /\ pos + n <= Len(text)
    BY <2>1 DEF PlacedIn, text
  <2>6. reply' = Device!Characters(SubSeq(text, pos + 1, pos + n))
    BY <1>2, <2>4 DEF Copied, Characters, Device!Characters, a, b, c, d
  <2>7. QED
    BY <1>2, <2>5, <2>6 DEF Device!Read, Copied, text, pos
<1>3. QED
  <2>1. block # NULL => heap[block] \in Seq(Bytes) /\ Len(heap[block]) = size
    BY DEF PlacedIn
  <2>2. block # NULL
    BY DEF PlacedIn
  <2> HIDE DEF text, pos
  <2>3. \/ /\ block # NULL
           /\ UNCHANGED wedged
           /\ \E n \in 1 .. count : Copied(f, block, byte, size, n)
        \/ /\ reply' = Error(EFAULT)
           /\ UNCHANGED <<f_pos, wedged>>
        \/ /\ block = NULL
           /\ UNCHANGED <<f_pos, reply>>
    BY <2>1, CopyOutEffect
  <2>4. QED
    BY <1>1, <1>2, <2>2, <2>3

\* aesd_read gives the text at the file's position.
LEMMA ReadImplements ==
  ASSUME OwnershipInv, FilesTyped, NothingLost, NEW f \in Files,
         NEW count \in 1 .. MaxRequest, Read(f, count),
         UNCHANGED <<DeviceCommands, DevicePart>>
  PROVE  Device!Read(f, count) \/ Device!Fail(f, EFAULT)
<1> DEFINE pos == f_pos[f]
           found  == FindEntryOffsetForFpos(buffer, pos)
           entry  == buffer.entry[found.offset]
           beyond == pos - BufferSize(buffer)
<1>1. /\ pos \in Nat /\ count \in Nat \ {0} /\ UNCHANGED open
      /\ f \in open /\ loaded
  BY BoundsAssumption DEF FilesTyped, Read, Locks, OwnershipInv
<1>2. /\ BufferSize(buffer) = Total(buffer) /\ Total(buffer) \in Nat
      /\ unterminated_size \in Nat
      /\ Len(Device!Text) = Total(buffer) + unterminated_size
      /\ Sound(DeviceLog, heap, unterminated_buffptr, unterminated_size)
  BY <1>1, RingSizes, TextOfDevice DEF OwnershipInv, DeviceLog
<1>4. CASE found.found
  <2>1. PICK k \in 1 .. Len(DeviceLog) :
               /\ entry = DeviceLog[k]
               /\ found.byte = pos - SizeOfFirst(buffer, k - 1)
               /\ found.byte \in 0 .. DeviceLog[k].size - 1
    BY <1>1, <1>4, ReadPlace
  <2>2. /\ entry.buffptr \in Blocks /\ entry.buffptr # NULL
        /\ entry.size \in Nat
        /\ heap[entry.buffptr] \in Seq(Bytes)
        /\ Len(heap[entry.buffptr]) = entry.size
    BY <1>2, <2>1, DeviceLogIsSeq, ValuesAssumption DEF Sound, HoldsCommand
  <2> DEFINE start == SizeOfFirst(buffer, k - 1)
  <2>3. \A c \in 1 .. entry.size :
          /\ start + c <= Total(buffer) /\ start \in Nat
          /\ Device!Text[start + c] = heap[entry.buffptr][c]
    BY <1>1, <2>1, TextOfDevice
  <2>4. CopyOut(f, entry.buffptr, found.byte, entry.size, count)
    BY <1>4 DEF Read
  <2> HIDE DEF found, entry, start
  <2>5. entry.size \in 1 .. entry.size
    BY <2>1, <2>2
  <2>6. start \in Nat /\ start + entry.size <= Total(buffer)
    BY <2>3, <2>5
  <2>7. pos = start + found.byte /\ found.byte \in 0 .. entry.size - 1
    BY <1>1, <2>1, <2>2, <2>6 DEF start
  <2>8. start + entry.size <= Len(Device!Text)
    BY <1>2, <2>2, <2>6
  <2>9. PlacedIn(Device!Text, start, entry.buffptr, entry.size)
    BY <1>2, <2>2, <2>3, <2>8 DEF PlacedIn
  <2>10. QED
    BY <1>1, <2>2, <2>4, <2>6, <2>7, <2>9, CopyOutReads
<1>5. CASE ~found.found /\ beyond < unterminated_size
  <2>1. beyond \in 0 .. unterminated_size - 1
    BY <1>1, <1>2, <1>5, ReadPlace
  <2>2. unterminated_buffptr # NULL
    BY <1>1, <1>2, <2>1 DEF NothingLost
  <2>3. /\ heap[unterminated_buffptr] \in Seq(Bytes)
        /\ Len(heap[unterminated_buffptr]) = unterminated_size
    BY <1>2, <2>2 DEF Sound, HoldsPart
  <2>4. CopyOut(f, unterminated_buffptr, beyond, unterminated_size, count)
    BY <1>2, <1>5, <2>1 DEF Read
  <2>5. \A c \in 1 .. unterminated_size :
          Device!Text[Total(buffer) + c] = heap[unterminated_buffptr][c]
    BY <1>1, <2>2, TextOfDevice DEF DevicePart
  <2>6. pos = Total(buffer) + beyond
    BY <1>1, <1>2
  <2>7. Total(buffer) + unterminated_size <= Len(Device!Text)
    BY <1>2
  <2>8. PlacedIn(Device!Text, Total(buffer), unterminated_buffptr,
                 unterminated_size)
    BY <1>2, <2>2, <2>3, <2>5, <2>7 DEF PlacedIn
  <2> HIDE DEF beyond
  <2>9. QED
    BY <1>1, <1>2, <2>1, <2>4, <2>6, <2>8, CopyOutReads
<1>6. CASE /\ ~found.found /\ beyond >= unterminated_size
           /\ reply' = Characters(<<>>) /\ UNCHANGED <<f_pos, wedged>>
  <2>1. pos >= Len(Device!Text)
    BY <1>1, <1>2, <1>6
  <2>2. QED
    BY <1>1, <1>6, <2>1 DEF Device!Read, Characters, Device!Characters
<1>7. QED
  BY <1>4, <1>5, <1>6 DEF Read

\* The commands stay the same texts when the ring and the blocks of its entries
\* do.
LEMMA CommandsKept ==
  ASSUME OwnershipInv, loaded, UNCHANGED <<loaded, buffer>>,
         \A k \in 1 .. Len(DeviceLog) :
           heap'[DeviceLog[k].buffptr] = heap[DeviceLog[k].buffptr]
  PROVE  UNCHANGED DeviceCommands
<1>1. DOMAIN DeviceLog = 1 .. Len(DeviceLog)
  BY DeviceLogIsSeq
<1>2. DeviceLog' = DeviceLog
  BY DEF DeviceLog
<1>3. \A k \in 1 .. Len(DeviceLog) :
        EntryText(DeviceLog[k])' = EntryText(DeviceLog[k])
  BY <1>2 DEF EntryText
<1>4. QED
  BY <1>1, <1>2, <1>3 DEF DeviceCommands

\* The calls that leave the device alone.
LEMMA DeviceKept ==
  ASSUME UNCHANGED <<loaded, device>>
  PROVE  UNCHANGED <<DeviceCommands, DevicePart>>
<1>1. DeviceLog' = DeviceLog
  BY DEF DeviceLog, device
<1>2. ASSUME NEW k
      PROVE  EntryText(DeviceLog[k])' = EntryText(DeviceLog[k])
  BY <1>1 DEF EntryText, device
<1>3. QED
  BY <1>1, <1>2 DEF DeviceCommands, DevicePart, device

\* A write without a newline adds to the unfinished command.
LEMMA SomeImplements ==
  ASSUME OwnershipInv, loaded, NothingLost, NEW f \in Files,
         NEW count \in Nat, WriteSome(f, count)
  PROVE  Device!WriteSome(f, count)
<1>1. /\ Reallocated \in Blocks /\ Reallocated # NULL
      /\ \A k \in 1 .. Len(DeviceLog) : DeviceLog[k].buffptr # Reallocated
  BY BlockForWrite, ValuesAssumption DEF WriteSome
<1>2. /\ heap' = [heap EXCEPT ![Reallocated] = Kept \o UserData(f, count, -1)]
      /\ unterminated_buffptr' = Reallocated
      /\ UNCHANGED <<loaded, buffer>>
  BY DEF WriteSome
<1>3. \A k \in 1 .. Len(DeviceLog) :
        heap'[DeviceLog[k].buffptr] = heap[DeviceLog[k].buffptr]
  BY <1>1, <1>2, DeviceLogIsSeq DEF OwnershipInv
<1>4. UNCHANGED DeviceCommands
  BY <1>2, <1>3, CommandsKept
<1>5. UserData(f, count, -1) = Device!Written(f, count)
  <2>1. \A i \in 1 .. count : i - 1 # -1
    OBVIOUS
  <2>2. QED
    BY <2>1 DEF UserData, Device!Written
<1>6. DevicePart' = Kept \o UserData(f, count, -1)
  BY <1>1, <1>2 DEF DevicePart, OwnershipInv
<1>7. DevicePart' = DevicePart \o Device!Written(f, count)
  BY <1>5, <1>6, PartIsKept
<1>8. QED
  BY <1>4, <1>7 DEF WriteSome, Locks, Device!WriteSome, Device!Ok, Ok

\* A fault leaves the unfinished command as it was.
LEMMA FaultImplements ==
  ASSUME OwnershipInv, loaded, NothingLost, NEW f \in Files, WriteFault(f)
  PROVE  Device!Fail(f, EFAULT)
<1>1. /\ Reallocated \in Blocks /\ Reallocated # NULL
      /\ \A k \in 1 .. Len(DeviceLog) : DeviceLog[k].buffptr # Reallocated
  BY BlockForWrite, ValuesAssumption DEF WriteFault
<1>2. /\ unterminated_buffptr' = IF unterminated_size = 0 THEN NULL
                                                        ELSE Reallocated
      /\ heap' = [heap EXCEPT ![Reallocated] =
                    IF unterminated_size = 0 THEN Free ELSE Kept]
      /\ UNCHANGED <<loaded, buffer>>
  BY DEF WriteFault
<1>3. \A k \in 1 .. Len(DeviceLog) :
        heap'[DeviceLog[k].buffptr] = heap[DeviceLog[k].buffptr]
  BY <1>1, <1>2, DeviceLogIsSeq DEF OwnershipInv
<1>4. UNCHANGED DeviceCommands
  BY <1>2, <1>3, CommandsKept
<1>5. /\ DevicePart = Kept /\ DevicePart \in Seq(Bytes)
      /\ Len(DevicePart) = unterminated_size
  BY PartIsKept
<1>6. CASE unterminated_size = 0
  <2>1. DevicePart = <<>>
    BY <1>5, <1>6
  <2>2. QED
    BY <1>2, <1>4, <1>6, <2>1
       DEF DevicePart, WriteFault, Locks, Device!Fail, Device!Error, Error
<1>7. CASE unterminated_size # 0
  <2>1. DevicePart' = Kept
    BY <1>1, <1>2, <1>7 DEF DevicePart, OwnershipInv
  <2>2. QED
    BY <1>4, <1>5, <2>1
       DEF WriteFault, Locks, Device!Fail, Device!Error, Error
<1>8. QED
  BY <1>6, <1>7

\* What the last Depth commands are when another one is added: in a full ring
\* the oldest is gone.
LEMMA RememberedCommands ==
  ASSUME OwnershipInv, loaded, NEW text \in Seq(Bytes), NEW commands,
         commands = [k \in 1 .. Len(Remaining) + 1 |->
                       IF k <= Len(Remaining)
                       THEN heap[Remaining[k].buffptr] ELSE text]
  PROVE  commands = Device!Remembered(Append(DeviceCommands, text))
<1> DEFINE n == Len(DeviceLog)
           longer == Append(DeviceCommands, text)
<1>1. /\ DeviceCommands \in Seq(Seq(Bytes)) /\ Len(DeviceCommands) = n
      /\ \A k \in 1 .. n : DeviceCommands[k] = heap[DeviceLog[k].buffptr]
  BY EntryTexts
<1>2. /\ n \in Nat /\ n <= Capacity /\ Capacity \in Nat /\ Capacity >= 1
      /\ DeviceLog \in Seq(Entries)
      /\ buffer.full <=> n = Capacity
  <2>1. InOrder(buffer, Entries)
    BY DEF OwnershipInv
  <2>2. ~buffer.full => buffer.in_offs \in 0 .. Capacity - 1
    BY <2>1 DEF InOrder, Offsets
  <2>3. QED
    BY <2>1, <2>2, RingSizes, DeviceLogIsSeq, EntryCount, CapacityAssumption
<1>3. /\ longer \in Seq(Seq(Bytes)) /\ Len(longer) = n + 1
      /\ \A k \in 1 .. n + 1 :
           longer[k] = IF k <= n THEN heap[DeviceLog[k].buffptr] ELSE text
  <2>1. /\ longer \in Seq(Seq(Bytes)) /\ Len(longer) = Len(DeviceCommands) + 1
        /\ \A k \in 1 .. Len(DeviceCommands) : longer[k] = DeviceCommands[k]
        /\ longer[Len(DeviceCommands) + 1] = text
    BY <1>1, AppendProperties
  <2>2. QED
    BY <1>1, <1>2, <2>1
<1> HIDE DEF longer
<1>4. CASE buffer.full
  <2>1. /\ Len(Remaining) = n - 1 /\ n >= 1
        /\ \A k \in 1 .. n - 1 : Remaining[k] = DeviceLog[k + 1]
    BY <1>2, <1>4 DEF Remaining
  <2> HIDE DEF n
  <2>2. Len(Remaining) + 1 = n
    BY <1>2, <2>1
  <2>3. /\ Tail(longer) \in Seq(Seq(Bytes)) /\ Len(Tail(longer)) = n
        /\ \A k \in 1 .. n : Tail(longer)[k] = longer[k + 1]
    BY <1>2, <1>3
  <2>4. ASSUME NEW k \in 1 .. n
        PROVE  commands[k] = longer[k + 1]
    <3>1. /\ k + 1 \in 1 .. n + 1 /\ (k <= Len(Remaining) <=> k + 1 <= n)
          /\ k <= Len(Remaining) => k \in 1 .. n - 1
      BY <1>2, <2>1
    <3>2. commands[k] = IF k <= Len(Remaining)
                        THEN heap[Remaining[k].buffptr] ELSE text
      BY <2>2
    <3>3. QED
      BY <1>3, <2>1, <3>1, <3>2
  <2>5. commands = [k \in 1 .. n |-> longer[k + 1]]
    BY <2>2, <2>4
  <2>6. /\ commands \in Seq(Seq(Bytes)) /\ Len(commands) = n
        /\ \A k \in 1 .. n : commands[k] = longer[k + 1]
    <3> DEFINE S == Seq(Bytes)
    <3>1. \A k \in 1 .. n : longer[k + 1] \in S
      BY <1>2, <1>3
    <3> HIDE DEF S
    <3>2. commands \in [1 .. n -> S]
      BY <2>5, <3>1
    <3>3. commands \in Seq(S) /\ Len(commands) = n
      BY <1>2, <3>2
    <3>4. QED
      BY <2>4, <3>3 DEF S
  <2>7. commands = Tail(longer)
    BY <2>3, <2>6, SeqEqual
  <2>8. Len(longer) > Capacity
    BY <1>2, <1>3, <1>4
  <2>9. QED
    BY <2>7, <2>8 DEF Device!Remembered, longer
<1>5. CASE ~buffer.full
  <2>1. Remaining = DeviceLog
    BY <1>5 DEF Remaining
  <2>2. ~ Len(longer) > Capacity
    BY <1>2, <1>3, <1>5
  <2>3. commands = [k \in 1 .. n + 1 |-> IF k <= n
                                         THEN heap[DeviceLog[k].buffptr]
                                         ELSE text]
    BY <2>1
  <2> HIDE DEF n
  <2>4. commands = [k \in 1 .. n + 1 |-> longer[k]]
    BY <1>3, <2>3
  <2>5. /\ commands \in Seq(Seq(Bytes)) /\ Len(commands) = n + 1
        /\ \A k \in 1 .. n + 1 : commands[k] = longer[k]
    <3> DEFINE S == Seq(Bytes)
    <3>1. \A k \in 1 .. n + 1 : longer[k] \in S
      BY <1>2, <1>3
    <3> HIDE DEF S
    <3>2. commands \in [1 .. n + 1 -> S]
      BY <2>4, <3>1
    <3>3. commands \in Seq(S) /\ Len(commands) = n + 1
      BY <1>2, <3>2
    <3>4. QED
      BY <2>4, <3>3 DEF S
  <2>6. commands = longer
    BY <1>3, <2>5, SeqEqual
  <2>7. QED
    BY <2>2, <2>6 DEF Device!Remembered, longer
<1>6. QED
  BY <1>4, <1>5

\* A write up to the newline makes one command of all that was written since
\* the last one.
LEMMA CommandImplements ==
  ASSUME OwnershipInv, loaded, NothingLost, NEW f \in Files, NEW count,
         NEW p \in Nat, WriteCommand(f, count, p)
  PROVE  Device!WriteEnd(f, p + 1)
<1> DEFINE e == [buffptr |-> Reallocated,
                 size |-> unterminated_size + (p + 1)]
           text == Kept \o UserData(f, p + 1, p)
           n == Len(Remaining)
<1>1. /\ text \in Seq(Bytes) /\ Len(text) = e.size
  BY CommandText
<1>2. /\ Reallocated \in Blocks
      /\ \A k \in 1 .. Len(DeviceLog) : DeviceLog[k].buffptr # Reallocated
  BY BlockForWrite DEF WriteCommand
<1>3. e \in Entries /\ e.buffptr = Reallocated
  BY <1>2 DEF OwnershipInv, Entries
<1>4. /\ buffer' = AddEntry(buffer, e)
      /\ unterminated_buffptr' = NULL /\ loaded' = loaded
      /\ heap' = [b \in Blocks |-> CASE b = Reallocated      -> text
                                     [] b = Replaced(buffer) -> Free
                                     [] OTHER                -> heap[b]]
  BY DEF EndCommand, WriteCommand
<1>5. UserData(f, p + 1, p) = Append(Device!Written(f, p), Terminator)
  <2> DEFINE w == Device!Written(f, p)
             u == UserData(f, p + 1, p)
  <2>1. f \in Bytes /\ Terminator \in Bytes
    BY DEF Bytes
  <2>2. w \in Seq(Bytes) /\ Len(w) = p /\ \A i \in 1 .. p : w[i] = f
    BY <2>1 DEF Device!Written
  <2>3. u \in Seq(Bytes) /\ Len(u) = p + 1
    BY UserDataText
  <2>4. \A i \in 1 .. p + 1 : u[i] = IF i - 1 = p THEN Terminator ELSE f
    BY DEF UserData
  <2> HIDE DEF w, u
  <2>5. /\ Append(w, Terminator) \in Seq(Bytes)
        /\ Len(Append(w, Terminator)) = p + 1
        /\ \A i \in 1 .. p : Append(w, Terminator)[i] = w[i]
        /\ Append(w, Terminator)[p + 1] = Terminator
    BY <2>1, <2>2, AppendProperties
  <2>6. ASSUME NEW i \in 1 .. p + 1
        PROVE  u[i] = Append(w, Terminator)[i]
    <3>1. (i = p + 1 /\ i - 1 = p) \/ (i \in 1 .. p /\ i - 1 # p)
      OBVIOUS
    <3>2. QED
      BY <2>2, <2>4, <2>5, <3>1
  <2>7. u = Append(w, Terminator)
    BY <2>3, <2>5, <2>6, SeqEqual
  <2>8. QED
    BY <2>7 DEF u, w
<1>6. text = DevicePart \o Append(Device!Written(f, (p + 1) - 1), Terminator)
  <2>1. (p + 1) - 1 = p
    OBVIOUS
  <2>2. QED
    BY <1>5, <2>1, PartIsKept
<1> HIDE DEF e, text
<1>7. DeviceLog' = Append(Remaining, e)
  BY <1>3, <1>4, LogAfterAdd DEF OwnershipInv, Remaining, DeviceLog
<1>8. /\ n \in Nat /\ Remaining \in Seq(Entries)
      /\ DOMAIN DeviceLog' = 1 .. n + 1
      /\ \A k \in 1 .. n + 1 :
           DeviceLog'[k] = IF k <= n THEN Remaining[k] ELSE e
  <2>1. Remaining \in Seq(Entries)
    BY RemainingEntries
  <2> HIDE DEF n
  <2>2. QED
    BY <1>3, <1>7, <2>1, AppendProperties DEF n
<1>9. ASSUME NEW k \in 1 .. n
      PROVE  SubSeq(heap'[Remaining[k].buffptr], 1, Remaining[k].size) =
               heap[Remaining[k].buffptr]
  <2>1. PICK i \in 1 .. Len(DeviceLog) :
          /\ Remaining[k] = DeviceLog[i]
          /\ DeviceLog[i].buffptr # Replaced(buffer)
    BY RemainingEntries
  <2>2. heap'[DeviceLog[i].buffptr] = heap[DeviceLog[i].buffptr]
    BY <1>2, <1>4, <2>1, DeviceLogIsSeq
  <2>3. /\ heap[DeviceLog[i].buffptr] \in Seq(Bytes)
        /\ Len(heap[DeviceLog[i].buffptr]) = DeviceLog[i].size
    BY DEF OwnershipInv, Sound, HoldsCommand, DeviceLog
  <2>4. QED
    BY <2>1, <2>2, <2>3, SubSeqFull
<1>10. SubSeq(heap'[e.buffptr], 1, e.size) = text
  <2>1. Reallocated # Replaced(buffer)
    BY <1>2, ReplacedIsOwned, ValuesAssumption
  <2>2. heap'[Reallocated] = text
    BY <1>2, <1>4, <2>1
  <2>3. QED
    BY <1>1, <1>3, <2>2, SubSeqFull
<1>11. DeviceCommands' = [k \in 1 .. n + 1 |->
                            IF k <= n THEN heap[Remaining[k].buffptr]
                            ELSE text]
  <2>1. DeviceCommands' = [k \in 1 .. n + 1 |-> EntryText(DeviceLog[k])']
    BY <1>4, <1>8 DEF DeviceCommands
  <2>2. ASSUME NEW k \in 1 .. n + 1
        PROVE  EntryText(DeviceLog[k])' =
                 IF k <= n THEN heap[Remaining[k].buffptr] ELSE text
    <3>1. EntryText(DeviceLog[k])' =
            SubSeq(heap'[DeviceLog'[k].buffptr], 1, DeviceLog'[k].size)
      BY DEF EntryText
    <3>2. k <= n => k \in 1 .. n
      BY <1>8
    <3>3. QED
      BY <1>8, <1>9, <1>10, <3>1, <3>2
  <2>3. QED
    BY <2>1, <2>2
<1>12. DeviceCommands' = Device!Remembered(Append(DeviceCommands, text))
  BY <1>1, <1>11, RememberedCommands
<1>13. DevicePart' = <<>>
  BY <1>4 DEF DevicePart
<1>14. QED
  BY <1>6, <1>12, <1>13
     DEF WriteCommand, Locks, Device!WriteEnd, Device!Ok, Ok

\* A loaded module has forgotten everything, as an unloaded one has.
LEMMA NoCommands ==
  ASSUME loaded, buffer = InitBuffer, unterminated_buffptr = NULL
  PROVE  DeviceCommands = <<>> /\ DevicePart = <<>>
<1>1. DeviceLog = <<>>
  BY EmptyDevice DEF DeviceLog
<1>2. QED
  BY <1>1 DEF DeviceCommands, DevicePart

LEMMA LoadImplements ==
  ASSUME Load
  PROVE  UNCHANGED Device!devVars
<1>1. DeviceCommands = <<>> /\ DevicePart = <<>>
  BY DEF Load, DeviceCommands, DevicePart
<1>2. DeviceLog' = <<>>
  BY EmptyDevice DEF Load, DeviceLog
<1>3. DeviceCommands' = <<>> /\ DevicePart' = <<>>
  BY <1>2 DEF Load, DeviceCommands, DevicePart
<1>4. QED
  BY <1>1, <1>3 DEF Load, Device!devVars

LEMMA CleanupImplements ==
  ASSUME Cleanup
  PROVE  Device!Unload
<1>1. DeviceCommands' = <<>> /\ DevicePart' = <<>>
  BY DEF Cleanup, DeviceCommands, DevicePart
<1>2. QED
  BY <1>1 DEF Cleanup, Device!Unload

\* A seek lands in the finished commands.
LEMMA SetPositionImplements ==
  ASSUME OwnershipInv, FilesTyped, loaded, NEW f \in Files, f \in open,
         UNCHANGED <<open, DeviceCommands, DevicePart>>, NEW target \in Int,
         SetPosition(f, target, BufferSize(buffer))
  PROVE  Device!Seek(f) \/ Device!Fail(f, EINVAL)
<1>1. BufferSize(buffer) = Len(Device!Commands)
  BY RingSizes, CommandsAsText
<1>2. CASE target \in 0 .. BufferSize(buffer)
  <2>1. /\ f_pos' = [f_pos EXCEPT ![f] = target]
        /\ reply' = Ok(target)
        /\ target \in 0 .. Len(Device!Commands)
    BY <1>1, <1>2 DEF SetPosition
  <2>2. f_pos'[f] = target
    BY <2>1 DEF FilesTyped
  <2>3. QED
    BY <2>1, <2>2 DEF Device!Seek, Device!Ok, Ok
<1>3. CASE target \notin 0 .. BufferSize(buffer)
  BY <1>3 DEF SetPosition, Device!Fail, Device!Error, Error
<1>4. QED
  BY <1>2, <1>3

LEMMA LlseekImplements ==
  ASSUME OwnershipInv, FilesTyped, loaded, NEW f \in Files,
         NEW offset \in SeekOffsets, NEW whence, Llseek(f, offset, whence),
         UNCHANGED <<DeviceCommands, DevicePart>>
  PROVE  Device!Seek(f) \/ Device!Fail(f, EINVAL)
<1> DEFINE size == BufferSize(buffer)
<1>1. /\ size \in Nat /\ offset \in Int /\ f_pos[f] \in Nat
      /\ f \in open /\ UNCHANGED open
  BY RingSizes, BoundsAssumption DEF Llseek, FilesTyped, Locks
<1>2. \/ \E target \in Int : SetPosition(f, target, size)
      \/ reply' = Ok(f_pos[f]) /\ UNCHANGED f_pos
  <2>1. offset \in Int /\ size + offset \in Int /\ f_pos[f] + offset \in Int
    BY <1>1
  <2>2. QED
    BY <2>1 DEF Llseek
<1>3. CASE \E target \in Int : SetPosition(f, target, size)
  <2>1. PICK target \in Int : SetPosition(f, target, size)
    BY <1>3
  <2>2. QED
    BY <1>1, <2>1, SetPositionImplements
<1>4. CASE reply' = Ok(f_pos[f]) /\ UNCHANGED f_pos
  <2>1. f_pos' = [f_pos EXCEPT ![f] = f_pos[f]] /\ f_pos'[f] = f_pos[f]
    BY <1>4 DEF FilesTyped
  <2>2. QED
    BY <1>1, <1>4, <2>1 DEF Device!Seek, Device!Ok, Ok
<1>5. QED
  BY <1>2, <1>3, <1>4

LEMMA SeekToImplements ==
  ASSUME OwnershipInv, FilesTyped, loaded, NEW f \in Files,
         NEW k \in SeekCommands, NEW j \in 0 .. MaxRequest, SeekTo(f, k, j),
         UNCHANGED <<DeviceCommands, DevicePart>>
  PROVE  Device!Seek(f) \/ Device!Fail(f, EINVAL)
<1> DEFINE pos == FindFposForEntryOffset(buffer, k % 256, j)
<1>1. k % 256 \in Nat /\ j \in Nat
  <2>1. k \in Nat
    BY BoundsAssumption
  <2>2. QED
    BY <2>1, BoundsAssumption
<1>2. f \in open /\ UNCHANGED open
  BY DEF SeekTo, Locks
<1>3. CASE pos >= 0 /\ SetPosition(f, pos, BufferSize(buffer))
  <2>1. pos \in Int
    <3>1. BufferSize(buffer) \in Nat
      BY RingSizes
    <3>2. QED
      BY <1>1, <3>1, SeekTarget
  <2> HIDE DEF pos
  <2>2. QED
    BY <1>2, <1>3, <2>1, SetPositionImplements
<1>4. CASE reply' = Error(EINVAL) /\ UNCHANGED f_pos
  BY <1>2, <1>4 DEF Device!Fail, Device!Error, Error
<1>5. QED
  BY <1>3, <1>4 DEF SeekTo

\* A file's step of AesdDevice.
DeviceOperation(f) ==
  \/ Device!Open(f) \/ Device!Close(f) \/ Device!Seek(f)
  \/ \E count \in 1 .. MaxRequest :
       Device!WriteSome(f, count) \/ Device!WriteEnd(f, count)
         \/ Device!Read(f, count)
  \/ \E code \in {ENOMEM, EFAULT, EINVAL, ENOTTY, ERESTARTSYS} :
       Device!Fail(f, code)

LEMMA ReadsOnlyImplements ==
  ASSUME OwnershipInv, FilesTyped, NothingLost, NEW f \in Files, ReadsOnly(f)
  PROVE  DeviceOperation(f)
<1>0. ~loaded => open = {}
  BY DEF OwnershipInv
<1>1. UNCHANGED <<DeviceCommands, DevicePart>>
  <2>1. UNCHANGED <<loaded, device>>
    BY <1>0, ReadsOnlyKeeps
  <2>2. QED
    BY <2>1, DeviceKept
<1>2. CASE Open(f)
  BY <1>1, <1>2 DEF Open, Device!Open, Device!Ok, Ok, DeviceOperation
<1>3. CASE Release(f)
  BY <1>1, <1>3 DEF Release, Device!Close, Device!Ok, Ok, DeviceOperation
<1>4. CASE Interrupted(f) \/ IoctlRefused(f) \/ WriteNothing(f)
  <2>1. /\ f \in open /\ UNCHANGED <<open, f_pos>>
        /\ \E code \in {ENOMEM, EFAULT, ENOTTY, ERESTARTSYS} :
             reply' = Error(code)
    BY <1>4 DEF Interrupted, IoctlRefused, WriteNothing, Locks
  <2>2. QED
    BY <1>1, <2>1 DEF Device!Fail, Device!Error, Error, DeviceOperation
<1>5. CASE \E count \in 1 .. MaxRequest : Read(f, count)
  BY <1>1, <1>5, ReadImplements DEF DeviceOperation
<1>6. CASE \E offset \in SeekOffsets,
              whence \in {"SEEK_SET", "SEEK_CUR", "SEEK_END"} :
             Llseek(f, offset, whence)
  <2>1. loaded
    BY <1>0, <1>6 DEF Llseek, Locks
  <2>2. QED
    BY <1>1, <1>6, <2>1, LlseekImplements DEF DeviceOperation
<1>7. CASE \E k \in SeekCommands, j \in 0 .. MaxRequest : SeekTo(f, k, j)
  <2>1. loaded
    BY <1>0, <1>7 DEF SeekTo, Locks
  <2>2. QED
    BY <1>1, <1>7, <2>1, SeekToImplements DEF DeviceOperation
<1>8. QED
  BY <1>2, <1>3, <1>4, <1>5, <1>6, <1>7 DEF ReadsOnly

LEMMA DeviceStep ==
  ASSUME KreallocMayFail = FALSE
  PROVE  OwnershipInv /\ FilesTyped /\ NothingLost /\ [Next]_vars
           => [Device!Next]_(Device!devVars)
<1> SUFFICES ASSUME OwnershipInv, FilesTyped, NothingLost, [Next]_vars
             PROVE  Device!Next \/ UNCHANGED Device!devVars
  OBVIOUS
<1>0. ~loaded => open = {}
  BY DEF OwnershipInv
<1>1. CASE Load
  BY <1>1, LoadImplements
<1>2. CASE Cleanup
  BY <1>2, CleanupImplements DEF Device!Next
<1>3. ASSUME NEW f \in Files, DeviceOperation(f)
      PROVE  Device!Next
  BY <1>3, Zenon DEF DeviceOperation, Device!Next
<1>4. ASSUME NEW f \in Files, ReadsOnly(f)
      PROVE  Device!Next
  BY <1>3, <1>4, ReadsOnlyImplements
<1>5. ASSUME NEW f \in Files, WriteNoMemory(f)
      PROVE  FALSE
  BY <1>5 DEF WriteNoMemory
<1>6. ASSUME NEW f \in Files, WriteFault(f)
      PROVE  Device!Next
  BY <1>0, <1>3, <1>6, FaultImplements DEF WriteFault, Locks, DeviceOperation
<1>7. ASSUME NEW f \in Files, NEW count \in 1 .. MaxRequest,
             WriteSome(f, count)
      PROVE  Device!Next
  <2>1. count \in Nat /\ loaded
    BY <1>0, <1>7, BoundsAssumption DEF WriteSome, Locks
  <2>2. QED
    BY <1>3, <1>7, <2>1, SomeImplements DEF DeviceOperation
<1>8. ASSUME NEW f \in Files, NEW count \in 1 .. MaxRequest,
             NEW terminator_position \in 0 .. count - 1,
             WriteCommand(f, count, terminator_position)
      PROVE  Device!Next
  <2>1. /\ terminator_position \in Nat /\ loaded
        /\ terminator_position + 1 \in 1 .. MaxRequest
    BY <1>0, <1>8, BoundsAssumption DEF WriteCommand, Locks
  <2>2. Device!WriteEnd(f, terminator_position + 1)
    BY <1>8, <2>1, CommandImplements
  <2>3. QED
    BY <1>3, <2>1, <2>2 DEF DeviceOperation
<1>9. CASE UNCHANGED vars
  <2>1. UNCHANGED <<loaded, device, open, f_pos, reply>>
    BY <1>9 DEF vars
  <2>2. QED
    BY <2>1, DeviceKept DEF Device!devVars
<1>10. QED
  BY <1>1, <1>2, <1>4, <1>5, <1>6, <1>7, <1>8, <1>9, StepCases

\* As long as krealloc never fails, every call of the driver is a call of the
\* device AesdDevice promises: whatever the readers and writers interleave,
\* whatever faults and is interrupted.
THEOREM DriverImplementsDevice ==
  ASSUME KreallocMayFail = FALSE
  PROVE  Spec => ImplementsDevice
<1>1. Init => Device!Init
  <2> SUFFICES ASSUME Init PROVE Device!Init
    OBVIOUS
  <2>1. DeviceCommands = <<>> /\ DevicePart = <<>>
    BY NoCommands DEF Init
  <2>2. QED
    BY <2>1 DEF Init, Device!Init, Device!Ok, Ok
<1>2. Init => NothingLost
  BY DEF Init, NothingLost
<1>3. OwnershipInv /\ NothingLost /\ [Next]_vars => NothingLost'
  BY NothingLostStep
<1>4. OwnershipInv /\ FilesTyped /\ NothingLost /\ [Next]_vars
        => [Device!Next]_(Device!devVars)
  BY DeviceStep
<1>5. QED
  BY <1>1, <1>2, <1>3, <1>4, OwnershipAndTypes, PTL
     DEF Spec, ImplementsDevice, Device!Spec

=============================================================================

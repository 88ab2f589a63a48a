------------------------ MODULE CircularBufferLemmas ------------------------
(***************************************************************************)
(* Lemmas about the functions of the circular buffer, for every capacity a *)
(* uint8_t can hold, any buffer b in order and any set E of entries: what  *)
(* aesd_circular_buffer_add_entry makes of the buffer and of its log.      *)
(***************************************************************************)
EXTENDS CircularBuffer, Sequences, InductionLemmas

\* The wrap-around of the offsets, for the sums the code computes: the sum of
\* two offsets, which passes the capacity at most once.
LEMMA Wrap ==
  ASSUME NEW a \in 0 .. 2 * Capacity - 1
  PROVE  a % Capacity = IF a < Capacity THEN a ELSE a - Capacity
BY CapacityAssumption

\* aesd_circular_buffer_next_entry_offset moves one slot on and stays in range.
LEMMA NextOffset ==
  ASSUME NEW i \in Offsets
  PROVE  /\ NextEntryOffset(i) = IF i + 1 < Capacity THEN i + 1 ELSE 0
         /\ NextEntryOffset(i) \in Offsets
<1>1. i + 1 \in 0 .. 2 * Capacity - 1
  BY CapacityAssumption DEF Offsets
<1>2. NextEntryOffset(i) = IF i + 1 < Capacity THEN i + 1 ELSE 0
  BY <1>1, Wrap, CapacityAssumption DEF NextEntryOffset, Offsets
<1>3. QED
  BY <1>2, CapacityAssumption DEF Offsets

\* Relative offset j of the ring is out_offs + j, wrapped at most once.
LEMMA AbsoluteOffset ==
  ASSUME NEW b, b.out_offs \in Offsets, NEW j \in Offsets
  PROVE  /\ AbsoluteEntryOffset(b, j) =
              IF b.out_offs + j < Capacity THEN b.out_offs + j
                                           ELSE b.out_offs + j - Capacity
         /\ AbsoluteEntryOffset(b, j) \in Offsets
<1> DEFINE a == b.out_offs + j
<1>1. a \in 0 .. 2 * Capacity - 1
  BY CapacityAssumption DEF Offsets
<1>2. AbsoluteEntryOffset(b, j) = a % Capacity
  BY DEF AbsoluteEntryOffset
<1> HIDE DEF a
<1>3. AbsoluteEntryOffset(b, j) = IF a < Capacity THEN a ELSE a - Capacity
  BY <1>1, <1>2, Wrap
<1>4. QED
  BY <1>1, <1>3, CapacityAssumption DEF a, Offsets

\* How many entries a buffer in order holds.
LEMMA EntryCount ==
  ASSUME NEW E, NEW b, InOrder(b, E)
  PROVE  /\ b.full => EntryArraySize(b) = Capacity
         /\ ~b.full => EntryArraySize(b) = b.in_offs
         /\ EntryArraySize(b) \in 0 .. Capacity
<1>1. ~b.full => EntryArraySize(b) = b.in_offs
  <2> SUFFICES ASSUME ~b.full
               PROVE  EntryArraySize(b) = b.in_offs
    OBVIOUS
  <2>1. /\ b.in_offs \in 0 .. Capacity - 1
        /\ EntryArraySize(b) = (b.in_offs - 0) % Capacity
    BY DEF InOrder, EntryArraySize, Offsets
  <2>2. b.in_offs \in 0 .. 2 * Capacity - 1
    BY <2>1, CapacityAssumption
  <2>3. QED
    BY <2>1, <2>2, Wrap, CapacityAssumption
<1>2. b.full => EntryArraySize(b) = Capacity
  BY DEF EntryArraySize
<1>3. QED
  BY <1>1, <1>2, CapacityAssumption DEF InOrder, Offsets

-----------------------------------------------------------------------------
\* memset leaves an empty ring in order.
LEMMA InitInOrder ==
  ASSUME NEW E, NoEntry \notin E
  PROVE  InOrder(InitBuffer, E)
<1>1. 0 \in Offsets
  BY CapacityAssumption DEF Offsets
<1>2. QED
  BY <1>1 DEF InitBuffer, InOrder, Offsets

\* Adding an entry keeps the ring in order, before, at and after the moment it
\* becomes full.
LEMMA AddInOrder ==
  ASSUME NEW E, NEW b, InOrder(b, E), NEW e \in E
  PROVE  InOrder(AddEntry(b, e), E)
<1> DEFINE c == AddEntry(b, e)
           next == NextEntryOffset(b.in_offs)
<1> USE DEF InOrder
<1>1. /\ b.in_offs \in Offsets /\ next \in Offsets
      /\ next = IF b.in_offs + 1 < Capacity THEN b.in_offs + 1 ELSE 0
      /\ b.entry \in [Offsets -> E \cup {NoEntry}]
  BY NextOffset
<1>2. /\ c = [entry |-> c.entry, in_offs |-> c.in_offs,
              out_offs |-> c.out_offs, full |-> c.full]
      /\ c.full \in BOOLEAN
      /\ c.entry = [b.entry EXCEPT ![b.in_offs] = e]
      /\ c.in_offs = next
      /\ c.out_offs = IF b.full THEN next ELSE b.out_offs
      /\ c.full <=> b.full \/ next = b.out_offs
  BY DEF AddEntry
<1> HIDE DEF next, c
<1>3. c \in [entry : [Offsets -> E \cup {NoEntry}],
             in_offs : Offsets, out_offs : Offsets, full : BOOLEAN]
  <2>1. c.entry \in [Offsets -> E \cup {NoEntry}]
    BY <1>1, <1>2
  <2>2. c.in_offs \in Offsets /\ c.out_offs \in Offsets
    BY <1>1, <1>2
  <2>3. QED
    BY <1>2, <2>1, <2>2
<1>4. (c.full => c.out_offs = c.in_offs) /\ (~c.full => c.out_offs = 0)
  BY <1>2
<1>5. ASSUME NEW i \in Offsets
      PROVE  c.entry[i] \in E <=> c.full \/ i < c.in_offs
  <2>1. c.full \/ i < c.in_offs <=> b.full \/ i <= b.in_offs
    <3>1. CASE b.full
      BY <1>2, <3>1
    <3>2. CASE ~b.full /\ b.in_offs + 1 < Capacity
      <4>1. next # b.out_offs /\ c.in_offs = b.in_offs + 1
        BY <1>1, <1>2, <3>2, CapacityAssumption DEF Offsets
      <4>2. ~c.full
        BY <1>2, <3>2, <4>1
      <4>3. i < c.in_offs <=> i <= b.in_offs
        BY <1>1, <4>1, CapacityAssumption DEF Offsets
      <4>4. QED
        BY <3>2, <4>2, <4>3
    <3>3. CASE ~b.full /\ b.in_offs + 1 = Capacity
      <4>1. next = b.out_offs
        BY <1>1, <3>3, CapacityAssumption DEF Offsets
      <4>2. c.full
        BY <1>2, <4>1
      <4>3. i <= b.in_offs
        BY <1>1, <3>3, CapacityAssumption DEF Offsets
      <4>4. QED
        BY <4>2, <4>3
    <3>4. QED
      BY <1>1, <3>1, <3>2, <3>3, CapacityAssumption DEF Offsets
  <2>2. CASE i = b.in_offs
    <3>1. c.entry[i] = e
      BY <1>1, <1>2, <2>2
    <3>2. i <= b.in_offs
      BY <1>1, <2>2, CapacityAssumption DEF Offsets
    <3>3. QED
      BY <2>1, <3>1, <3>2
  <2>3. CASE i # b.in_offs
    <3>1. c.entry[i] = b.entry[i]
      BY <1>1, <1>2, <2>3
    <3>2. i <= b.in_offs <=> i < b.in_offs
      BY <1>1, <2>3, CapacityAssumption DEF Offsets
    <3>3. QED
      BY <2>1, <3>1, <3>2
  <2>4. QED
    BY <2>2, <2>3
<1>6. QED
  BY <1>3, <1>4, <1>5 DEF c

-----------------------------------------------------------------------------
\* The log is a sequence of added entries: no unused slot shows through.
LEMMA LogIsSeq ==
  ASSUME NEW E, NEW b, InOrder(b, E)
  PROVE  /\ Log(b) \in Seq(E)
         /\ Len(Log(b)) = EntryArraySize(b)
<1> DEFINE n == EntryArraySize(b)
<1>1. n \in Nat /\ n <= Capacity
  BY EntryCount, CapacityAssumption
<1>2. ASSUME NEW k \in 1 .. n
      PROVE  b.entry[AbsoluteEntryOffset(b, k - 1)] \in E
  <2>1. k - 1 \in Offsets /\ b.out_offs \in Offsets
    BY <1>1, CapacityAssumption DEF InOrder, Offsets
  <2>2. AbsoluteEntryOffset(b, k - 1) =
          IF b.out_offs + (k - 1) < Capacity
          THEN b.out_offs + (k - 1)
          ELSE b.out_offs + (k - 1) - Capacity
    BY <2>1, AbsoluteOffset
  <2>3. AbsoluteEntryOffset(b, k - 1) \in Offsets
    BY <2>1, AbsoluteOffset
  <2>4. ~b.full => AbsoluteEntryOffset(b, k - 1) < b.in_offs
    <3>1. ~b.full => n = b.in_offs
      BY EntryCount
    <3>2. ~b.full => b.out_offs = 0
      BY DEF InOrder
    <3>3. QED
      BY <1>1, <2>2, <3>1, <3>2, CapacityAssumption
  <2>5. QED
    BY <2>3, <2>4 DEF InOrder
<1> HIDE DEF n
<1>3. Log(b) = [k \in 1 .. n |-> b.entry[AbsoluteEntryOffset(b, k - 1)]]
  BY DEF Log, n
<1>4. Log(b) \in Seq(E) /\ Len(Log(b)) = n
  BY <1>1, <1>2, <1>3
<1>5. QED
  BY <1>4 DEF n

\* Where relative offset j is found after an addition: where it was before, or
\* one slot further if the addition dropped the oldest entry.
LEMMA OffsetAfterAdd ==
  ASSUME NEW E, NEW b, InOrder(b, E), NEW e \in E, NEW j \in Offsets
  PROVE  /\ ~b.full => AbsoluteEntryOffset(AddEntry(b, e), j) =
                       AbsoluteEntryOffset(b, j)
         /\ b.full /\ j + 1 < Capacity =>
              /\ AbsoluteEntryOffset(AddEntry(b, e), j) =
                   AbsoluteEntryOffset(b, j + 1)
              /\ AbsoluteEntryOffset(AddEntry(b, e), j) # b.in_offs
         /\ b.full /\ j + 1 = Capacity =>
              AbsoluteEntryOffset(AddEntry(b, e), j) = b.in_offs
<1> DEFINE c == AddEntry(b, e)
<1>1. /\ b.in_offs \in Offsets /\ b.out_offs \in Offsets
      /\ b.full => b.out_offs = b.in_offs
  BY DEF InOrder
<1>2. NextEntryOffset(b.in_offs) = IF b.in_offs + 1 < Capacity
                                   THEN b.in_offs + 1 ELSE 0
  BY <1>1, NextOffset
<1>3. /\ c.out_offs \in Offsets
      /\ c.out_offs = IF b.full THEN NextEntryOffset(b.in_offs)
                                ELSE b.out_offs
  BY <1>1, NextOffset DEF AddEntry
<1> HIDE DEF c
<1>4. AbsoluteEntryOffset(c, j) = IF c.out_offs + j < Capacity
                                  THEN c.out_offs + j
                                  ELSE c.out_offs + j - Capacity
  BY <1>3, AbsoluteOffset
<1>5. CASE ~b.full
  BY <1>3, <1>5 DEF AbsoluteEntryOffset, c
<1>6. CASE b.full /\ j + 1 < Capacity
  <2>1. j + 1 \in Offsets
    BY <1>6, CapacityAssumption DEF Offsets
  <2>2. AbsoluteEntryOffset(b, j + 1) = IF b.out_offs + (j + 1) < Capacity
                                        THEN b.out_offs + (j + 1)
                                        ELSE b.out_offs + (j + 1) - Capacity
    BY <1>1, <2>1, AbsoluteOffset
  <2>3. QED
    BY <1>1, <1>2, <1>3, <1>4, <1>6, <2>2, CapacityAssumption DEF Offsets, c
<1>7. CASE b.full /\ j + 1 = Capacity
  BY <1>1, <1>2, <1>3, <1>4, <1>7, CapacityAssumption DEF Offsets, c
<1>8. QED
  BY <1>5, <1>6, <1>7, CapacityAssumption DEF Offsets

\* An addition to the ring is an addition to the log: at the end, dropping the
\* oldest entry when the ring was full.
LEMMA LogAfterAdd ==
  ASSUME NEW E, NEW b, InOrder(b, E), NEW e \in E
  PROVE  Log(AddEntry(b, e)) =
           Append(IF b.full THEN Tail(Log(b)) ELSE Log(b), e)
<1> DEFINE c == AddEntry(b, e)
           n == EntryArraySize(b)
           m == EntryArraySize(c)
           old_log == IF b.full THEN Tail(Log(b)) ELSE Log(b)
<1>1. /\ n \in 0 .. Capacity /\ m \in 0 .. Capacity
      /\ Log(b) \in Seq(E) /\ Len(Log(b)) = n
      /\ Log(c) \in Seq(E) /\ Len(Log(c)) = m
  BY EntryCount, LogIsSeq, AddInOrder
<1>2. /\ b.in_offs \in Offsets /\ b.out_offs \in Offsets
      /\ c.entry = [b.entry EXCEPT ![b.in_offs] = e]
      /\ b.entry \in [Offsets -> E \cup {NoEntry}]
  BY DEF InOrder, AddEntry
<1>3. m = IF b.full THEN Capacity ELSE n + 1
  <2>1. CASE b.full
    <3>1. c.full
      BY <2>1 DEF AddEntry
    <3>2. QED
      BY <2>1, <3>1 DEF EntryArraySize
  <2>2. CASE ~b.full
    <3>1. n = b.in_offs /\ b.out_offs = 0
      BY <2>2, EntryCount DEF InOrder
    <3>2. NextEntryOffset(b.in_offs) = IF b.in_offs + 1 < Capacity
                                       THEN b.in_offs + 1 ELSE 0
      BY <1>2, NextOffset
    <3>3. CASE b.in_offs + 1 < Capacity
      <4>1. NextEntryOffset(b.in_offs) # b.out_offs
        BY <1>2, <3>1, <3>2, <3>3, CapacityAssumption DEF Offsets
      <4>2. ~c.full /\ c.in_offs = b.in_offs + 1
        BY <2>2, <3>2, <3>3, <4>1 DEF AddEntry
      <4>3. QED
        BY <2>2, <3>1, <4>2, AddInOrder, EntryCount
    <3>4. CASE b.in_offs + 1 = Capacity
      <4>1. NextEntryOffset(b.in_offs) = b.out_offs
        BY <3>1, <3>2, <3>4, CapacityAssumption
      <4>2. c.full
        BY <4>1 DEF AddEntry
      <4>3. QED
        BY <2>2, <3>1, <3>4, <4>2 DEF EntryArraySize
    <3>5. QED
      BY <1>2, <3>3, <3>4, CapacityAssumption DEF Offsets
  <2>3. QED
    BY <2>1, <2>2
<1>4. /\ old_log \in Seq(E) /\ Len(old_log) = m - 1
      /\ \A k \in 1 .. m - 1 :
           old_log[k] = IF b.full THEN Log(b)[k + 1] ELSE Log(b)[k]
  <2>1. CASE b.full
    <3>1. n = Capacity /\ m = Capacity
      BY <1>3, <2>1, EntryCount
    <3>2. QED
      BY <1>1, <2>1, <3>1, CapacityAssumption
  <2>2. CASE ~b.full
    BY <1>1, <1>3, <2>2
  <2>3. QED
    BY <2>1, <2>2
<1>5. ASSUME NEW k \in 1 .. m
      PROVE  Log(c)[k] = Append(old_log, e)[k]
  <2>1. k - 1 \in Offsets
    BY <1>1, CapacityAssumption DEF Offsets
  <2>2. Log(c)[k] = c.entry[AbsoluteEntryOffset(c, k - 1)]
    BY DEF Log
  <2>3. CASE ~b.full
    <3>1. AbsoluteEntryOffset(c, k - 1) = AbsoluteEntryOffset(b, k - 1)
      BY <2>1, <2>3, OffsetAfterAdd
    <3>2. AbsoluteEntryOffset(b, k - 1) = k - 1 /\ n = b.in_offs
      <4>1. n = b.in_offs
        BY <2>3, EntryCount
      <4>2. b.out_offs = 0
        BY <2>3 DEF InOrder
      <4>3. QED
        BY <1>2, <2>1, <4>1, <4>2, AbsoluteOffset, CapacityAssumption
           DEF Offsets
    <3>3. CASE k = n + 1
      BY <1>1, <1>2, <1>3, <1>4, <2>2, <2>3, <3>1, <3>2, <3>3
    <3>4. CASE k # n + 1
      <4>1. k \in 1 .. n /\ k \in 1 .. m - 1
        BY <1>1, <1>3, <2>3, <3>4
      <4>2. Log(b)[k] = b.entry[k - 1]
        BY <3>2, <4>1 DEF Log
      <4>3. c.entry[k - 1] = b.entry[k - 1]
        BY <1>1, <1>2, <2>1, <3>2, <4>1
      <4>4. Append(old_log, e)[k] = Log(b)[k]
        BY <1>1, <1>4, <2>3, <4>1
      <4>5. QED
        BY <2>2, <3>1, <3>2, <4>2, <4>3, <4>4
    <3>5. QED
      BY <3>3, <3>4
  <2>4. CASE b.full
    <3>1. n = Capacity /\ m = Capacity
      BY <1>3, <2>4, EntryCount
    <3>2. CASE k = m
      <4>1. AbsoluteEntryOffset(c, k - 1) = b.in_offs
        BY <2>1, <2>4, <3>1, <3>2, OffsetAfterAdd, CapacityAssumption
      <4>2. QED
        BY <1>1, <1>2, <1>4, <2>2, <3>2, <4>1
    <3>3. CASE k # m
      <4>1. k \in 1 .. m - 1 /\ k + 1 \in 1 .. n /\ (k - 1) + 1 < Capacity
        BY <1>1, <3>1, <3>3, CapacityAssumption
      <4>2. /\ AbsoluteEntryOffset(c, k - 1) =
                 AbsoluteEntryOffset(b, (k - 1) + 1)
            /\ AbsoluteEntryOffset(c, k - 1) # b.in_offs
        BY <2>1, <2>4, <4>1, OffsetAfterAdd
      <4>3. (k - 1) + 1 \in Offsets /\ (k - 1) + 1 = (k + 1) - 1
        BY <4>1, CapacityAssumption DEF Offsets
      <4>4. Log(b)[k + 1] = b.entry[AbsoluteEntryOffset(b, (k - 1) + 1)]
        BY <4>1, <4>3 DEF Log
      <4>5. AbsoluteEntryOffset(b, (k - 1) + 1) \in Offsets
        BY <1>2, <4>3, AbsoluteOffset
      <4>6. c.entry[AbsoluteEntryOffset(c, k - 1)] =
              b.entry[AbsoluteEntryOffset(b, (k - 1) + 1)]
        BY <1>2, <4>2, <4>5
      <4>7. Append(old_log, e)[k] = Log(b)[k + 1]
        BY <1>1, <1>4, <2>4, <4>1
      <4>8. QED
        BY <2>2, <4>4, <4>6, <4>7
    <3>4. QED
      BY <3>2, <3>3
  <2>5. QED
    BY <2>3, <2>4
<1>6. Append(old_log, e) \in Seq(E) /\ Len(Append(old_log, e)) = m
  BY <1>1, <1>4
<1> HIDE DEF c, m, old_log
<1>7. Log(c) = Append(old_log, e)
  BY <1>1, <1>5, <1>6
<1>8. QED
  BY <1>7 DEF c, old_log

\* The pointer to be freed is that of the oldest entry of a full ring.
LEMMA ReplacedIsOldest ==
  ASSUME NEW E, NEW b, InOrder(b, E)
  PROVE  Replaced(b) = IF b.full THEN Log(b)[1].buffptr ELSE NULL
<1>1. CASE b.full
  <2>1. AbsoluteEntryOffset(b, 0) = b.in_offs
    BY <1>1, AbsoluteOffset, CapacityAssumption DEF InOrder, Offsets
  <2>2. 1 \in 1 .. EntryArraySize(b)
    BY <1>1, EntryCount, CapacityAssumption
  <2>3. Log(b)[1] = b.entry[AbsoluteEntryOffset(b, 1 - 1)]
    BY <2>2 DEF Log
  <2>4. QED
    BY <1>1, <2>1, <2>3 DEF Replaced
<1>2. CASE ~b.full
  BY <1>2 DEF Replaced
<1>3. QED
  BY <1>1, <1>2

-----------------------------------------------------------------------------
(* What the look-ups count.  Measured(b, E): a buffer in order of entries   *)
(* that have a size and a pointer.                                          *)

Measured(b, E) ==
  InOrder(b, E) /\ \A e \in E : e.size \in Nat /\ e.buffptr # NULL

\* The slot of the entry at relative offset j.
Slot(b, j) == b.entry[AbsoluteEntryOffset(b, j)]

\* A slot of the log holds an added entry.
LEMMA SlotIsEntry ==
  ASSUME NEW E, NEW b, Measured(b, E), NEW j \in 0 .. EntryArraySize(b) - 1
  PROVE  /\ j \in Offsets /\ AbsoluteEntryOffset(b, j) \in Offsets
         /\ j + 1 \in 1 .. EntryArraySize(b)
         /\ Log(b)[j + 1] = Slot(b, j)
         /\ Slot(b, j) \in E /\ Slot(b, j).size \in Nat
<1>1. EntryArraySize(b) \in 0 .. Capacity
  BY EntryCount DEF Measured
<1>2. j \in Offsets /\ j + 1 \in 1 .. EntryArraySize(b) /\ (j + 1) - 1 = j
  BY <1>1, CapacityAssumption DEF Offsets
<1>3. b.out_offs \in Offsets
  BY DEF Measured, InOrder
<1>4. Log(b)[j + 1] = Slot(b, j)
  BY <1>2 DEF Log, Slot
<1>5. Log(b) \in Seq(E) /\ Len(Log(b)) = EntryArraySize(b)
  BY LogIsSeq DEF Measured
<1>6. Log(b)[j + 1] \in E
  BY <1>1, <1>2, <1>5
<1>7. QED
  BY <1>2, <1>3, <1>4, <1>6, AbsoluteOffset DEF Measured

\* SizeOfFirst adds the entries one by one.
LEMMA SizeOfFirstStep ==
  ASSUME NEW E, NEW b, Measured(b, E)
  PROVE  /\ SizeOfFirst(b, 0) = 0
         /\ \A k \in 0 .. EntryArraySize(b) : SizeOfFirst(b, k) \in Nat
         /\ \A k \in 0 .. EntryArraySize(b) - 1 :
              SizeOfFirst(b, k + 1) = SizeOfFirst(b, k) + Slot(b, k).size
<1> DEFINE n == EntryArraySize(b)
           f == [i \in DOMAIN Log(b) |-> Log(b)[i].size]
<1>1. n \in 0 .. Capacity /\ n \in Nat
  BY EntryCount, CapacityAssumption DEF Measured
<1>2. \A i \in 1 .. n : f[i] = Slot(b, i - 1).size /\ f[i] \in Nat
  <2> SUFFICES ASSUME NEW i \in 1 .. n
               PROVE  f[i] = Slot(b, i - 1).size /\ f[i] \in Nat
    OBVIOUS
  <2>1. DOMAIN Log(b) = 1 .. n
    BY DEF Log
  <2>2. i - 1 \in 0 .. n - 1 /\ (i - 1) + 1 = i
    BY <1>1
  <2>3. QED
    BY <2>1, <2>2, SlotIsEntry
<1>3. \A k : SizeOfFirst(b, k) = SumFunctionOnSet(f, 1 .. k)
  BY DEF SizeOfFirst
<1> HIDE DEF f, n
<1>4. ASSUME NEW k \in 0 .. n
      PROVE  SumFunctionOnSet(f, 1 .. k) \in Nat
  <2>1. IsFiniteSet(1 .. k) /\ \A i \in 1 .. k : f[i] \in Nat
    BY <1>1, <1>2, FS_Interval
  <2>2. QED
    BY <2>1, SumType
<1>5. SumFunctionOnSet(f, 1 .. 0) = 0
  BY SumType, FS_EmptySet, 1 .. 0 = {}
<1>6. ASSUME NEW k \in 0 .. n - 1
      PROVE  SumFunctionOnSet(f, 1 .. (k + 1)) =
               SumFunctionOnSet(f, 1 .. k) + Slot(b, k).size
  <2>0. k \in Nat /\ k + 1 \in Nat /\ k + 1 <= n
    BY <1>1
  <2>1. /\ IsFiniteSet(1 .. (k + 1)) /\ \A i \in 1 .. (k + 1) : f[i] \in Nat
        /\ k + 1 \in 1 .. (k + 1) /\ (1 .. (k + 1)) \ {k + 1} = 1 .. k
    <3>1. IsFiniteSet(1 .. (k + 1))
      BY <2>0, FS_Interval
    <3>2. \A i \in 1 .. (k + 1) : f[i] \in Nat
      BY <1>1, <1>2, <2>0
    <3>3. k + 1 \in 1 .. (k + 1) /\ (1 .. (k + 1)) \ {k + 1} = 1 .. k
      BY <2>0
    <3>4. QED
      BY <3>1, <3>2, <3>3
  <2>2. SumFunctionOnSet(f, 1 .. (k + 1)) =
          f[k + 1] + SumFunctionOnSet(f, 1 .. k)
    BY <2>1, SumRemove
  <2>3. f[k + 1] = Slot(b, k).size /\ f[k + 1] \in Nat
    BY <1>1, <1>2
  <2>4. SumFunctionOnSet(f, 1 .. k) \in Nat
    BY <1>1, <1>4
  <2>5. QED
    BY <2>2, <2>3, <2>4
<1>7. QED
  BY <1>3, <1>4, <1>5, <1>6 DEF n

\* More entries hold at least as many characters.
LEMMA SizeGrows ==
  ASSUME NEW E, NEW b, Measured(b, E),
         NEW k \in 0 .. EntryArraySize(b), NEW j \in 0 .. k
  PROVE  SizeOfFirst(b, j) <= SizeOfFirst(b, k)
<1> DEFINE n == EntryArraySize(b)
           T == {i \in Nat : i <= n /\ j <= i =>
                               SizeOfFirst(b, j) <= SizeOfFirst(b, i)}
<1>1. n \in Nat
  BY EntryCount, CapacityAssumption DEF Measured
<1>2. 0 \in T
  BY <1>1, SizeOfFirstStep
<1>3. ASSUME NEW i \in T
      PROVE  i + 1 \in T
  <2> SUFFICES ASSUME i + 1 <= n, j <= i + 1
               PROVE  SizeOfFirst(b, j) <= SizeOfFirst(b, i + 1)
    BY <1>1
  <2>1. i \in 0 .. n - 1 /\ i \in 0 .. n /\ j \in 0 .. n /\ i + 1 \in 0 .. n
    BY <1>1
  <2>2. /\ SizeOfFirst(b, i + 1) = SizeOfFirst(b, i) + Slot(b, i).size
        /\ Slot(b, i).size \in Nat
        /\ SizeOfFirst(b, i) \in Nat /\ SizeOfFirst(b, j) \in Nat
        /\ SizeOfFirst(b, i + 1) \in Nat
    BY <2>1, SizeOfFirstStep, SlotIsEntry
  <2>3. j <= i => SizeOfFirst(b, j) <= SizeOfFirst(b, i)
    BY <1>1, <2>1
  <2>4. QED
    BY <2>1, <2>2, <2>3
<1> HIDE DEF T
<1>4. T = Nat
  BY <1>2, <1>3, SetInduction DEF T
<1>5. QED
  BY <1>1, <1>4 DEF T

-----------------------------------------------------------------------------
(* Relative and absolute offsets.  A full ring counts its relative offsets  *)
(* from 1, so that the slot read first is also the one behind the last.     *)

RelativeOffsets(b) == IF b.full THEN 1 .. Capacity ELSE Offsets

\* aesd_circular_buffer_absolute_entry_offset on all of 0 .. Capacity.
LEMMA WrappedOffset ==
  ASSUME NEW b, b.out_offs \in Offsets, NEW j \in 0 .. Capacity
  PROVE  /\ AbsoluteEntryOffset(b, j) =
              IF b.out_offs + j < Capacity THEN b.out_offs + j
                                           ELSE b.out_offs + j - Capacity
         /\ AbsoluteEntryOffset(b, j) \in Offsets
         /\ j < Capacity => NextEntryOffset(AbsoluteEntryOffset(b, j)) =
                              AbsoluteEntryOffset(b, j + 1)
<1>1. ASSUME NEW i \in 0 .. Capacity
      PROVE  /\ AbsoluteEntryOffset(b, i) =
                  IF b.out_offs + i < Capacity THEN b.out_offs + i
                                               ELSE b.out_offs + i - Capacity
             /\ AbsoluteEntryOffset(b, i) \in Offsets
  <2> DEFINE a == b.out_offs + i
  <2>1. a \in 0 .. 2 * Capacity - 1
    BY CapacityAssumption DEF Offsets
  <2>2. AbsoluteEntryOffset(b, i) = a % Capacity
    BY DEF AbsoluteEntryOffset
  <2> HIDE DEF a
  <2>3. AbsoluteEntryOffset(b, i) = IF a < Capacity THEN a ELSE a - Capacity
    BY <2>1, <2>2, Wrap
  <2>4. QED
    BY <2>1, <2>3, CapacityAssumption DEF a, Offsets
<1>2. ASSUME j < Capacity
      PROVE  NextEntryOffset(AbsoluteEntryOffset(b, j)) =
               AbsoluteEntryOffset(b, j + 1)
  <2>1. j + 1 \in 0 .. Capacity
    BY <1>2, CapacityAssumption
  <2>2. AbsoluteEntryOffset(b, j + 1) =
          IF b.out_offs + (j + 1) < Capacity
          THEN b.out_offs + (j + 1)
          ELSE b.out_offs + (j + 1) - Capacity
    BY <2>1, <1>1
  <2> DEFINE a == AbsoluteEntryOffset(b, j)
  <2>3. a \in Offsets /\ a = IF b.out_offs + j < Capacity
                             THEN b.out_offs + j
                             ELSE b.out_offs + j - Capacity
    BY <1>1
  <2> HIDE DEF a
  <2>4. NextEntryOffset(a) = IF a + 1 < Capacity THEN a + 1 ELSE 0
    BY <2>3, NextOffset
  <2>5. NextEntryOffset(a) = AbsoluteEntryOffset(b, j + 1)
    BY <1>2, <2>2, <2>3, <2>4, CapacityAssumption DEF Offsets
  <2>6. QED
    BY <2>5 DEF a
<1>3. QED
  BY <1>1, <1>2

\* aesd_circular_buffer_relative_entry_offset, case by case.
LEMMA RelativeOffset ==
  ASSUME NEW E, NEW b, InOrder(b, E), NEW i \in Offsets
  PROVE  RelativeEntryOffset(b, i) =
           IF ~b.full THEN i
           ELSE IF i <= b.in_offs THEN i + Capacity - b.in_offs
           ELSE i - b.in_offs
<1>1. /\ b.out_offs \in Offsets /\ b.in_offs \in Offsets
      /\ b.full => b.out_offs = b.in_offs
      /\ ~b.full => b.out_offs = 0
  BY DEF InOrder
<1>2. i % Capacity = i
  <2>1. i \in 0 .. 2 * Capacity - 1 /\ i < Capacity
    BY CapacityAssumption DEF Offsets
  <2>2. QED
    BY <2>1, Wrap
<1>3. RelativeEntryOffset(b, i) =
        IF b.full /\ i = b.in_offs THEN Capacity
        ELSE IF i >= b.out_offs THEN i - b.out_offs
        ELSE i + Capacity - b.out_offs
  BY <1>2 DEF RelativeEntryOffset
<1>4. QED
  BY <1>1, <1>3, CapacityAssumption DEF Offsets

\* The two are inverse to each other.
LEMMA RelativeAndAbsolute ==
  ASSUME NEW E, NEW b, InOrder(b, E)
  PROVE  /\ \A i \in Offsets :
              /\ RelativeEntryOffset(b, i) \in RelativeOffsets(b)
              /\ AbsoluteEntryOffset(b, RelativeEntryOffset(b, i)) = i
         /\ \A j \in RelativeOffsets(b) :
              RelativeEntryOffset(b, AbsoluteEntryOffset(b, j)) = j
<1>1. /\ b.out_offs \in Offsets /\ b.in_offs \in Offsets
      /\ b.full => b.out_offs = b.in_offs
      /\ ~b.full => b.out_offs = 0
  BY DEF InOrder
<1>2. RelativeOffsets(b) \subseteq 0 .. Capacity
  BY CapacityAssumption DEF RelativeOffsets, Offsets
<1>3. ASSUME NEW i \in Offsets
      PROVE  /\ RelativeEntryOffset(b, i) \in RelativeOffsets(b)
             /\ AbsoluteEntryOffset(b, RelativeEntryOffset(b, i)) = i
  <2> DEFINE j == RelativeEntryOffset(b, i)
  <2>1. j = IF ~b.full THEN i
            ELSE IF i <= b.in_offs THEN i + Capacity - b.in_offs
            ELSE i - b.in_offs
    BY RelativeOffset
  <2> HIDE DEF j
  <2>2. j \in RelativeOffsets(b)
    BY <1>1, <2>1, CapacityAssumption DEF RelativeOffsets, Offsets
  <2>3. AbsoluteEntryOffset(b, j) = IF b.out_offs + j < Capacity
                                    THEN b.out_offs + j
                                    ELSE b.out_offs + j - Capacity
    BY <1>1, <1>2, <2>2, WrappedOffset
  <2>4. AbsoluteEntryOffset(b, j) = i
    BY <1>1, <2>1, <2>3, CapacityAssumption DEF Offsets
  <2>5. QED
    BY <2>2, <2>4 DEF j
<1>4. ASSUME NEW j \in RelativeOffsets(b)
      PROVE  RelativeEntryOffset(b, AbsoluteEntryOffset(b, j)) = j
  <2> DEFINE i == AbsoluteEntryOffset(b, j)
  <2>1. i \in Offsets /\ i = IF b.out_offs + j < Capacity
                             THEN b.out_offs + j
                             ELSE b.out_offs + j - Capacity
    BY <1>1, <1>2, WrappedOffset
  <2> HIDE DEF i
  <2>2. RelativeEntryOffset(b, i) =
          IF ~b.full THEN i
          ELSE IF i <= b.in_offs THEN i + Capacity - b.in_offs
          ELSE i - b.in_offs
    BY <2>1, RelativeOffset
  <2>3. RelativeEntryOffset(b, i) = j
    BY <1>1, <2>1, <2>2, CapacityAssumption DEF RelativeOffsets, Offsets
  <2>4. QED
    BY <2>3 DEF i
<1>5. QED
  BY <1>3, <1>4

\* A step of a loop over the log goes to the next relative offset, up to and
\* including the one behind the last entry.
LEMMA NextRelative ==
  ASSUME NEW E, NEW b, InOrder(b, E), NEW i \in Offsets,
         RelativeEntryOffset(b, i) < EntryArraySize(b)
  PROVE  /\ NextEntryOffset(i) \in Offsets
         /\ RelativeEntryOffset(b, NextEntryOffset(i)) =
              RelativeEntryOffset(b, i) + 1
<1> DEFINE j == RelativeEntryOffset(b, i)
<1>1. /\ b.out_offs \in Offsets
      /\ j \in RelativeOffsets(b) /\ AbsoluteEntryOffset(b, j) = i
  BY RelativeAndAbsolute DEF InOrder
<1>2. /\ EntryArraySize(b) \in 0 .. Capacity /\ j < EntryArraySize(b)
      /\ ~b.full => EntryArraySize(b) \in Offsets
  BY EntryCount DEF InOrder
<1> HIDE DEF j
<1>3. j \in 0 .. Capacity /\ j < Capacity /\ j + 1 \in RelativeOffsets(b)
  BY <1>1, <1>2, CapacityAssumption DEF RelativeOffsets, Offsets
<1>4. NextEntryOffset(i) = AbsoluteEntryOffset(b, j + 1)
  BY <1>1, <1>3, WrappedOffset
<1>5. RelativeEntryOffset(b, AbsoluteEntryOffset(b, j + 1)) = j + 1
  BY <1>3, RelativeAndAbsolute
<1>6. QED
  BY <1>4, <1>5, NextOffset DEF j

-----------------------------------------------------------------------------
\* The slots of the first k entries of the log.
FirstSlots(b, k) == {AbsoluteEntryOffset(b, j) : j \in 0 .. k - 1}

\* The slots with a pointer, which aesd_circular_buffer_size visits, are those
\* of the log.
LEMMA FilledSlots ==
  ASSUME NEW E, NEW b, Measured(b, E)
  PROVE  {i \in Offsets : b.entry[i].buffptr # NULL} =
           FirstSlots(b, EntryArraySize(b))
<1> DEFINE n == EntryArraySize(b)
<1>1. /\ b.in_offs \in Offsets /\ b.out_offs \in Offsets
      /\ n \in 0 .. Capacity
      /\ b.full => n = Capacity
      /\ ~b.full => n = b.in_offs
  BY EntryCount DEF Measured, InOrder
<1>2. \A j \in 0 .. n - 1 :
        AbsoluteEntryOffset(b, j) \in Offsets /\ Slot(b, j).buffptr # NULL
  BY SlotIsEntry DEF Measured
<1>3. ASSUME NEW i \in Offsets, b.entry[i].buffptr # NULL
      PROVE  \E j \in 0 .. n - 1 : i = AbsoluteEntryOffset(b, j)
  <2>1. b.entry[i] # NoEntry
    BY <1>3 DEF NoEntry
  <2>2. b.full \/ i < b.in_offs
    BY <2>1 DEF Measured, InOrder
  <2> DEFINE r == RelativeEntryOffset(b, i)
  <2>3. r \in RelativeOffsets(b) /\ AbsoluteEntryOffset(b, r) = i
    BY RelativeAndAbsolute DEF Measured
  <2>4. ~b.full => r = i
    BY RelativeOffset DEF Measured
  <2> HIDE DEF r
  <2>5. CASE r < n
    BY <1>1, <2>3, <2>5, CapacityAssumption DEF RelativeOffsets, Offsets
  <2>6. CASE ~ r < n
    <3>1. b.full /\ r = Capacity
      BY <1>1, <2>2, <2>3, <2>4, <2>6, CapacityAssumption
         DEF RelativeOffsets, Offsets
    <3>2. AbsoluteEntryOffset(b, 0) = i
      BY <1>1, <2>3, <3>1, WrappedOffset, CapacityAssumption DEF Offsets
    <3>3. 0 \in 0 .. n - 1
      BY <1>1, <3>1, CapacityAssumption
    <3>4. QED
      BY <3>2, <3>3
  <2>7. QED
    BY <2>5, <2>6
<1>4. QED
  BY <1>2, <1>3 DEF FirstSlots, Slot

\* No two entries share a slot.
LEMMA SlotsDiffer ==
  ASSUME NEW b, b.out_offs \in Offsets, NEW i \in Offsets, NEW j \in Offsets,
         AbsoluteEntryOffset(b, i) = AbsoluteEntryOffset(b, j)
  PROVE  i = j
<1>1. \A k \in Offsets :
        AbsoluteEntryOffset(b, k) = IF b.out_offs + k < Capacity
                                    THEN b.out_offs + k
                                    ELSE b.out_offs + k - Capacity
  BY AbsoluteOffset
<1>2. QED
  BY <1>1, CapacityAssumption DEF Offsets

\* Summing the sizes slot by slot, in whatever order, gives what the log counts
\* entry by entry: aesd_circular_buffer_size measures the log.
LEMMA SlotsMeasureLog ==
  ASSUME NEW E, NEW b, Measured(b, E)
  PROVE  BufferSize(b) = Total(b)
<1> DEFINE n == EntryArraySize(b)
           f == Sizes(b)
           T == {k \in Nat : k <= n => SumFunctionOnSet(f, FirstSlots(b, k)) =
                                       SizeOfFirst(b, k)}
<1>1. n \in Nat
  BY EntryCount, CapacityAssumption DEF Measured
<1>2. ASSUME NEW k \in Nat, k <= n
      PROVE  /\ IsFiniteSet(FirstSlots(b, k))
             /\ \A i \in FirstSlots(b, k) : f[i] \in Nat
  <2>1. /\ FirstSlots(b, k) \subseteq Offsets
        /\ \A i \in FirstSlots(b, k) : b.entry[i].size \in Nat
    BY <1>1, <1>2, SlotIsEntry DEF FirstSlots, Slot
  <2>2. IsFiniteSet(Offsets)
    BY FS_Interval, CapacityAssumption DEF Offsets
  <2>3. QED
    BY <2>1, <2>2, FS_Subset DEF Sizes
<1>3. 0 \in T
  <2>1. FirstSlots(b, 0) = {}
    BY DEF FirstSlots
  <2>2. SumFunctionOnSet(f, {}) = 0
    BY SumType, FS_EmptySet
  <2>3. QED
    BY <2>1, <2>2, SizeOfFirstStep
<1>4. ASSUME NEW k \in T
      PROVE  k + 1 \in T
  <2> SUFFICES ASSUME k + 1 <= n
               PROVE  SumFunctionOnSet(f, FirstSlots(b, k + 1)) =
                        SizeOfFirst(b, k + 1)
    OBVIOUS
  <2> DEFINE x == AbsoluteEntryOffset(b, k)
  <2>1. k \in 0 .. n - 1 /\ k \in 0 .. n /\ k \in Nat /\ k + 1 \in Nat
    BY <1>1
  <2>2. x \in Offsets /\ f[x] = Slot(b, k).size /\ f[x] \in Nat
    BY <2>1, SlotIsEntry DEF Slot, Sizes
  <2>3. x \in FirstSlots(b, k + 1)
    BY <2>1 DEF FirstSlots
  <2>4. FirstSlots(b, k + 1) \ {x} = FirstSlots(b, k)
    <3>1. b.out_offs \in Offsets
      BY DEF Measured, InOrder
    <3>2. \A j \in 0 .. k : j \in Offsets
      BY <1>1, <2>1, SlotIsEntry
    <3>3. \A j \in 0 .. k - 1 : AbsoluteEntryOffset(b, j) # x
      BY <2>1, <3>1, <3>2, SlotsDiffer
    <3>4. 0 .. (k + 1) - 1 = (0 .. k - 1) \cup {k}
      BY <2>1
    <3>5. QED
      BY <3>3, <3>4 DEF FirstSlots
  <2> HIDE DEF f, x
  <2>5. SumFunctionOnSet(f, FirstSlots(b, k + 1)) =
          f[x] + SumFunctionOnSet(f, FirstSlots(b, k))
    BY <1>2, <2>1, <2>3, <2>4, SumRemove
  <2>6. SumFunctionOnSet(f, FirstSlots(b, k)) = SizeOfFirst(b, k)
    BY <2>1
  <2>7. /\ SizeOfFirst(b, k + 1) = SizeOfFirst(b, k) + Slot(b, k).size
        /\ SizeOfFirst(b, k) \in Nat
    BY <2>1, SizeOfFirstStep
  <2>8. QED
    BY <2>2, <2>5, <2>6, <2>7
<1> HIDE DEF T
<1>5. T = Nat
  BY <1>3, <1>4, SetInduction DEF T
<1>6. SumFunctionOnSet(f, FirstSlots(b, n)) = SizeOfFirst(b, n)
  BY <1>1, <1>5 DEF T
<1>7. QED
  BY <1>6, FilledSlots DEF BufferSize, Total

-----------------------------------------------------------------------------
\* What the loop of SizesUpTo computes from every offset.
IsSizeLoop(loop, b, k) ==
  loop = [i \in Offsets |->
            IF RelativeEntryOffset(b, i) < k
            THEN b.entry[i].size + loop[NextEntryOffset(i)]
            ELSE 0]

\* The loop comes to its end: it moves to the next entry until it is at the k-th.
LEMMA SizeLoopEnds ==
  ASSUME NEW E, NEW b, Measured(b, E), NEW k \in 0 .. EntryArraySize(b)
  PROVE  \E loop \in [Offsets -> Nat] : IsSizeLoop(loop, b, k)
<1> DEFINE n == EntryArraySize(b)
           D == {i \in Offsets : RelativeEntryOffset(b, i) < k}
           M == [i \in Offsets |-> Capacity - RelativeEntryOffset(b, i)]
           next == [i \in D |-> NextEntryOffset(i)]
           base == [i \in Offsets |-> 0]
           comb == [p \in D \X Nat |-> b.entry[p[1]].size + p[2]]
<1>1. n \in 0 .. Capacity /\ Capacity \in Nat
  BY EntryCount, CapacityAssumption DEF Measured
<1>2. \A i \in Offsets : /\ RelativeEntryOffset(b, i) \in 0 .. Capacity
                         /\ b.entry[i].size \in Nat
  <2>1. RelativeOffsets(b) \subseteq 0 .. Capacity
    BY CapacityAssumption DEF RelativeOffsets, Offsets
  <2>2. \A i \in Offsets : b.entry[i] \in E \cup {NoEntry}
    BY DEF Measured, InOrder
  <2>3. \A e \in E \cup {NoEntry} : e.size \in Nat
    BY DEF Measured, NoEntry
  <2>4. QED
    BY <2>1, <2>2, <2>3, RelativeAndAbsolute DEF Measured
<1>3. \A i \in D : /\ NextEntryOffset(i) \in Offsets
                   /\ RelativeEntryOffset(b, NextEntryOffset(i)) =
                        RelativeEntryOffset(b, i) + 1
  <2> SUFFICES ASSUME NEW i \in D
               PROVE  /\ NextEntryOffset(i) \in Offsets
                      /\ RelativeEntryOffset(b, NextEntryOffset(i)) =
                           RelativeEntryOffset(b, i) + 1
    OBVIOUS
  <2>1. i \in Offsets /\ RelativeEntryOffset(b, i) < n
    BY <1>1, <1>2
  <2>2. QED
    BY <2>1, NextRelative DEF Measured
<1>4. M \in [Offsets -> 0 .. Capacity]
  BY <1>1, <1>2
<1>5. next \in [D -> Offsets]
  BY <1>3
<1>6. base \in [Offsets -> Nat]
  OBVIOUS
<1>7. comb \in [D \X Nat -> Nat]
  BY <1>2
<1>8. \A i \in D : M[next[i]] < M[i]
  BY <1>1, <1>2, <1>3
<1>9. \E loop \in [Offsets -> Nat] :
        IsRecursion(loop, Offsets, D, next, base, comb)
  <2>1. D \in SUBSET Offsets /\ 0 \in Nat
    OBVIOUS
  <2> HIDE DEF D, M, next, base, comb
  <2>2. QED
    BY <1>1, <1>4, <1>5, <1>6, <1>7, <1>8, <2>1, MeasuredRecursion
<1>10. ASSUME NEW loop \in [Offsets -> Nat],
              IsRecursion(loop, Offsets, D, next, base, comb)
       PROVE  IsSizeLoop(loop, b, k)
  <2>1. \A i \in Offsets :
          loop[i] = IF i \in D THEN comb[<<i, loop[next[i]]>>] ELSE base[i]
    BY <1>10 DEF IsRecursion
  <2>2. \A i \in Offsets :
          loop[i] = IF RelativeEntryOffset(b, i) < k
                    THEN b.entry[i].size + loop[NextEntryOffset(i)]
                    ELSE 0
    BY <1>3, <2>1
  <2>3. QED
    BY <2>2 DEF IsSizeLoop
<1>11. QED
  BY <1>9, <1>10

\* What is left to add at entry j, for the k-th entry.
LEMMA SizesFrom ==
  ASSUME NEW E, NEW b, Measured(b, E), NEW k \in 0 .. EntryArraySize(b) - 1,
         NEW j \in 0 .. k, j \in RelativeOffsets(b) \/ k = 0
  PROVE  SizesUpTo(b, AbsoluteEntryOffset(b, j), k) =
           SizeOfFirst(b, k) - SizeOfFirst(b, j)
<1> DEFINE n == EntryArraySize(b)
<1>1. n \in 0 .. Capacity /\ Capacity \in Nat /\ n \in Nat
  BY EntryCount, CapacityAssumption DEF Measured
<1>2. k \in 0 .. n /\ k \in Nat /\ k < n
  BY <1>1
<1> DEFINE loop == CHOOSE loop : IsSizeLoop(loop, b, k)
<1>3. IsSizeLoop(loop, b, k)
  BY <1>2, SizeLoopEnds
<1>4. \A i : SizesUpTo(b, i, k) = loop[i]
  BY DEF SizesUpTo, IsSizeLoop
<1> HIDE DEF loop
<1> DEFINE At(i) == AbsoluteEntryOffset(b, i)
           T == {m \in Nat : m <= k /\ k - m \in RelativeOffsets(b) =>
                   loop[At(k - m)] = SizeOfFirst(b, k) - SizeOfFirst(b, k - m)}
<1>5. /\ b.out_offs \in Offsets
      /\ \A i \in 0 .. k : At(i) \in Offsets /\ NextEntryOffset(At(i)) = At(i + 1)
      /\ \A i \in RelativeOffsets(b) : RelativeEntryOffset(b, At(i)) = i
  <2>1. b.out_offs \in Offsets
    BY DEF Measured, InOrder
  <2>2. \A i \in 0 .. k : i \in 0 .. Capacity /\ i < Capacity
    BY <1>1
  <2>3. QED
    BY <2>1, <2>2, WrappedOffset, RelativeAndAbsolute DEF Measured
<1>6. \A i \in Offsets : loop[i] = IF RelativeEntryOffset(b, i) < k
                                   THEN b.entry[i].size +
                                        loop[NextEntryOffset(i)]
                                   ELSE 0
  BY <1>3 DEF IsSizeLoop
<1>7. \A i \in 0 .. k : /\ SizeOfFirst(b, i) \in Nat
                        /\ Slot(b, i).size \in Nat
                        /\ SizeOfFirst(b, i + 1) =
                             SizeOfFirst(b, i) + Slot(b, i).size
  <2>1. \A i \in 0 .. k : i \in 0 .. n - 1 /\ i \in 0 .. n
    BY <1>1
  <2>2. QED
    BY <2>1, SizeOfFirstStep, SlotIsEntry
<1>8. 0 \in T
  <2> SUFFICES ASSUME k \in RelativeOffsets(b)
               PROVE  loop[At(k)] = 0
    BY <1>2, <1>7
  <2>1. At(k) \in Offsets /\ RelativeEntryOffset(b, At(k)) = k
    BY <1>2, <1>5
  <2>2. QED
    BY <1>2, <1>6, <2>1
<1>9. ASSUME NEW m \in T
      PROVE  m + 1 \in T
  <2> DEFINE i == k - (m + 1)
  <2> SUFFICES ASSUME m + 1 <= k, i \in RelativeOffsets(b)
               PROVE  loop[At(i)] = SizeOfFirst(b, k) - SizeOfFirst(b, i)
    OBVIOUS
  <2>1. i \in 0 .. k /\ i < k /\ i + 1 = k - m /\ m <= k /\ i + 1 \in 0 .. k
    BY <1>2
  <2>2. i + 1 \in RelativeOffsets(b)
    BY <1>1, <1>2, <2>1 DEF RelativeOffsets, Offsets
  <2>3. loop[At(i + 1)] = SizeOfFirst(b, k) - SizeOfFirst(b, i + 1)
    BY <2>1, <2>2
  <2> HIDE DEF i
  <2>4. /\ At(i) \in Offsets /\ NextEntryOffset(At(i)) = At(i + 1)
        /\ RelativeEntryOffset(b, At(i)) = i
    BY <1>5, <2>1
  <2>5. loop[At(i)] = Slot(b, i).size + loop[At(i + 1)]
    BY <1>6, <2>1, <2>4 DEF Slot
  <2>6. /\ SizeOfFirst(b, i) \in Nat /\ SizeOfFirst(b, k) \in Nat
        /\ Slot(b, i).size \in Nat
        /\ SizeOfFirst(b, i + 1) = SizeOfFirst(b, i) + Slot(b, i).size
    BY <1>2, <1>7, <2>1
  <2>7. QED
    BY <2>3, <2>5, <2>6
<1> HIDE DEF T
<1>10. T = Nat
  BY <1>8, <1>9, SetInduction DEF T
<1>11. CASE j \in RelativeOffsets(b)
  <2>1. k - j \in Nat /\ k - j <= k /\ k - (k - j) = j
    BY <1>2
  <2>2. loop[At(j)] = SizeOfFirst(b, k) - SizeOfFirst(b, j)
    BY <1>10, <1>11, <2>1 DEF T
  <2>3. QED
    BY <1>4, <2>2
<1>12. CASE k = 0
  <2>1. j = 0 /\ At(j) \in Offsets
    BY <1>2, <1>5, <1>12
  <2>2. ~ RelativeEntryOffset(b, At(j)) < 0
    <3>1. RelativeEntryOffset(b, At(j)) \in RelativeOffsets(b)
      BY <2>1, RelativeAndAbsolute DEF Measured
    <3>2. QED
      BY <1>1, <3>1 DEF RelativeOffsets, Offsets
  <2>3. loop[At(j)] = 0
    BY <1>6, <1>12, <2>1, <2>2
  <2>4. QED
    BY <1>4, <1>7, <1>12, <2>1, <2>3
<1>13. QED
  BY <1>11, <1>12

\* aesd_circular_buffer_find_fpos_for_entry_offset answers with the position
\* of the byte in the log, and with -1 for what the log does not hold.
LEMMA FposIsPosition ==
  ASSUME NEW E, NEW b, Measured(b, E), NEW k \in Nat, NEW byte \in Nat
  PROVE  FindFposForEntryOffset(b, k, byte) =
           IF k < EntryArraySize(b) /\ byte < Log(b)[k + 1].size
           THEN SizeOfFirst(b, k) + byte ELSE -1
<1> DEFINE n == EntryArraySize(b)
<1>1. n \in 0 .. Capacity /\ Capacity \in Nat
  BY EntryCount, CapacityAssumption DEF Measured
<1>2. CASE ~ k < n
  <2>1. k >= n
    BY <1>1, <1>2
  <2>2. QED
    BY <1>2, <2>1 DEF FindFposForEntryOffset
<1>3. CASE k < n
  <2>1. /\ k \in 0 .. n - 1 /\ ~ k >= n
        /\ Log(b)[k + 1] = Slot(b, k) /\ Slot(b, k).size \in Nat
    <3>1. k \in 0 .. n - 1 /\ ~ k >= n
      BY <1>1, <1>3
    <3>2. QED
      BY <3>1, SlotIsEntry
  <2>2. SizeOfFirst(b, k) \in Nat /\ SizeOfFirst(b, 0) = 0
    BY <1>1, <2>1, SizeOfFirstStep
  <2>3. b.out_offs \in Offsets /\ AbsoluteEntryOffset(b, 0) = b.out_offs
    <3>1. b.out_offs \in Offsets /\ 0 \in 0 .. Capacity
      BY <1>1 DEF Measured, InOrder
    <3>2. QED
      BY <3>1, WrappedOffset, CapacityAssumption DEF Offsets
  <2>4. ASSUME 0 < k
        PROVE  b.entry[b.out_offs].size +
                 SizesUpTo(b, NextEntryOffset(b.out_offs), k) =
               SizeOfFirst(b, k)
    <3>1. /\ 1 \in 0 .. k /\ 1 \in RelativeOffsets(b)
          /\ 0 \in 0 .. n - 1 /\ 0 \in 0 .. Capacity /\ 0 < Capacity
      BY <1>1, <1>3, <2>4, CapacityAssumption DEF RelativeOffsets, Offsets
    <3>2. NextEntryOffset(b.out_offs) = AbsoluteEntryOffset(b, 0 + 1)
      BY <2>3, <3>1, WrappedOffset
    <3>3. SizesUpTo(b, AbsoluteEntryOffset(b, 1), k) =
            SizeOfFirst(b, k) - SizeOfFirst(b, 1)
      BY <2>1, <3>1, SizesFrom
    <3>4. /\ SizeOfFirst(b, 0 + 1) = SizeOfFirst(b, 0) + Slot(b, 0).size
          /\ Slot(b, 0).size \in Nat
      BY <3>1, SizeOfFirstStep, SlotIsEntry
    <3>5. Slot(b, 0) = b.entry[b.out_offs]
      BY <2>3 DEF Slot
    <3>6. SizeOfFirst(b, 1) = b.entry[b.out_offs].size
      BY <2>2, <3>4, <3>5
    <3>7. QED
      BY <2>2, <3>2, <3>3, <3>4, <3>5, <3>6
  <2>5. ASSUME k = 0
        PROVE  SizesUpTo(b, b.out_offs, k) = SizeOfFirst(b, k)
    <3>1. SizesUpTo(b, AbsoluteEntryOffset(b, k), k) =
            SizeOfFirst(b, k) - SizeOfFirst(b, k)
      BY <2>1, <2>5, SizesFrom, k \in 0 .. k
    <3>2. QED
      BY <2>2, <2>3, <2>5, <3>1
  <2>6. CASE byte >= Slot(b, k).size
    <3>1. ~ byte < Log(b)[k + 1].size
      BY <2>1, <2>6
    <3>2. QED
      BY <2>6, <3>1 DEF FindFposForEntryOffset, Slot
  <2>7. CASE ~ byte >= Slot(b, k).size
    <3>1. byte < Log(b)[k + 1].size
      BY <2>1, <2>7
    <3>2. FindFposForEntryOffset(b, k, byte) =
            byte + (IF 0 < k
                    THEN b.entry[b.out_offs].size +
                         SizesUpTo(b, NextEntryOffset(b.out_offs), k)
                    ELSE SizesUpTo(b, b.out_offs, k))
      BY <2>1, <2>7 DEF FindFposForEntryOffset, Slot
    <3>3. FindFposForEntryOffset(b, k, byte) = byte + SizeOfFirst(b, k)
      BY <2>4, <2>5, <3>2
    <3>4. QED
      BY <1>3, <2>2, <3>1, <3>3
  <2>8. QED
    BY <2>6, <2>7
<1>4. QED
  BY <1>2, <1>3

-----------------------------------------------------------------------------
\* What the loop of SearchFrom computes from every state of its variables.
IsSearchLoop(loop, b) ==
  loop = [s \in SearchState |->
            IF ~s.found /\ RelativeEntryOffset(b, s.offset) < EntryArraySize(b)
            THEN loop[IterateFind(b, s)]
            ELSE s]

\* An iteration stops the loop or moves it to the next entry.
LEMMA Iteration ==
  ASSUME NEW E, NEW b, Measured(b, E), NEW s \in SearchState, ~s.found
  PROVE  /\ IterateFind(b, s) \in SearchState
         /\ s.remaining < b.entry[s.offset].size =>
              IterateFind(b, s) = [offset |-> s.offset,
                                   remaining |-> s.remaining, found |-> TRUE]
         /\ ~ s.remaining < b.entry[s.offset].size =>
              IterateFind(b, s) =
                [offset |-> NextEntryOffset(s.offset),
                 remaining |-> s.remaining - b.entry[s.offset].size,
                 found |-> FALSE]
<1>1. /\ s = [offset |-> s.offset, remaining |-> s.remaining,
              found |-> s.found]
      /\ s.offset \in Offsets /\ s.remaining \in Nat /\ s.found \in BOOLEAN
  BY DEF SearchState
<1>2. b.entry[s.offset].size \in Nat
  <2>1. b.entry[s.offset] \in E \cup {NoEntry}
    BY <1>1 DEF Measured, InOrder
  <2>2. \A e \in E \cup {NoEntry} : e.size \in Nat
    BY DEF Measured, NoEntry
  <2>3. QED
    BY <2>1, <2>2
<1>3. NextEntryOffset(s.offset) \in Offsets
  BY <1>1, NextOffset
<1>4. CASE s.remaining < b.entry[s.offset].size
  <2>1. IterateFind(b, s) = [offset |-> s.offset,
                             remaining |-> s.remaining, found |-> TRUE]
    BY <1>1, <1>4 DEF IterateFind
  <2>2. QED
    BY <1>1, <1>4, <2>1 DEF SearchState
<1>5. CASE ~ s.remaining < b.entry[s.offset].size
  <2>1. IterateFind(b, s) =
          [offset |-> NextEntryOffset(s.offset),
           remaining |-> s.remaining - b.entry[s.offset].size,
           found |-> FALSE]
    BY <1>1, <1>5 DEF IterateFind
  <2>2. s.remaining - b.entry[s.offset].size \in Nat
    BY <1>1, <1>2, <1>5
  <2>3. QED
    BY <1>1, <1>3, <1>5, <2>1, <2>2 DEF SearchState
<1>6. QED
  BY <1>4, <1>5

\* The loop comes to its end: at the latest behind the last entry.
LEMMA SearchLoopEnds ==
  ASSUME NEW E, NEW b, Measured(b, E)
  PROVE  \E loop : IsSearchLoop(loop, b)
<1> DEFINE S == SearchState
           n == EntryArraySize(b)
           D == {s \in S : ~s.found /\ RelativeEntryOffset(b, s.offset) < n}
           M == [s \in S |-> IF s.found THEN 0
                             ELSE 1 + Capacity -
                                    RelativeEntryOffset(b, s.offset)]
           next == [s \in D |-> IterateFind(b, s)]
           base == [s \in S |-> s]
           comb == [p \in D \X S |-> p[2]]
           first == [offset |-> 0, remaining |-> 0, found |-> FALSE]
<1>1. /\ n \in 0 .. Capacity /\ Capacity \in Nat /\ Capacity + 1 \in Nat
      /\ first \in S
  <2>1. n \in 0 .. Capacity /\ Capacity \in Nat /\ 0 \in Offsets
    BY EntryCount, CapacityAssumption DEF Measured, Offsets
  <2>2. QED
    BY <2>1 DEF SearchState
<1>2. \A s \in S : /\ RelativeEntryOffset(b, s.offset) \in 0 .. Capacity
                   /\ s.offset \in Offsets
  <2>1. RelativeOffsets(b) \subseteq 0 .. Capacity
    BY CapacityAssumption DEF RelativeOffsets, Offsets
  <2>2. \A s \in S : s.offset \in Offsets
    BY DEF SearchState
  <2>3. QED
    BY <2>1, <2>2, RelativeAndAbsolute DEF Measured
<1>3. M \in [S -> 0 .. Capacity + 1]
  BY <1>1, <1>2
<1>4. ASSUME NEW s \in D
      PROVE  /\ IterateFind(b, s) \in S
             /\ IterateFind(b, s).found \/
                  /\ ~IterateFind(b, s).found
                  /\ RelativeEntryOffset(b, IterateFind(b, s).offset) =
                       RelativeEntryOffset(b, s.offset) + 1
  <2>1. s \in S /\ ~s.found /\ RelativeEntryOffset(b, s.offset) < n
    OBVIOUS
  <2>2. IterateFind(b, s) \in S
    BY <2>1, Iteration
  <2>3. CASE s.remaining < b.entry[s.offset].size
    BY <2>1, <2>2, <2>3, Iteration
  <2>4. CASE ~ s.remaining < b.entry[s.offset].size
    <3>1. /\ IterateFind(b, s).offset = NextEntryOffset(s.offset)
          /\ ~IterateFind(b, s).found
      <4>1. IterateFind(b, s) =
              [offset |-> NextEntryOffset(s.offset),
               remaining |-> s.remaining - b.entry[s.offset].size,
               found |-> FALSE]
        BY <2>1, <2>4, Iteration
      <4>2. QED
        BY <4>1
    <3>2. RelativeEntryOffset(b, NextEntryOffset(s.offset)) =
            RelativeEntryOffset(b, s.offset) + 1
      BY <1>2, <2>1, NextRelative DEF Measured
    <3>3. QED
      BY <2>2, <3>1, <3>2
  <2>5. QED
    BY <2>3, <2>4
<1>5. next \in [D -> S] /\ base \in [S -> S] /\ comb \in [D \X S -> S]
  BY <1>4
<1>6. \A s \in D : M[next[s]] < M[s]
  <2> SUFFICES ASSUME NEW s \in D
               PROVE  M[next[s]] < M[s]
    OBVIOUS
  <2>1. /\ next[s] = IterateFind(b, s) /\ next[s] \in S /\ s \in S
        /\ M[s] = 1 + Capacity - RelativeEntryOffset(b, s.offset)
        /\ M[s] > 0
    BY <1>1, <1>2, <1>4
  <2>2. CASE next[s].found
    BY <2>1, <2>2
  <2>3. CASE /\ ~next[s].found
             /\ RelativeEntryOffset(b, next[s].offset) =
                  RelativeEntryOffset(b, s.offset) + 1
    BY <1>1, <1>2, <2>1, <2>3
  <2>4. QED
    BY <1>4, <2>1, <2>2, <2>3
<1>7. \E loop \in [S -> S] : IsRecursion(loop, S, D, next, base, comb)
  <2>1. D \in SUBSET S
    OBVIOUS
  <2> HIDE DEF S, D, M, next, base, comb, first
  <2>2. QED
    BY <1>1, <1>3, <1>5, <1>6, <2>1, MeasuredRecursion
<1>8. ASSUME NEW loop \in [S -> S],
             IsRecursion(loop, S, D, next, base, comb)
      PROVE  IsSearchLoop(loop, b)
  <2>1. \A s \in S :
          loop[s] = IF s \in D THEN comb[<<s, loop[next[s]]>>] ELSE base[s]
    BY <1>8 DEF IsRecursion
  <2>2. \A s \in D : comb[<<s, loop[next[s]]>>] = loop[IterateFind(b, s)]
    BY <1>4
  <2>3. \A s \in S : s \in D <=> /\ ~s.found
                                 /\ RelativeEntryOffset(b, s.offset) < n
    OBVIOUS
  <2> HIDE DEF D, next, comb
  <2>4. \A s \in S :
          loop[s] = IF ~s.found /\ RelativeEntryOffset(b, s.offset) < n
                    THEN loop[IterateFind(b, s)] ELSE s
    BY <2>1, <2>2, <2>3
  <2>5. loop = [s \in S |-> loop[s]]
    OBVIOUS
  <2> HIDE DEF S, n
  <2>6. loop = [s \in S |->
                  IF ~s.found /\ RelativeEntryOffset(b, s.offset) < n
                  THEN loop[IterateFind(b, s)] ELSE s]
    BY <2>4, <2>5
  <2>7. QED
    BY <2>6 DEF S, n, IsSearchLoop
<1>9. QED
  BY <1>7, <1>8

\* The state of the loop at relative offset j, with SizeOfFirst(b, j) of the
\* char_offset characters skipped.
SearchAt(b, char_offset, j) ==
  [offset |-> AbsoluteEntryOffset(b, j),
   remaining |-> char_offset - SizeOfFirst(b, j), found |-> FALSE]

\* A final state of the loop that answers rightly: in the entry that holds the
\* character, or past the end.
AnswersSearch(b, char_offset, s) ==
  \/ /\ ~s.found
     /\ SizeOfFirst(b, EntryArraySize(b)) <= char_offset
  \/ /\ s.found
     /\ \E j \in 0 .. EntryArraySize(b) - 1 :
          /\ s.offset = AbsoluteEntryOffset(b, j)
          /\ s.remaining = char_offset - SizeOfFirst(b, j)
          /\ s.remaining \in Nat /\ s.remaining < Slot(b, j).size

\* One iteration at entry j, whether before the loop or in it.
LEMMA IterationAt ==
  ASSUME NEW E, NEW b, Measured(b, E), NEW char_offset \in Nat,
         NEW j \in 0 .. EntryArraySize(b) - 1, SizeOfFirst(b, j) <= char_offset
  PROVE  /\ SearchAt(b, char_offset, j) \in SearchState
         /\ IterateFind(b, SearchAt(b, char_offset, j)) \in SearchState
         /\ \/ /\ IterateFind(b, SearchAt(b, char_offset, j)) =
                    SearchAt(b, char_offset, j + 1)
               /\ SizeOfFirst(b, j + 1) <= char_offset
            \/ /\ IterateFind(b, SearchAt(b, char_offset, j)).found
               /\ AnswersSearch(b, char_offset,
                                IterateFind(b, SearchAt(b, char_offset, j)))
<1> DEFINE s == SearchAt(b, char_offset, j)
           size == Slot(b, j).size
<1>1. /\ AbsoluteEntryOffset(b, j) \in Offsets /\ size \in Nat
      /\ SizeOfFirst(b, j) \in Nat
      /\ SizeOfFirst(b, j + 1) = SizeOfFirst(b, j) + size
  <2>1. EntryArraySize(b) \in Nat
    BY EntryCount, CapacityAssumption DEF Measured
  <2>2. j \in 0 .. EntryArraySize(b)
    BY <2>1
  <2>3. QED
    BY <2>2, SlotIsEntry, SizeOfFirstStep
<1>2. /\ s.offset = AbsoluteEntryOffset(b, j)
      /\ s.remaining = char_offset - SizeOfFirst(b, j)
      /\ s.remaining \in Nat /\ ~s.found
      /\ b.entry[s.offset].size = size
      /\ s \in SearchState
  BY <1>1 DEF SearchAt, SearchState, Slot
<1>3. NextEntryOffset(AbsoluteEntryOffset(b, j)) = AbsoluteEntryOffset(b, j + 1)
  <2>1. b.out_offs \in Offsets /\ j \in 0 .. Capacity /\ j < Capacity
    <3>1. EntryArraySize(b) \in 0 .. Capacity
      BY EntryCount DEF Measured
    <3>2. QED
      BY <3>1, CapacityAssumption DEF Measured, InOrder
  <2>2. QED
    BY <2>1, WrappedOffset
<1> HIDE DEF s, size
<1>4. CASE s.remaining < size
  <2>1. IterateFind(b, s) = [offset |-> s.offset,
                             remaining |-> s.remaining, found |-> TRUE]
    BY <1>2, <1>4, Iteration
  <2>2. /\ IterateFind(b, s).found
        /\ IterateFind(b, s).offset = AbsoluteEntryOffset(b, j)
        /\ IterateFind(b, s).remaining = char_offset - SizeOfFirst(b, j)
        /\ IterateFind(b, s).remaining \in Nat
        /\ IterateFind(b, s).remaining < Slot(b, j).size
    BY <1>2, <1>4, <2>1 DEF size
  <2> DEFINE r == IterateFind(b, s)
  <2> HIDE DEF r
  <2>3. r.found /\ AnswersSearch(b, char_offset, r)
    BY <2>2 DEF AnswersSearch, r
  <2>4. QED
    BY <1>2, <2>3, Iteration DEF s, r
<1>5. CASE ~ s.remaining < size
  <2>1. IterateFind(b, s) = [offset |-> NextEntryOffset(s.offset),
                             remaining |-> s.remaining - size,
                             found |-> FALSE]
    BY <1>2, <1>5, Iteration
  <2>2. s.remaining - size = char_offset - SizeOfFirst(b, j + 1)
    BY <1>1, <1>2
  <2>3. IterateFind(b, s) = SearchAt(b, char_offset, j + 1)
    BY <1>2, <1>3, <2>1, <2>2 DEF SearchAt
  <2>4. SizeOfFirst(b, j + 1) <= char_offset
    BY <1>1, <1>2, <1>5
  <2>5. QED
    BY <1>2, <2>3, <2>4, Iteration DEF s
<1>6. QED
  BY <1>4, <1>5

\* The loop answers rightly from whatever entry it is started at.
LEMMA SearchLoopAnswers ==
  ASSUME NEW E, NEW b, Measured(b, E), NEW char_offset \in Nat,
         NEW loop, IsSearchLoop(loop, b),
         NEW s \in SearchState,
         \/ s.found /\ AnswersSearch(b, char_offset, s)
         \/ \E j \in 0 .. EntryArraySize(b) :
              /\ j \in RelativeOffsets(b)
              /\ SizeOfFirst(b, j) <= char_offset
              /\ s = SearchAt(b, char_offset, j)
  PROVE  AnswersSearch(b, char_offset, loop[s])
<1> DEFINE n == EntryArraySize(b)
           St(j) == SearchAt(b, char_offset, j)
           T == {m \in Nat :
                   /\ m <= n
                   /\ n - m \in RelativeOffsets(b)
                   /\ SizeOfFirst(b, n - m) <= char_offset
                   => AnswersSearch(b, char_offset, loop[St(n - m)])}
<1>1. /\ n \in 0 .. Capacity /\ Capacity \in Nat /\ n \in Nat
      /\ b.out_offs \in Offsets
  BY EntryCount, CapacityAssumption DEF Measured, InOrder
<1>2. \A t \in SearchState :
        /\ loop[t] = IF ~t.found /\ RelativeEntryOffset(b, t.offset) < n
                     THEN loop[IterateFind(b, t)] ELSE t
        /\ t.found => loop[t] = t
  BY DEF IsSearchLoop
<1>3. ASSUME NEW j \in 0 .. n, j \in RelativeOffsets(b),
             SizeOfFirst(b, j) <= char_offset
      PROVE  /\ St(j) \in SearchState /\ ~St(j).found
             /\ RelativeEntryOffset(b, St(j).offset) = j
  <2>1. j \in 0 .. Capacity
    BY <1>1
  <2>2. AbsoluteEntryOffset(b, j) \in Offsets
    BY <1>1, <2>1, WrappedOffset
  <2>3. char_offset - SizeOfFirst(b, j) \in Nat
    BY <1>3, SizeOfFirstStep
  <2>4. RelativeEntryOffset(b, AbsoluteEntryOffset(b, j)) = j
    BY <1>3, RelativeAndAbsolute DEF Measured
  <2>5. QED
    BY <2>2, <2>3, <2>4 DEF SearchAt, SearchState
<1>4. 0 \in T
  <2> SUFFICES ASSUME n \in RelativeOffsets(b), SizeOfFirst(b, n) <= char_offset
               PROVE  AnswersSearch(b, char_offset, loop[St(n)])
    BY <1>1
  <2>1. /\ St(n) \in SearchState /\ ~St(n).found
        /\ RelativeEntryOffset(b, St(n).offset) = n
    BY <1>1, <1>3
  <2>2. loop[St(n)] = St(n)
    BY <1>1, <1>2, <2>1
  <2>3. QED
    BY <2>1, <2>2 DEF AnswersSearch
<1>5. ASSUME NEW m \in T
      PROVE  m + 1 \in T
  <2> DEFINE j == n - (m + 1)
  <2> SUFFICES ASSUME m + 1 <= n, j \in RelativeOffsets(b),
                      SizeOfFirst(b, j) <= char_offset
               PROVE  AnswersSearch(b, char_offset, loop[St(j)])
    OBVIOUS
  <2>1. j \in 0 .. n - 1 /\ j \in 0 .. n /\ j + 1 = n - m /\ m <= n
    BY <1>1
  <2>2. j + 1 \in RelativeOffsets(b)
    <3>1. ~b.full => n \in Offsets
      BY EntryCount DEF Measured, InOrder
    <3>2. QED
      BY <1>1, <2>1, <3>1 DEF RelativeOffsets, Offsets
  <2>3. SizeOfFirst(b, j + 1) <= char_offset =>
          AnswersSearch(b, char_offset, loop[St(j + 1)])
    BY <2>1, <2>2
  <2> HIDE DEF j, T
  <2>4. loop[St(j)] = loop[IterateFind(b, St(j))]
    BY <1>1, <1>2, <1>3, <2>1
  <2>5. /\ IterateFind(b, St(j)) \in SearchState
        /\ \/ /\ IterateFind(b, St(j)) = St(j + 1)
              /\ SizeOfFirst(b, j + 1) <= char_offset
           \/ /\ IterateFind(b, St(j)).found
              /\ AnswersSearch(b, char_offset, IterateFind(b, St(j)))
    BY <2>1, IterationAt
  <2>6. QED
    BY <1>2, <2>3, <2>4, <2>5
<1> HIDE DEF T
<1>6. T = Nat
  BY <1>4, <1>5, SetInduction DEF T
<1>7. CASE s.found /\ AnswersSearch(b, char_offset, s)
  BY <1>2, <1>7
<1>8. ASSUME NEW j \in 0 .. n, j \in RelativeOffsets(b),
             SizeOfFirst(b, j) <= char_offset, s = St(j)
      PROVE  AnswersSearch(b, char_offset, loop[s])
  <2>1. n - j \in Nat /\ n - j <= n /\ n - (n - j) = j
    BY <1>1
  <2>2. QED
    BY <1>6, <1>8, <2>1 DEF T
<1>9. QED
  BY <1>7, <1>8

\* aesd_circular_buffer_find_entry_offset_for_fpos finds the entry and the byte
\* at char_offset characters into the log, and nothing from its end on.
LEMMA FindsPosition ==
  ASSUME NEW E, NEW b, Measured(b, E), NEW char_offset \in Nat
  PROVE  IF char_offset >= Total(b)
         THEN ~FindEntryOffsetForFpos(b, char_offset).found
         ELSE /\ FindEntryOffsetForFpos(b, char_offset).found
              /\ \E k \in 1 .. EntryArraySize(b) :
                   /\ FindEntryOffsetForFpos(b, char_offset).offset =
                        AbsoluteEntryOffset(b, k - 1)
                   /\ FindEntryOffsetForFpos(b, char_offset).byte =
                        char_offset - SizeOfFirst(b, k - 1)
                   /\ FindEntryOffsetForFpos(b, char_offset).byte
                        \in 0 .. Log(b)[k].size - 1
<1> DEFINE n == EntryArraySize(b)
           start == [offset |-> b.out_offs, remaining |-> char_offset,
                     found |-> FALSE]
           first == IF 0 < n THEN IterateFind(b, start) ELSE start
           loop == CHOOSE loop : IsSearchLoop(loop, b)
           end == loop[first]
           answer == FindEntryOffsetForFpos(b, char_offset)
<1>1. /\ n \in 0 .. Capacity /\ Capacity \in Nat /\ n \in Nat
      /\ b.out_offs \in Offsets /\ Capacity > 0
  BY EntryCount, CapacityAssumption DEF Measured, InOrder
<1>2. answer = IF end.found
               THEN [found |-> TRUE, offset |-> end.offset,
                     byte |-> end.remaining]
               ELSE NoOffset
  BY DEF FindEntryOffsetForFpos, SearchFrom, IsSearchLoop
<1>3. start = SearchAt(b, char_offset, 0) /\ SizeOfFirst(b, 0) <= char_offset
  <2>1. AbsoluteEntryOffset(b, 0) = b.out_offs
    BY <1>1, WrappedOffset, 0 \in 0 .. Capacity DEF Offsets
  <2>2. SizeOfFirst(b, 0) = 0
    BY SizeOfFirstStep
  <2>3. char_offset - 0 = char_offset /\ 0 <= char_offset
    OBVIOUS
  <2>4. QED
    BY <2>1, <2>2, <2>3 DEF SearchAt
<1>4. IsSearchLoop(loop, b)
  BY SearchLoopEnds
<1> HIDE DEF start, loop, answer
<1>5. /\ first \in SearchState
      /\ \/ first.found /\ AnswersSearch(b, char_offset, first)
         \/ \E j \in 0 .. n : /\ j \in RelativeOffsets(b)
                              /\ SizeOfFirst(b, j) <= char_offset
                              /\ first = SearchAt(b, char_offset, j)
  <2>1. CASE 0 < n
    <3>1. 0 \in 0 .. n - 1 /\ 0 + 1 = 1 /\ 1 \in 0 .. n
      BY <1>1, <2>1
    <3>2. 1 \in RelativeOffsets(b)
      <4>1. ~b.full => n \in Offsets
        BY EntryCount DEF Measured, InOrder
      <4>2. QED
        BY <1>1, <2>1, <4>1 DEF RelativeOffsets, Offsets
    <3>3. first = IterateFind(b, SearchAt(b, char_offset, 0))
      BY <1>3, <2>1
    <3>4. /\ first \in SearchState
          /\ \/ /\ first = SearchAt(b, char_offset, 0 + 1)
                /\ SizeOfFirst(b, 0 + 1) <= char_offset
             \/ /\ first.found
                /\ AnswersSearch(b, char_offset, first)
      BY <1>3, <3>1, <3>3, IterationAt
    <3>5. QED
      BY <3>1, <3>2, <3>4
  <2>2. CASE ~ 0 < n
    <3>1. n = 0 /\ 0 \in 0 .. n
      BY <1>1, <2>2
    <3>2. ~b.full /\ 0 \in RelativeOffsets(b)
      BY <1>1, <3>1, EntryCount DEF Measured, RelativeOffsets, Offsets
    <3>3. first = SearchAt(b, char_offset, 0)
      BY <1>3, <2>2
    <3>4. first \in SearchState
      BY <1>1, <2>2 DEF start, SearchState
    <3>5. QED
      BY <1>3, <3>1, <3>2, <3>3, <3>4
  <2>3. QED
    BY <2>1, <2>2
<1> HIDE DEF first
<1>6. AnswersSearch(b, char_offset, end)
  BY <1>4, <1>5, SearchLoopAnswers
<1> HIDE DEF end
<1>7. CASE ~end.found
  <2>1. ~answer.found
    BY <1>2, <1>7 DEF NoOffset
  <2>2. Total(b) <= char_offset /\ Total(b) \in Nat
    BY <1>1, <1>6, <1>7, SizeOfFirstStep DEF AnswersSearch, Total
  <2>3. QED
    BY <2>1, <2>2 DEF answer
<1>8. CASE end.found
  <2>1. PICK j \in 0 .. n - 1 :
               /\ end.offset = AbsoluteEntryOffset(b, j)
               /\ end.remaining = char_offset - SizeOfFirst(b, j)
               /\ end.remaining \in Nat /\ end.remaining < Slot(b, j).size
    BY <1>6, <1>8 DEF AnswersSearch
  <2>2. answer.found /\ answer.offset = end.offset /\ answer.byte = end.remaining
    BY <1>2, <1>8
  <2>3. j + 1 \in 1 .. n /\ (j + 1) - 1 = j /\ j + 1 \in 0 .. n /\ j \in 0 .. n
    BY <1>1
  <2>4. /\ Slot(b, j).size \in Nat /\ Log(b)[j + 1] = Slot(b, j)
        /\ SizeOfFirst(b, j + 1) = SizeOfFirst(b, j) + Slot(b, j).size
        /\ SizeOfFirst(b, j) \in Nat /\ SizeOfFirst(b, n) \in Nat
    BY <1>1, <2>3, SlotIsEntry, SizeOfFirstStep
  <2>5. SizeOfFirst(b, j + 1) <= SizeOfFirst(b, n)
    BY <1>1, <2>3, SizeGrows
  <2>6. ~ char_offset >= Total(b)
    BY <2>1, <2>4, <2>5 DEF Total
  <2>7. answer.byte \in 0 .. Log(b)[j + 1].size - 1
    BY <2>1, <2>2, <2>4
  <2>8. QED
    BY <2>1, <2>2, <2>3, <2>6, <2>7 DEF answer
<1>9. QED
  BY <1>7, <1>8

=============================================================================

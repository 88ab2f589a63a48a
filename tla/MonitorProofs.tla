---------------------------- MODULE MonitorProofs ----------------------------
(***************************************************************************)
(* Proofs about the readers-writers monitor, for any finite set of         *)
(* threads.  The inductive invariant is MonitorInv of MonitorProps.tla.    *)
(***************************************************************************)
EXTENDS MonitorProps, FiniteSetTheorems, TLAPS

\* The threads at some places of the monitor form a finite set, which is empty
\* exactly when it counts zero.
LEMMA ThreadsAtFinite ==
  ASSUME NEW S
  PROVE  /\ IsFiniteSet(ThreadsAt(S))
         /\ Cardinality(ThreadsAt(S)) \in Nat
         /\ Cardinality(ThreadsAt(S)) = 0 <=> ThreadsAt(S) = {}
BY ThreadsAssumption, FS_Subset, FS_CardinalityType, FS_EmptySet DEF ThreadsAt

\* How one thread's move changes the count of the threads at a set of places.
LEMMA MoveCount ==
  ASSUME NEW S, NEW t \in Threads, NEW from, NEW to,
         at \in [Threads -> Places], Move(t, from, to)
  PROVE  /\ from \notin S /\ to \in S =>
              Cardinality(ThreadsAt(S)') = Cardinality(ThreadsAt(S)) + 1
         /\ from \in S /\ to \notin S =>
              Cardinality(ThreadsAt(S)') = Cardinality(ThreadsAt(S)) - 1
         /\ (from \in S <=> to \in S) => ThreadsAt(S)' = ThreadsAt(S)
<1>1. ASSUME from \notin S, to \in S
      PROVE  Cardinality(ThreadsAt(S)') = Cardinality(ThreadsAt(S)) + 1
  <2>1. ThreadsAt(S)' = ThreadsAt(S) \cup {t} /\ t \notin ThreadsAt(S)
    BY <1>1 DEF ThreadsAt, Move
  <2>2. QED
    BY <2>1, ThreadsAtFinite, FS_AddElement
<1>2. ASSUME from \in S, to \notin S
      PROVE  Cardinality(ThreadsAt(S)') = Cardinality(ThreadsAt(S)) - 1
  <2>1. ThreadsAt(S)' = ThreadsAt(S) \ {t} /\ t \in ThreadsAt(S)
    BY <1>2 DEF ThreadsAt, Move
  <2>2. QED
    BY <2>1, ThreadsAtFinite, FS_RemoveElement
<1>3. ASSUME from \in S <=> to \in S
      PROVE  ThreadsAt(S)' = ThreadsAt(S)
  BY <1>3 DEF ThreadsAt, Move
<1>4. QED
  BY <1>1, <1>2, <1>3

\* The counter of a set of places is positive exactly when a thread is there.
LEMMA CountPositive ==
  ASSUME NEW S
  PROVE  Cardinality(ThreadsAt(S)) > 0 <=> \E t \in Threads : at[t] \in S
BY ThreadsAtFinite DEF ThreadsAt

-----------------------------------------------------------------------------
\* monitor_initialize zeroes the counters while nobody is inside.
LEMMA CountersInit == Init => CountersMatch
<1> SUFFICES ASSUME Init PROVE CountersMatch
  OBVIOUS
<1>1. \A S : "outside" \notin S => ThreadsAt(S) = {}
  BY DEF Init, ThreadsAt
<1>2. \A S : "outside" \notin S => Cardinality(ThreadsAt(S)) = 0
  BY <1>1, FS_EmptySet
<1>3. QED
  BY <1>2 DEF Init, CountersMatch

\* Every step pairs the move of a thread with the matching increment and
\* decrement of the counters of monitor_t.
LEMMA CountersStep ==
  ASSUME TypeOK, CountersMatch, Next
  PROVE  CountersMatch'
<1> DEFINE AR == {"wake_readers", "reading"}
           AW == {"writing"}
           WR == {"wait_can_read"}
           WW == {"wait_can_write"}
<1> USE DEF TypeOK, CountersMatch, counters
<1>0. PICK t \in Threads : Call(t) \/ Step(t) \/ SpuriousWakeup(t)
  BY DEF Next
<1>1. /\ Cardinality(ThreadsAt(AR)) \in Nat
      /\ Cardinality(ThreadsAt(AW)) \in Nat
      /\ Cardinality(ThreadsAt(WR)) \in Nat
      /\ Cardinality(ThreadsAt(WW)) \in Nat
  BY ThreadsAtFinite
<1>2. CASE Call(t)
  <2>1. PICK to \in {"start_reading", "start_writing"} : Move(t, "outside", to)
    BY <1>2 DEF Call
  <2>2. /\ ThreadsAt(AR)' = ThreadsAt(AR) /\ ThreadsAt(AW)' = ThreadsAt(AW)
        /\ ThreadsAt(WR)' = ThreadsAt(WR) /\ ThreadsAt(WW)' = ThreadsAt(WW)
    <3>1. /\ "outside" \notin AR /\ "outside" \notin AW
          /\ "outside" \notin WR /\ "outside" \notin WW
          /\ to \notin AR /\ to \notin AW /\ to \notin WR /\ to \notin WW
      OBVIOUS
    <3>2. QED
      BY <2>1, <3>1, MoveCount
  <2>3. QED
    BY <1>2, <2>2 DEF Call
<1>3. CASE StartReading(t)
  <2>1. Move(t, "start_reading", "wake_readers")
    BY <1>3 DEF StartReading
  <2>2. /\ Cardinality(ThreadsAt(AR)') = Cardinality(ThreadsAt(AR)) + 1
        /\ ThreadsAt(AW)' = ThreadsAt(AW)
        /\ ThreadsAt(WR)' = ThreadsAt(WR) /\ ThreadsAt(WW)' = ThreadsAt(WW)
    BY <2>1, MoveCount
  <2>3. QED
    BY <1>3, <2>2 DEF StartReading
<1>4. CASE WaitToRead(t)
  <2>1. Move(t, "start_reading", "wait_can_read")
    BY <1>4 DEF WaitToRead
  <2>2. /\ Cardinality(ThreadsAt(WR)') = Cardinality(ThreadsAt(WR)) + 1
        /\ ThreadsAt(AR)' = ThreadsAt(AR) /\ ThreadsAt(AW)' = ThreadsAt(AW)
        /\ ThreadsAt(WW)' = ThreadsAt(WW)
    BY <2>1, MoveCount
  <2>3. QED
    BY <1>4, <2>2 DEF WaitToRead
<1>5. CASE ReturnFromCanRead(t)
  <2>1. Move(t, "wait_can_read", "wake_readers")
    BY <1>5 DEF ReturnFromCanRead
  <2>2. /\ Cardinality(ThreadsAt(WR)') = Cardinality(ThreadsAt(WR)) - 1
        /\ Cardinality(ThreadsAt(AR)') = Cardinality(ThreadsAt(AR)) + 1
        /\ ThreadsAt(AW)' = ThreadsAt(AW) /\ ThreadsAt(WW)' = ThreadsAt(WW)
    BY <2>1, MoveCount
  <2>3. QED
    BY <1>5, <2>2 DEF ReturnFromCanRead
<1>6. CASE BroadcastCanRead(t)
  <2>1. Move(t, "wake_readers", "reading")
    BY <1>6 DEF BroadcastCanRead
  <2>2. /\ ThreadsAt(AR)' = ThreadsAt(AR) /\ ThreadsAt(AW)' = ThreadsAt(AW)
        /\ ThreadsAt(WR)' = ThreadsAt(WR) /\ ThreadsAt(WW)' = ThreadsAt(WW)
    BY <2>1, MoveCount
  <2>3. QED
    BY <1>6, <2>2 DEF BroadcastCanRead
<1>7. CASE StopReading(t)
  <2>1. Move(t, "reading", "outside")
    BY <1>7 DEF StopReading
  <2>2. /\ Cardinality(ThreadsAt(AR)') = Cardinality(ThreadsAt(AR)) - 1
        /\ ThreadsAt(AW)' = ThreadsAt(AW)
        /\ ThreadsAt(WR)' = ThreadsAt(WR) /\ ThreadsAt(WW)' = ThreadsAt(WW)
    BY <2>1, MoveCount
  <2>3. QED
    BY <1>7, <2>2 DEF StopReading
<1>8. CASE StartWriting(t)
  <2>1. Move(t, "start_writing", "writing")
    BY <1>8 DEF StartWriting
  <2>2. /\ Cardinality(ThreadsAt(AW)') = Cardinality(ThreadsAt(AW)) + 1
        /\ ThreadsAt(AR)' = ThreadsAt(AR)
        /\ ThreadsAt(WR)' = ThreadsAt(WR) /\ ThreadsAt(WW)' = ThreadsAt(WW)
    BY <2>1, MoveCount
  <2>3. QED
    BY <1>8, <2>2 DEF StartWriting
<1>9. CASE WaitToWrite(t)
  <2>1. Move(t, "start_writing", "wait_can_write")
    BY <1>9 DEF WaitToWrite
  <2>2. /\ Cardinality(ThreadsAt(WW)') = Cardinality(ThreadsAt(WW)) + 1
        /\ ThreadsAt(AR)' = ThreadsAt(AR) /\ ThreadsAt(AW)' = ThreadsAt(AW)
        /\ ThreadsAt(WR)' = ThreadsAt(WR)
    BY <2>1, MoveCount
  <2>3. QED
    BY <1>9, <2>2 DEF WaitToWrite
<1>10. CASE ReturnFromCanWrite(t)
  <2>1. Move(t, "wait_can_write", "writing")
    BY <1>10 DEF ReturnFromCanWrite
  <2>2. /\ Cardinality(ThreadsAt(WW)') = Cardinality(ThreadsAt(WW)) - 1
        /\ Cardinality(ThreadsAt(AW)') = Cardinality(ThreadsAt(AW)) + 1
        /\ ThreadsAt(AR)' = ThreadsAt(AR) /\ ThreadsAt(WR)' = ThreadsAt(WR)
    BY <2>1, MoveCount
  <2>3. QED
    BY <1>10, <2>2 DEF ReturnFromCanWrite
<1>11. CASE StopWriting(t)
  <2>1. Move(t, "writing", "outside")
    BY <1>11 DEF StopWriting
  <2>2. /\ Cardinality(ThreadsAt(AW)') = Cardinality(ThreadsAt(AW)) - 1
        /\ ThreadsAt(AR)' = ThreadsAt(AR)
        /\ ThreadsAt(WR)' = ThreadsAt(WR) /\ ThreadsAt(WW)' = ThreadsAt(WW)
    BY <2>1, MoveCount
  <2>3. QED
    BY <1>11, <2>2 DEF StopWriting
<1>12. CASE SpuriousWakeup(t)
  BY <1>12 DEF SpuriousWakeup, ThreadsAt
<1>13. QED
  BY <1>0, <1>2, <1>3, <1>4, <1>5, <1>6, <1>7, <1>8, <1>9, <1>10, <1>11, <1>12
     DEF Step

-----------------------------------------------------------------------------
\* monitor_initialize leaves every field in its type.
LEMMA TypeInit == Init => TypeOK
BY DEF Init, TypeOK, Places

\* The counters stay natural numbers because they stay counts of threads.
LEMMA TypeStep ==
  ASSUME TypeOK, CountersMatch, Next
  PROVE  TypeOK'
<1>1. CountersMatch'
  BY CountersStep
<1>2. /\ (active_readers \in Nat)'  /\ (active_writers \in Nat)'
      /\ (waiting_readers \in Nat)' /\ (waiting_writers \in Nat)'
  <2>1. \A S : Cardinality(ThreadsAt(S)') \in Nat
    <3>1. \A S : ThreadsAt(S)' \in SUBSET Threads
      BY DEF ThreadsAt
    <3>2. QED
      BY <3>1, ThreadsAssumption, FS_Subset, FS_CardinalityType
  <2>2. QED
    BY <1>1, <2>1 DEF CountersMatch
<1>3. PICK t \in Threads : Call(t) \/ Step(t) \/ SpuriousWakeup(t)
  BY DEF Next
<1>4. /\ (at \in [Threads -> Places])'
      /\ (can_read \subseteq ThreadsAt({"wait_can_read"}))'
      /\ (can_write \subseteq ThreadsAt({"wait_can_write"}))'
  <2> USE DEF TypeOK, ThreadsAt, Places, ReaderPlaces, WriterPlaces, Move
  <2>1. CASE Call(t)
    BY <2>1 DEF Call
  <2>2. CASE StartReading(t)
    BY <2>2 DEF StartReading
  <2>3. CASE WaitToRead(t)
    BY <2>3 DEF WaitToRead
  <2>4. CASE ReturnFromCanRead(t)
    BY <2>4 DEF ReturnFromCanRead
  <2>5. CASE BroadcastCanRead(t)
    BY <2>5 DEF BroadcastCanRead
  <2>6. CASE StopReading(t)
    BY <2>6 DEF StopReading
  <2>7. CASE StartWriting(t)
    BY <2>7 DEF StartWriting
  <2>8. CASE WaitToWrite(t)
    BY <2>8 DEF WaitToWrite
  <2>9. CASE ReturnFromCanWrite(t)
    BY <2>9 DEF ReturnFromCanWrite
  <2>10. CASE StopWriting(t)
    BY <2>10 DEF StopWriting
  <2>11. CASE SpuriousWakeup(t)
    BY <2>11 DEF SpuriousWakeup
  <2>12. QED
    BY <1>3, <2>1, <2>2, <2>3, <2>4, <2>5, <2>6, <2>7, <2>8, <2>9, <2>10,
       <2>11 DEF Step
<1>5. QED
  BY <1>2, <1>4 DEF TypeOK

\* monitor_stop_writing wakes the readers it keeps waiting, so a sleeping
\* reader always has a writer to wait for.
LEMMA ReaderHasWriterStep ==
  ASSUME TypeOK, CountersMatch, BlockedReaderHasWriter, Next
  PROVE  BlockedReaderHasWriter'
<1> USE DEF BlockedReaderHasWriter, TypeOK
<1>0. PICK t \in Threads : Call(t) \/ Step(t) \/ SpuriousWakeup(t)
  BY DEF Next
<1>1. can_read # {} => waiting_readers > 0
  BY CountPositive DEF CountersMatch, ThreadsAt
<1>2. CASE Call(t) \/ BroadcastCanRead(t) \/ SpuriousWakeup(t)
  BY <1>2 DEF Call, BroadcastCanRead, SpuriousWakeup, counters
<1>3. CASE StartReading(t) \/ StopReading(t) \/ ReturnFromCanRead(t)
  BY <1>3 DEF StartReading, StopReading, ReturnFromCanRead
<1>4. CASE WaitToRead(t)
  BY <1>4 DEF WaitToRead, ReaderMustWait
<1>5. CASE StartWriting(t) \/ WaitToWrite(t) \/ ReturnFromCanWrite(t)
  BY <1>5 DEF StartWriting, WaitToWrite, ReturnFromCanWrite
<1>6. CASE StopWriting(t)
  BY <1>1, <1>6 DEF StopWriting
<1>7. QED
  BY <1>0, <1>2, <1>3, <1>4, <1>5, <1>6 DEF Step

\* Every waiting thread is asleep on its condition or already woken, and a
\* sleeping writer has someone active or woken: so if anyone waits, someone
\* inside the monitor can still move.
LEMMA WaitingHasWaker ==
  ASSUME MonitorInv, waiting_readers > 0 \/ waiting_writers > 0
                     \/ active_readers > 0 \/ active_writers > 0
  PROVE  \E t \in Threads : Active(t) \/ WokenReader(t) \/ WokenWriter(t)
<1> USE DEF MonitorInv, CountersMatch
<1>1. CASE active_readers > 0
  BY <1>1, CountPositive DEF Active, ActiveReader
<1>2. CASE active_writers > 0
  BY <1>2, CountPositive DEF Active, ActiveWriter
<1>3. CASE waiting_writers > 0
  <2>1. PICK u \in Threads : at[u] = "wait_can_write"
    BY <1>3, CountPositive
  <2>2. CASE u \in can_write
    BY <2>2 DEF BlockedWriterHasWaker
  <2>3. CASE u \notin can_write
    BY <2>1, <2>3 DEF WokenWriter
  <2>4. QED
    BY <2>2, <2>3
<1>4. CASE waiting_readers > 0
  <2>1. PICK u \in Threads : at[u] = "wait_can_read"
    BY <1>4, CountPositive
  <2>2. CASE u \in can_read
    BY <2>2, <1>2, <1>3 DEF BlockedReaderHasWriter
  <2>3. CASE u \notin can_read
    BY <2>1, <2>3 DEF WokenReader
  <2>4. QED
    BY <2>2, <2>3
<1>5. QED
  BY <1>1, <1>2, <1>3, <1>4

\* No step leaves a sleeping writer with everybody else asleep or gone: the
\* last one out wakes the readers it kept waiting, or else the writers.
LEMMA WriterHasWakerStep ==
  ASSUME MonitorInv, Next
  PROVE  BlockedWriterHasWaker'
<1> DEFINE Mover(u) == Active(u) \/ WokenReader(u) \/ WokenWriter(u)
<1> USE DEF MonitorInv, TypeOK
<1>0. PICK t \in Threads : Call(t) \/ Step(t) \/ SpuriousWakeup(t)
  BY DEF Next
<1>1. SUFFICES ASSUME can_write' # {}
               PROVE  \E u \in Threads : Mover(u)'
  BY DEF BlockedWriterHasWaker
<1>2. ASSUME NEW u \in Threads, u # t, Mover(u),
             at'[u] = at[u], can_read' \subseteq can_read \cup {t},
             can_write' \subseteq can_write \cup {t}
      PROVE  Mover(u)'
  BY <1>2 DEF Active, ActiveReader, ActiveWriter, WokenReader, WokenWriter
<1>3. CASE Call(t)
  <2>1. PICK u \in Threads : Mover(u)
    BY <1>1, <1>3 DEF Call, BlockedWriterHasWaker
  <2>2. u # t
    BY <1>3, <2>1 DEF Call, Move, Active, ActiveReader, ActiveWriter,
                      WokenReader, WokenWriter
  <2>3. QED
    BY <1>2, <1>3, <2>1, <2>2 DEF Call, Move
<1>4. CASE \/ StartReading(t) \/ ReturnFromCanRead(t) \/ BroadcastCanRead(t)
           \/ StartWriting(t) \/ ReturnFromCanWrite(t)
  <2>1. Active(t)'
    BY <1>4 DEF StartReading, ReturnFromCanRead, BroadcastCanRead,
                StartWriting, ReturnFromCanWrite, Move,
                Active, ActiveReader, ActiveWriter
  <2>2. QED
    BY <2>1
<1>5. CASE WaitToRead(t)
  <2>1. PICK u \in Threads : Mover(u)
    BY <1>5, WaitingHasWaker DEF WaitToRead, ReaderMustWait
  <2>2. u # t
    BY <1>5, <2>1 DEF WaitToRead, Move, Active, ActiveReader, ActiveWriter,
                      WokenReader, WokenWriter
  <2>3. QED
    BY <1>2, <1>5, <2>1, <2>2 DEF WaitToRead, Move
<1>6. CASE WaitToWrite(t)
  <2>1. PICK u \in Threads : Mover(u)
    BY <1>6, WaitingHasWaker DEF WaitToWrite, WriterMustWait
  <2>2. u # t
    BY <1>6, <2>1 DEF WaitToWrite, Move, Active, ActiveReader, ActiveWriter,
                      WokenReader, WokenWriter
  <2>3. QED
    BY <1>2, <1>6, <2>1, <2>2 DEF WaitToWrite, Move
<1>7. CASE StopReading(t)
  <2>1. active_readers' > 0
    BY <1>1, <1>7, TypeStep DEF StopReading
  <2>2. PICK u \in Threads : ActiveReader(u)'
    <3>1. CountersMatch'
      BY CountersStep
    <3>2. \E u \in Threads : (at[u] \in {"wake_readers", "reading"})'
      <4>1. Cardinality(ThreadsAt({"wake_readers", "reading"})') > 0
        BY <2>1, <3>1 DEF CountersMatch
      <4>2. ThreadsAt({"wake_readers", "reading"})' # {}
        BY <4>1, FS_EmptySet
      <4>3. QED
        BY <4>2 DEF ThreadsAt
    <3>3. QED
      BY <3>2 DEF ActiveReader
  <2>3. QED
    BY <2>2 DEF Active
<1>8. CASE StopWriting(t)
  <2>1. CASE active_writers' > 0
    <3>1. Cardinality(ThreadsAt({"writing"})') > 0
      BY <2>1, CountersStep DEF CountersMatch
    <3>2. ThreadsAt({"writing"})' # {}
      BY <3>1, FS_EmptySet
    <3>3. QED
      BY <3>2 DEF ThreadsAt, Active, ActiveWriter
  <2>2. CASE active_writers' = 0
    <3>1. waiting_writers > 0
      BY <1>1, <1>8, CountPositive DEF StopWriting, CountersMatch, ThreadsAt
    <3>2. waiting_readers > 0 /\ can_read' = {}
      BY <1>1, <1>8, <2>2, <3>1 DEF StopWriting
    <3>3. PICK u \in Threads : at[u] = "wait_can_read"
      BY <3>2, CountPositive DEF CountersMatch
    <3>4. WokenReader(u)'
      BY <1>8, <3>2, <3>3 DEF StopWriting, Move, WokenReader
    <3>5. QED
      BY <3>4
  <2>3. QED
    BY <2>1, <2>2, TypeStep
<1>9. CASE SpuriousWakeup(t)
  BY <1>1, <1>9 DEF SpuriousWakeup, BlockedWriterHasWaker, Active,
     ActiveReader, ActiveWriter, WokenReader, WokenWriter
<1>10. QED
  BY <1>0, <1>3, <1>4, <1>5, <1>6, <1>7, <1>8, <1>9 DEF Step

-----------------------------------------------------------------------------
\* The inductive invariant of the monitor, for any finite set of threads.
THEOREM MonitorInvariant == Spec => []MonitorInv
<1>1. Init => MonitorInv
  BY TypeInit, CountersInit
     DEF MonitorInv, Init, BlockedReaderHasWriter, BlockedWriterHasWaker
<1>2. MonitorInv /\ [Next]_vars => MonitorInv'
  <2>1. ASSUME MonitorInv, Next PROVE MonitorInv'
    BY <2>1, TypeStep, CountersStep, ReaderHasWriterStep, WriterHasWakerStep
       DEF MonitorInv
  <2>2. ASSUME MonitorInv, UNCHANGED vars PROVE MonitorInv'
    BY <2>2 DEF vars, counters, MonitorInv, TypeOK, CountersMatch, ThreadsAt,
       BlockedReaderHasWriter, BlockedWriterHasWaker, Active, ActiveReader,
       ActiveWriter, WokenReader, WokenWriter
  <2>3. QED
    BY <2>1, <2>2
<1>3. QED
  BY <1>1, <1>2, PTL DEF Spec

\* The variables of the monitor keep their types in every behaviour.
THEOREM TypeCorrect == Spec => []TypeOK
BY MonitorInvariant, PTL DEF MonitorInv

\* The four counters of monitor_t always count the threads they are meant to.
THEOREM CountersCorrect == Spec => []CountersMatch
BY MonitorInvariant, PTL DEF MonitorInv

\* A thread blocked in pthread_cond_wait is never left with nobody to wake it.
THEOREM WakeupsNotLost == Spec => []NoLostWakeup
<1>1. MonitorInv => NoLostWakeup
  <2> SUFFICES ASSUME MonitorInv, can_read \cup can_write # {}
               PROVE  \E t \in Threads :
                        Active(t) \/ WokenReader(t) \/ WokenWriter(t)
    BY DEF NoLostWakeup
  <2>1. waiting_readers > 0 \/ waiting_writers > 0
    BY CountPositive DEF MonitorInv, TypeOK, CountersMatch, ThreadsAt
  <2>2. QED
    BY <2>1, WaitingHasWaker
<1>2. QED
  BY <1>1, MonitorInvariant, PTL

-----------------------------------------------------------------------------
\* A thread enters only while fewer than MaxInside are inside.
LEMMA AtMostTwoStep ==
  ASSUME MaxInside <= 2, TypeOK, AtMostTwoInside, Next
  PROVE  AtMostTwoInside'
<1> USE DEF AtMostTwoInside, TypeOK
<1>0. PICK t \in Threads : Call(t) \/ Step(t) \/ SpuriousWakeup(t)
  BY DEF Next
<1>1. CASE Call(t)
  <2>1. ASSUME NEW u \in Threads, NEW v \in Threads, u # v,
               at[u] # "outside", at[v] # "outside"
        PROVE  FALSE
    <3>1. {u, v} \subseteq Inside
      BY <2>1 DEF Inside, ThreadsAt
    <3>2. Cardinality({u, v}) = 2
      <4>1. IsFiniteSet({u}) /\ Cardinality({u}) = 1
        BY FS_Singleton
      <4>2. {u, v} = {u} \cup {v} /\ v \notin {u}
        BY <2>1
      <4>3. Cardinality({u} \cup {v}) = Cardinality({u}) + 1
        BY <4>1, <4>2, FS_AddElement
      <4>4. QED
        BY <4>1, <4>2, <4>3
    <3>3. Cardinality({u, v}) <= Cardinality(Inside)
      BY <3>1, ThreadsAtFinite, FS_Subset DEF Inside
    <3>4. QED
      BY <1>1, <3>2, <3>3, ThreadsAtFinite, MaxInsideAssumption
         DEF Call, Inside
  <2>2. \A u \in Threads : u # t => at'[u] = at[u]
    BY <1>1 DEF Call, Move
  <2>3. QED
    BY <2>1, <2>2
<1>2. CASE SpuriousWakeup(t)
  BY <1>2 DEF SpuriousWakeup
<1>3. CASE Step(t)
  <2>1. \A u \in Threads : at[u] = "outside" => at'[u] = "outside"
    BY <1>3 DEF Step, StartReading, WaitToRead, ReturnFromCanRead,
       BroadcastCanRead, StopReading, StartWriting, WaitToWrite,
       ReturnFromCanWrite, StopWriting, Move
  <2>2. QED
    BY <2>1
<1>4. QED
  BY <1>0, <1>1, <1>2, <1>3

\* With two threads inside, the one that leaves wakes at most one other, and a
\* reader's broadcast wakes readers only.
LEMMA GrantExclusionStep ==
  ASSUME SpuriousWakeups = FALSE, TwoThreadInv, Next
  PROVE  GrantExclusion'
<1> USE DEF TwoThreadInv, MonitorInv, TypeOK, Granted, Active, ActiveReader,
            ActiveWriter, WokenReader, WokenWriter
<1>0. PICK t \in Threads : Call(t) \/ Step(t) \/ SpuriousWakeup(t)
  BY DEF Next
<1>1. \A u \in Threads :
        /\ ActiveReader(u) => active_readers > 0
        /\ ActiveWriter(u) => active_writers > 0
        /\ at[u] = "wait_can_read" => waiting_readers > 0
        /\ at[u] = "wait_can_write" => waiting_writers > 0
  BY CountPositive DEF CountersMatch
<1>2. SUFFICES ASSUME NEW u \in Threads, NEW v \in Threads, u # v,
                      Granted(u)', Granted(v)'
               PROVE  (ActiveReader(u) \/ WokenReader(u))'
  BY DEF GrantExclusion
<1>3. CASE Call(t)
  BY <1>2, <1>3 DEF Call, Move, GrantExclusion
<1>4. CASE StartReading(t)
  BY <1>1, <1>2, <1>4 DEF StartReading, ReaderMustWait, Move, GrantExclusion
<1>5. CASE WaitToRead(t)
  BY <1>2, <1>5 DEF WaitToRead, Move, GrantExclusion
<1>6. CASE ReturnFromCanRead(t)
  BY <1>2, <1>6 DEF ReturnFromCanRead, Move, GrantExclusion
<1>7. CASE BroadcastCanRead(t)
  BY <1>2, <1>7 DEF BroadcastCanRead, Move, GrantExclusion
<1>8. CASE StartWriting(t)
  BY <1>1, <1>2, <1>8 DEF StartWriting, WriterMustWait, Move, GrantExclusion
<1>9. CASE WaitToWrite(t)
  BY <1>2, <1>9 DEF WaitToWrite, Move, GrantExclusion
<1>10. CASE ReturnFromCanWrite(t)
  BY <1>2, <1>10 DEF ReturnFromCanWrite, Move, GrantExclusion
<1>11. CASE StopReading(t) \/ StopWriting(t)
  <2>1. /\ at[t] # "outside" /\ at'[t] = "outside"
        /\ \A w \in Threads : w # t => at'[w] = at[w]
    BY <1>11 DEF StopReading, StopWriting, Move
  <2>2. u # t /\ v # t /\ at[u] # "outside" /\ at[v] # "outside"
    BY <1>2, <2>1
  <2>3. QED
    BY <1>2, <2>1, <2>2 DEF AtMostTwoInside
<1>12. CASE SpuriousWakeup(t)
  BY <1>12 DEF SpuriousWakeup
<1>13. QED
  BY <1>0, <1>3, <1>4, <1>5, <1>6, <1>7, <1>8, <1>9, <1>10, <1>11, <1>12
     DEF Step

\* While one thread writes the others neither read nor write, as long as no
\* more than two threads are in the monitor at once and pthread_cond_wait
\* returns only when signalled.  Both premises are needed: with three threads,
\* or with one spurious return, TLC finds two active writers.
THEOREM TwoThreadExclusion ==
  ASSUME MaxInside <= 2, SpuriousWakeups = FALSE
  PROVE  Spec => []WriterExclusion
<1>1. Init => TwoThreadInv
  <2>1. Init => MonitorInv
    BY TypeInit, CountersInit
       DEF MonitorInv, Init, BlockedReaderHasWriter, BlockedWriterHasWaker
  <2>2. Init => AtMostTwoInside /\ GrantExclusion
    BY DEF Init, AtMostTwoInside, GrantExclusion, Granted, Active,
       ActiveReader, ActiveWriter, WokenReader, WokenWriter
  <2>3. QED
    BY <2>1, <2>2 DEF TwoThreadInv
<1>2. TwoThreadInv /\ [Next]_vars => TwoThreadInv'
  <2>1. ASSUME TwoThreadInv, Next PROVE TwoThreadInv'
    BY <2>1, TypeStep, CountersStep, ReaderHasWriterStep, WriterHasWakerStep,
       AtMostTwoStep, GrantExclusionStep DEF TwoThreadInv, MonitorInv
  <2>2. ASSUME TwoThreadInv, UNCHANGED vars PROVE TwoThreadInv'
    BY <2>2 DEF vars, counters, TwoThreadInv, MonitorInv, TypeOK,
       CountersMatch, ThreadsAt, BlockedReaderHasWriter,
       BlockedWriterHasWaker, AtMostTwoInside, GrantExclusion, Granted,
       Active, ActiveReader, ActiveWriter, WokenReader, WokenWriter
  <2>3. QED
    BY <2>1, <2>2
<1>3. TwoThreadInv => WriterExclusion
  <2> SUFFICES ASSUME TwoThreadInv, active_writers > 0
               PROVE  active_writers = 1 /\ active_readers = 0
    BY DEF WriterExclusion
  <2> USE DEF TwoThreadInv, MonitorInv, CountersMatch
  <2>1. PICK w \in Threads : at[w] = "writing"
    BY CountPositive
  <2>2. \A u \in Threads : u # w => ~Active(u)
    BY <2>1 DEF GrantExclusion, Granted, Active, ActiveReader, ActiveWriter,
                WokenReader
  <2>3. ThreadsAt({"writing"}) = {w}
    BY <2>1, <2>2 DEF ThreadsAt, Active, ActiveWriter
  <2>4. ThreadsAt({"wake_readers", "reading"}) = {}
    BY <2>1, <2>2 DEF ThreadsAt, Active, ActiveReader
  <2>5. QED
    BY <2>3, <2>4, FS_EmptySet, FS_Singleton
<1>4. QED
  BY <1>1, <1>2, <1>3, PTL DEF Spec

=============================================================================

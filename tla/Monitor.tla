------------------------------- MODULE Monitor -------------------------------
(***************************************************************************)
(* The readers-writers monitor of the socket server (server/src/monitor.c) *)
(* that serialises access to the data file between the main thread (time   *)
(* stamps) and the connection threads (received lines, read-back).         *)
(*                                                                         *)
(* Every field of monitor_t is only touched with condition_lock held, so   *)
(* the code from pthread_mutex_lock to the next pthread_cond_wait or       *)
(* pthread_mutex_unlock is one atomic step here: taking the step is owning *)
(* the mutex.  What is NOT atomic in the code stays separate:              *)
(*   - blocking in pthread_cond_wait, being woken, and getting the mutex   *)
(*     back are three different moments;                                   *)
(*   - monitor_start_reading broadcasts can_read after releasing the lock. *)
(*                                                                         *)
(* The waits are guarded by "if", not "while": a woken thread goes on      *)
(* without looking at the predicate again (ReturnFromCanRead and           *)
(* ReturnFromCanWrite have no guard on the counters).                      *)
(***************************************************************************)
EXTENDS Integers, FiniteSets

CONSTANTS
  Threads,          \* the threads that share the monitor
  MaxInside,        \* how many of them are inside its functions at a time
  SpuriousWakeups   \* may pthread_cond_wait return unsignalled (POSIX: yes)

ASSUME ThreadsAssumption   == IsFiniteSet(Threads)
ASSUME MaxInsideAssumption == MaxInside \in Nat
ASSUME SpuriousAssumption  == SpuriousWakeups \in BOOLEAN

VARIABLES
  active_readers, active_writers,     \* the four counters of monitor_t
  waiting_readers, waiting_writers,
  can_read, can_write,  \* the threads each condition blocks, unsignalled
  at                    \* where each thread is in the monitor's functions

counters == <<active_readers, active_writers,
              waiting_readers, waiting_writers>>
vars == <<counters, can_read, can_write, at>>

(***************************************************************************)
(* "outside" is a thread with no monitor call pending; start_reading and   *)
(* start_writing are calls that have not got the mutex yet; wait_can_* is  *)
(* a thread inside pthread_cond_wait; wake_readers is monitor_start_reading*)
(* after its unlock and before its broadcast; reading and writing are the  *)
(* caller's read() and write() sections.                                   *)
(***************************************************************************)
ReaderPlaces == {"start_reading", "wait_can_read", "wake_readers", "reading"}
WriterPlaces == {"start_writing", "wait_can_write", "writing"}
Places       == {"outside"} \cup ReaderPlaces \cup WriterPlaces

ThreadsAt(places) == {t \in Threads : at[t] \in places}
Inside            == ThreadsAt(Places \ {"outside"})

Move(t, from, to) ==
  /\ at[t] = from
  /\ at' = [at EXCEPT ![t] = to]

-----------------------------------------------------------------------------
\* monitor_initialize: all counters zero, nobody waiting.
Init ==
  /\ active_readers = 0  /\ active_writers = 0
  /\ waiting_readers = 0 /\ waiting_writers = 0
  /\ can_read = {} /\ can_write = {}
  /\ at = [t \in Threads |-> "outside"]

\* A thread calls monitor_start_reading or monitor_start_writing.  MaxInside
\* describes the callers (how many connections and time stamps are served at
\* once), not the monitor, which admits any number.
Call(t) ==
  /\ Cardinality(Inside) < MaxInside
  /\ \/ Move(t, "outside", "start_reading")
     \/ Move(t, "outside", "start_writing")
  /\ UNCHANGED <<counters, can_read, can_write>>

-----------------------------------------------------------------------------
(* monitor_start_reading *)

\* Mutant: a waiting writer does not hold back a new reader.
ReaderIgnoresWaitingWriters == active_writers > 0

ReaderMustWait == active_writers > 0 \/ waiting_writers > 0

\* Lock, find no writer active or waiting, count as active, unlock.
StartReading(t) ==
  /\ ~ReaderMustWait
  /\ Move(t, "start_reading", "wake_readers")
  /\ active_readers' = active_readers + 1
  /\ UNCHANGED <<active_writers, waiting_readers, waiting_writers,
                 can_read, can_write>>

\* Lock, find a writer, count as waiting and block on can_read.
WaitToRead(t) ==
  /\ ReaderMustWait
  /\ Move(t, "start_reading", "wait_can_read")
  /\ waiting_readers' = waiting_readers + 1
  /\ can_read' = can_read \cup {t}
  /\ UNCHANGED <<active_readers, active_writers, waiting_writers, can_write>>

\* Mutant: the increment before pthread_cond_wait is not undone after it.
ReturnStillCountedWaiting(t) ==
  /\ t \notin can_read
  /\ Move(t, "wait_can_read", "wake_readers")
  /\ active_readers' = active_readers + 1
  /\ UNCHANGED <<active_writers, waiting_readers, waiting_writers,
                 can_read, can_write>>

\* Woken and holding the mutex again: the predicate is not tested again.
ReturnFromCanRead(t) ==
  /\ t \notin can_read
  /\ Move(t, "wait_can_read", "wake_readers")
  /\ waiting_readers' = waiting_readers - 1
  /\ active_readers' = active_readers + 1
  /\ UNCHANGED <<active_writers, waiting_writers, can_read, can_write>>

\* The broadcast after the unlock.
BroadcastCanRead(t) ==
  /\ Move(t, "wake_readers", "reading")
  /\ can_read' = {}
  /\ UNCHANGED <<counters, can_write>>

(* monitor_stop_reading *)

\* Mutant: the last reader out does not broadcast can_write.
StopReadingSilently(t) ==
  /\ Move(t, "reading", "outside")
  /\ active_readers' = active_readers - 1
  /\ UNCHANGED <<active_writers, waiting_readers, waiting_writers,
                 can_read, can_write>>

StopReading(t) ==
  /\ Move(t, "reading", "outside")
  /\ active_readers' = active_readers - 1
  /\ can_write' = IF active_readers' = 0 THEN {} ELSE can_write
  /\ UNCHANGED <<active_writers, waiting_readers, waiting_writers, can_read>>

-----------------------------------------------------------------------------
(* monitor_start_writing *)

\* Mutant: a writer does not wait for the active writer.
WriterIgnoresWriter ==
  active_readers > 0 \/ waiting_readers > 0 \/ waiting_writers > 0

WriterMustWait ==
  \/ active_writers > 0  \/ active_readers > 0
  \/ waiting_readers > 0 \/ waiting_writers > 0

StartWriting(t) ==
  /\ ~WriterMustWait
  /\ Move(t, "start_writing", "writing")
  /\ active_writers' = active_writers + 1
  /\ UNCHANGED <<active_readers, waiting_readers, waiting_writers,
                 can_read, can_write>>

WaitToWrite(t) ==
  /\ WriterMustWait
  /\ Move(t, "start_writing", "wait_can_write")
  /\ waiting_writers' = waiting_writers + 1
  /\ can_write' = can_write \cup {t}
  /\ UNCHANGED <<active_readers, active_writers, waiting_readers, can_read>>

ReturnFromCanWrite(t) ==
  /\ t \notin can_write
  /\ Move(t, "wait_can_write", "writing")
  /\ waiting_writers' = waiting_writers - 1
  /\ active_writers' = active_writers + 1
  /\ UNCHANGED <<active_readers, waiting_readers, can_read, can_write>>

(* monitor_stop_writing: the last writer out wakes the waiting readers, and *)
(* the waiting writers only when no reader waits.                           *)

\* Mutant: the counter of the other kind of thread is decremented.
StopWritingAsReader(t) ==
  /\ Move(t, "writing", "outside")
  /\ active_readers' = active_readers - 1
  /\ UNCHANGED <<active_writers, waiting_readers, waiting_writers,
                 can_read, can_write>>

\* Mutant: waiting writers are woken in preference to waiting readers.
StopWritingWritersFirst(t) ==
  /\ Move(t, "writing", "outside")
  /\ active_writers' = active_writers - 1
  /\ can_write' = IF active_writers' = 0 /\ waiting_writers > 0
                  THEN {} ELSE can_write
  /\ can_read' = IF /\ active_writers' = 0
                    /\ waiting_writers = 0
                    /\ waiting_readers > 0
                 THEN {} ELSE can_read
  /\ UNCHANGED <<active_readers, waiting_readers, waiting_writers>>

StopWriting(t) ==
  /\ Move(t, "writing", "outside")
  /\ active_writers' = active_writers - 1
  /\ can_read' = IF active_writers' = 0 /\ waiting_readers > 0
                 THEN {} ELSE can_read
  /\ can_write' = IF /\ active_writers' = 0
                     /\ waiting_readers = 0
                     /\ waiting_writers > 0
                  THEN {} ELSE can_write
  /\ UNCHANGED <<active_readers, waiting_readers, waiting_writers>>

-----------------------------------------------------------------------------
\* pthread_cond_wait may return without a signal; the thread then competes
\* for the mutex like a signalled one.
SpuriousWakeup(t) ==
  /\ SpuriousWakeups
  /\ t \in can_read \cup can_write
  /\ can_read' = can_read \ {t}
  /\ can_write' = can_write \ {t}
  /\ UNCHANGED <<counters, at>>

\* The steps of the monitor's own functions.
Step(t) ==
  \/ StartReading(t) \/ WaitToRead(t) \/ ReturnFromCanRead(t)
  \/ BroadcastCanRead(t) \/ StopReading(t)
  \/ StartWriting(t) \/ WaitToWrite(t) \/ ReturnFromCanWrite(t)
  \/ StopWriting(t)

Next == \E t \in Threads : Call(t) \/ Step(t) \/ SpuriousWakeup(t)

Spec == Init /\ [][Next]_vars

(***************************************************************************)
(* A thread inside the monitor keeps running: the scheduler does not stop  *)
(* it, the mutex is eventually granted to a thread that asks for it, and   *)
(* the read() or write() between start and stop returns.  Nothing forces a *)
(* thread to call the monitor, and no wakeup is ever promised spuriously.  *)
(***************************************************************************)
FairSpec == Spec /\ \A t \in Threads : WF_vars(Step(t))

=============================================================================

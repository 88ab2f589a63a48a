---------------------------- MODULE MonitorProps ----------------------------
(***************************************************************************)
(* What the readers-writers monitor of Monitor.tla promises, and what it   *)
(* does not.                                                               *)
(***************************************************************************)
EXTENDS Monitor

ActiveReader(t) == at[t] \in {"wake_readers", "reading"}
ActiveWriter(t) == at[t] = "writing"
Active(t)       == ActiveReader(t) \/ ActiveWriter(t)

\* Woken (or spuriously returned) but not yet holding the mutex again.
WokenReader(t) == at[t] = "wait_can_read" /\ t \notin can_read
WokenWriter(t) == at[t] = "wait_can_write" /\ t \notin can_write

\* The monitor's variables have their types; the counters are "unsigned" in
\* the code and are never taken below zero by a decrement.
TypeOK ==
  /\ active_readers \in Nat  /\ active_writers \in Nat
  /\ waiting_readers \in Nat /\ waiting_writers \in Nat
  /\ at \in [Threads -> Places]
  /\ can_read \subseteq ThreadsAt({"wait_can_read"})
  /\ can_write \subseteq ThreadsAt({"wait_can_write"})

\* Each counter of monitor_t is the number of threads in the sections it
\* counts, through every wait, wakeup and return: increments and decrements of
\* monitor.c pair up and no "unsigned" counter can wrap below zero.
CountersMatch ==
  /\ active_readers  = Cardinality(ThreadsAt({"wake_readers", "reading"}))
  /\ active_writers  = Cardinality(ThreadsAt({"writing"}))
  /\ waiting_readers = Cardinality(ThreadsAt({"wait_can_read"}))
  /\ waiting_writers = Cardinality(ThreadsAt({"wait_can_write"}))

\* No lost wakeup: whenever a thread is blocked on can_read or can_write, some
\* thread inside the monitor is not blocked, so the wakeup that monitor_stop_*
\* owes the blocked one can still come.  The waits of monitor.c never end with
\* every thread asleep.
NoLostWakeup ==
  can_read \cup can_write # {} =>
    \E t \in Threads : Active(t) \/ WokenReader(t) \/ WokenWriter(t)

\* What a readers-writers monitor is for: while a thread writes the file no
\* other thread reads or writes it.  (monitor_start_writing waits while
\* active_writers or active_readers is not zero.)
WriterExclusion ==
  active_writers > 0 => active_writers = 1 /\ active_readers = 0

\* A reader blocked by a writer is not starved: however many writers and
\* readers keep calling, monitor_start_reading returns.  (Once wakeups come
\* from broadcasts only: spurious ones that go on for ever can let writers
\* relay each other past a waiting reader.)
NoReaderStarvation ==
  <>[][\A t \in Threads : ~SpuriousWakeup(t)]_vars =>
    \A t \in Threads : at[t] = "start_reading" ~> at[t] = "reading"
-----------------------------------------------------------------------------
(* The strengthening that makes NoLostWakeup inductive (MonitorProofs.tla). *)

\* A reader only sleeps while some writer is active or waiting: the writer that
\* makes active_writers zero finds waiting_readers > 0 and broadcasts can_read.
BlockedReaderHasWriter ==
  can_read # {} => active_writers > 0 \/ waiting_writers > 0

\* A writer only sleeps while somebody is active or already woken.
BlockedWriterHasWaker ==
  can_write # {} =>
    \E t \in Threads : Active(t) \/ WokenReader(t) \/ WokenWriter(t)

MonitorInv ==
  TypeOK /\ CountersMatch /\ BlockedReaderHasWriter /\ BlockedWriterHasWaker

\* Granted is active or woken.
Granted(t) == Active(t) \/ WokenReader(t) \/ WokenWriter(t)

\* No third thread is inside: what MaxInside <= 2 means to a broadcast, which
\* then reaches at most one thread.
AtMostTwoInside ==
  \A t, u, v \in Threads :
    t # u /\ u # v /\ t # v => "outside" \in {at[t], at[u], at[v]}

\* Two threads hold or are about to hold the file together only as readers.
GrantExclusion ==
  \A t, u \in Threads :
    t # u /\ Granted(t) /\ Granted(u) => ActiveReader(t) \/ WokenReader(t)

TwoThreadInv == MonitorInv /\ AtMostTwoInside /\ GrantExclusion
=============================================================================

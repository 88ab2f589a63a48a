------------------------------ MODULE Threading ------------------------------
(***************************************************************************)
(* examples/threading/threading.c: start_thread_obtaining_mutex and the    *)
(* threads it starts, which share one default mutex with each other and    *)
(* with the caller.  The caller starts the threads, may hold the mutex     *)
(* itself for a while, and joins a thread to look at and free what it      *)
(* returned (threading.h:4-9).                                             *)
(***************************************************************************)
EXTENDS Integers, FiniteSets

CONSTANTS
  Threads,          \* the threads the caller may start, once each
  Nobody, Caller    \* owners of the mutex that are not threads

ASSUME ThreadsAssumption == {Nobody, Caller} \cap Threads = {}

VARIABLES
  at,         \* where each thread is in threadfunc
  owner,      \* who has locked the mutex
  thread_complete_success,
  params      \* the threads whose struct thread_data is allocated

vars == <<at, owner, thread_complete_success, params>>

Places == {"not_started", "wait_to_obtain", "lock", "wait_to_release",
           "unlock", "returned", "joined", "refused"}

Move(t, from, to) ==
  /\ at[t] = from
  /\ at' = [at EXCEPT ![t] = to]

Init ==
  /\ at = [t \in Threads |-> "not_started"]
  /\ owner = Nobody
  /\ thread_complete_success = [t \in Threads |-> FALSE]
  /\ params = {}

-----------------------------------------------------------------------------
(* start_thread_obtaining_mutex *)

StartThread(t) ==
  /\ Move(t, "not_started", "wait_to_obtain")
  /\ params' = params \cup {t}
  /\ thread_complete_success' = [thread_complete_success EXCEPT ![t] = FALSE]
  /\ UNCHANGED owner

\* It returns false: malloc failed, or pthread_create did and the structure
\* stays allocated.
StartFails(t) ==
  /\ Move(t, "not_started", "refused")
  /\ params' \in {params, params \cup {t}}
  /\ UNCHANGED <<owner, thread_complete_success>>

-----------------------------------------------------------------------------
(* threadfunc *)

Slept(t) ==
  /\ Move(t, "wait_to_obtain", "lock")
  /\ UNCHANGED <<owner, thread_complete_success, params>>

\* Mutant: the mutex is not waited for.
LockBusy(t) ==
  /\ Move(t, "lock", "wait_to_release")
  /\ owner' = t
  /\ UNCHANGED <<thread_complete_success, params>>

Lock(t) ==
  /\ owner = Nobody
  /\ Move(t, "lock", "wait_to_release")
  /\ owner' = t
  /\ UNCHANGED <<thread_complete_success, params>>

Held(t) ==
  /\ Move(t, "wait_to_release", "unlock")
  /\ UNCHANGED <<owner, thread_complete_success, params>>

\* Mutant: the thread frees its structure itself.
SleepFailsFreeing(t) ==
  /\ Move(t, "wait_to_obtain", "returned") \/ Move(t, "wait_to_release", "returned")
  /\ params' = params \ {t}
  /\ UNCHANGED <<owner, thread_complete_success>>

\* Either usleep fails: the thread returns, with the mutex if it has it.
SleepFails(t) ==
  /\ Move(t, "wait_to_obtain", "returned") \/ Move(t, "wait_to_release", "returned")
  /\ UNCHANGED <<owner, thread_complete_success, params>>

\* Mutant: the thread returns without having unlocked.
ReturnLocked(t) ==
  /\ Move(t, "unlock", "returned")
  /\ thread_complete_success' = [thread_complete_success EXCEPT ![t] = TRUE]
  /\ UNCHANGED <<owner, params>>

Unlock(t) ==
  /\ Move(t, "unlock", "returned")
  /\ owner' = Nobody
  /\ thread_complete_success' = [thread_complete_success EXCEPT ![t] = TRUE]
  /\ UNCHANGED params

ThreadStep(t) ==
  Slept(t) \/ Lock(t) \/ Held(t) \/ SleepFails(t) \/ Unlock(t)

-----------------------------------------------------------------------------
(* The caller *)

CallerLocks ==
  /\ owner = Nobody /\ owner' = Caller
  /\ UNCHANGED <<at, thread_complete_success, params>>

CallerUnlocks ==
  /\ owner = Caller /\ owner' = Nobody
  /\ UNCHANGED <<at, thread_complete_success, params>>

\* pthread_join, and free of the pointer the thread returned.
Join(t) ==
  /\ Move(t, "returned", "joined")
  /\ params' = params \ {t}
  /\ UNCHANGED <<owner, thread_complete_success>>

Next ==
  \/ CallerLocks \/ CallerUnlocks
  \/ \E t \in Threads :
       StartThread(t) \/ StartFails(t) \/ ThreadStep(t) \/ Join(t)

Spec == Init /\ [][Next]_vars

\* Threads and caller run on; a caller that joins does so; and a mutex that
\* becomes free again and again is in the end granted to each waiting thread.
Fairness ==
  /\ WF_vars(CallerUnlocks)
  /\ \A t \in Threads :
       /\ SF_vars(Lock(t))
       /\ WF_vars(Slept(t) \/ Held(t) \/ Unlock(t)) /\ WF_vars(Join(t))

-----------------------------------------------------------------------------
Holding(t) == at[t] \in {"wait_to_release", "unlock"}
Ended(t)   == at[t] \in {"returned", "joined"}

\* The variables have their types, and a running thread has its thread_data.
TypeOK ==
  /\ at \in [Threads -> Places]
  /\ owner \in Threads \cup {Nobody, Caller}
  /\ thread_complete_success \in [Threads -> BOOLEAN]
  /\ params \subseteq Threads
  /\ \A t \in Threads :
       at[t] \notin {"not_started", "joined", "refused"} => t \in params

\* A thread between its lock and its unlock owns the mutex, so that at most one
\* is, and not while the caller has it.  "Then releases" (threading.h:33) is
\* true of every thread that reports success: it has let go of the mutex.
HoldersExclude ==
  \A t \in Threads :
    /\ Holding(t) => owner = t
    /\ thread_complete_success[t] => owner # t

\* Every thread that was started ends and can be joined, unless a thread whose
\* sleep was interrupted has ended with the mutex.
ThreadsEnd ==
  \A t \in Threads :
    at[t] = "wait_to_obtain" ~>
      \/ at[t] = "joined"
      \/ \E u \in Threads :
           Ended(u) /\ ~thread_complete_success[u] /\ owner = u
=============================================================================

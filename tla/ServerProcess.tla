---------------------------- MODULE ServerProcess ----------------------------
(***************************************************************************)
(* A server process around its accept loop: main (server/src/main.c),      *)
(* aesdsocket_daemonize, aesdsocket_open_listening_socket, and the start   *)
(* and the end of aesdsocket_mainloop.  The loop itself is AesdSocket.tla; *)
(* here it is the place "serving".                                         *)
(*                                                                         *)
(* The program may be started several times: the processes share the TCP   *)
(* port and the data file.  Each has its own descriptors, signal handlers  *)
(* and timer.  A step is the code from one system call other processes or  *)
(* signals can tell from the next.                                         *)
(***************************************************************************)
EXTENDS Integers

CONSTANTS
  Servers,         \* the processes that may be started
  Nobody,
  MaxFd,           \* bound: the highest descriptor
  Regular,         \* is_regular_file
  UseTimestamp,    \* use_timestamp
  MayFail          \* the places whose call may fail

ASSUME NobodyAssumption == Nobody \notin Servers
ASSUME MaxFdAssumption  == MaxFd \in Nat /\ MaxFd > 2
ASSUME FlagsAssumption  == {Regular, UseTimestamp} \subseteq BOOLEAN

VARIABLES
  at,                \* where each process is
  daemon,            \* was it started with -d
  fd,                \* what each descriptor refers to
  handled,           \* the signals with a handler
  timer,             \* does the interval timer run
  termination_flag,
  ok,                \* ok of aesdsocket_mainloop
  leftover,          \* what a failure in the loop leaves wrong: nothing, a
                     \* pointer in thread_arg, or a thread nobody will join
  status,            \* what the process that started it has been told
  bound, listener,   \* the port: sockets bound to it, and the one listening
  file               \* does the data file exist

loop    == <<ok, leftover>>
process == <<daemon, fd, handled, timer, termination_flag, loop, status>>
port    == <<bound, listener>>
vars    == <<at, process, port, file>>

\* The calls of the start-up, in the order of the code, each with the next.
\* Every one of them can fail.
StartUp ==
  [fork    |-> "detach",   detach  |-> "null",     null    |-> "dup1",
   dup1    |-> "dup2",     dup2    |-> "sigterm",  sigterm |-> "sigint",
   sigint  |-> "socket",   socket  |-> "bind",     bind    |-> "listen",
   listen  |-> "prepare",
   prepare |-> IF UseTimestamp THEN "sigalrm" ELSE "serving",
   sigalrm |-> "settime",  settime |-> "serving"]

ASSUME FailuresAssumption == MayFail \subseteq DOMAIN StartUp \cup {"serving"}

\* A process ends at the end of main; or a signal without a handler kills it,
\* a send() to a client that has gone (SIGPIPE), or its own clean-up.
CleanUp == {"join", "close", "remove", "exit"}
Ended   == {"exited", "killed", "broken_pipe", "crashed"}
Alive(s) == at[s] \notin {"none"} \cup Ended

Goto(s, place) == at' = [at EXCEPT ![s] = place]

\* Whoever started the program hears of its end only once: from the
\* parent if that has exited, or from the server itself.
Reports(s, result) ==
  status' = IF status[s] = "none" THEN [status EXCEPT ![s] = result] ELSE status

\* A call of the start-up succeeds.
Passes(s, call) == at[s] = call /\ Goto(s, StartUp[call])

-----------------------------------------------------------------------------
(* Descriptors *)

Descriptors == 0 .. MaxFd
Unused(s)   == {d \in Descriptors : fd[s][d] = "closed"}

\* open(), socket() and dup() take the lowest descriptor.
Opens(s, what) ==
  \E d \in Unused(s) :
    /\ \A e \in Unused(s) : d <= e
    /\ fd' = [fd EXCEPT ![s][d] = what]

Closes(s, what) ==
  fd' = [fd EXCEPT ![s] = [d \in Descriptors |->
                    IF fd[s][d] = what THEN "closed" ELSE fd[s][d]]]

\* The port is given up.
Releases(s) ==
  /\ bound' = bound \ {s}
  /\ listener' = IF listener = s THEN Nobody ELSE listener

\* The end of a process takes its descriptors, its port and its timer away, but
\* no file; result is what whoever started it is told.
Ends(s, how, result) ==
  /\ Goto(s, how)
  /\ fd' = [fd EXCEPT ![s] = [d \in Descriptors |-> "closed"]]
  /\ timer' = [timer EXCEPT ![s] = FALSE]
  /\ Releases(s)
  /\ Reports(s, result)
  /\ UNCHANGED <<daemon, handled, termination_flag, loop, file>>

Has(s, what) == \E d \in Descriptors : fd[s][d] = what

-----------------------------------------------------------------------------
Init ==
  /\ at = [s \in Servers |-> "none"]
  /\ daemon = [s \in Servers |-> FALSE]
  /\ fd = [s \in Servers |-> [d \in Descriptors |-> "closed"]]
  /\ handled = [s \in Servers |-> {}]
  /\ timer = [s \in Servers |-> FALSE]
  /\ termination_flag = [s \in Servers |-> FALSE]
  /\ ok = [s \in Servers |-> FALSE]
  /\ leftover = [s \in Servers |-> "nothing"]
  /\ status = [s \in Servers |-> "none"]
  /\ bound = {} /\ listener = Nobody
  /\ file = FALSE

\* Somebody starts the program, with the standard descriptors open or some of
\* them closed.  Other arguments than -d are refused.
Start(s) ==
  /\ at[s] = "none"
  /\ \E open \in {{}, {0}, {0, 1, 2}} :
       fd' = [fd EXCEPT ![s] = [d \in Descriptors |->
                IF d \in open THEN "terminal" ELSE "closed"]]
  /\ \/ /\ daemon' = [daemon EXCEPT ![s] = TRUE] /\ Goto(s, "fork")
        /\ UNCHANGED status
     \/ /\ Goto(s, "sigterm")
        /\ UNCHANGED <<daemon, status>>
     \/ /\ Goto(s, "exited") /\ Reports(s, "failure")
        /\ UNCHANGED daemon
  /\ UNCHANGED <<handled, timer, termination_flag, loop, port, file>>

-----------------------------------------------------------------------------
(* aesdsocket_daemonize *)

\* The parent exits at once, with success; the child is the server.
Fork(s) ==
  /\ Passes(s, "fork")
  /\ Reports(s, "success")
  /\ UNCHANGED <<daemon, fd, handled, timer, termination_flag, loop, port, file>>

\* setsid, chdir, and close of the standard descriptors.
Detach(s) ==
  /\ Passes(s, "detach")
  /\ fd' = [fd EXCEPT ![s] = [d \in Descriptors |->
                                IF d \in 0 .. 2 THEN "closed" ELSE fd[s][d]]]
  /\ UNCHANGED <<daemon, handled, timer, termination_flag, loop, status, port,
                 file>>

\* Mutant: the standard error is left closed.
DupOnce(s) ==
  /\ at[s] \in {"null", "dup1", "dup2"}
  /\ Passes(s, at[s])
  /\ IF at[s] = "dup2" THEN UNCHANGED fd ELSE Opens(s, "null")
  /\ UNCHANGED <<daemon, handled, timer, termination_flag, loop, status, port,
                 file>>

\* open of /dev/null, and dup of it twice.
OpenNull(s) ==
  /\ at[s] \in {"null", "dup1", "dup2"}
  /\ Passes(s, at[s])
  /\ Opens(s, "null")
  /\ UNCHANGED <<daemon, handled, timer, termination_flag, loop, status, port,
                 file>>

-----------------------------------------------------------------------------
(* aesdsocket_mainloop up to its loop, and aesdsocket_open_listening_socket *)

SignalOf == [sigterm |-> "TERM", sigint |-> "INT", sigalrm |-> "ALRM"]

\* Mutant: only SIGTERM gets a handler.
SigactionOnce(s) ==
  /\ at[s] \in DOMAIN SignalOf
  /\ Passes(s, at[s])
  /\ handled' = [handled EXCEPT ![s] = {"TERM"}]
  /\ UNCHANGED <<daemon, fd, timer, termination_flag, loop, status, port, file>>

Sigaction(s) ==
  /\ at[s] \in DOMAIN SignalOf
  /\ Passes(s, at[s])
  /\ handled' = [handled EXCEPT ![s] = @ \cup {SignalOf[at[s]]}]
  /\ UNCHANGED <<daemon, fd, timer, termination_flag, loop, status, port, file>>

\* getaddrinfo, socket, setsockopt with SO_REUSEADDR
Socket(s) ==
  /\ Passes(s, "socket")
  /\ Opens(s, "socket")
  /\ UNCHANGED <<daemon, handled, timer, termination_flag, loop, status, port,
                 file>>

\* With SO_REUSEADDR several sockets can be bound as long as none listens.
Bind(s) ==
  /\ listener = Nobody
  /\ Passes(s, "bind")
  /\ bound' = bound \cup {s}
  /\ UNCHANGED <<process, listener, file>>

\* Mutant: the result of listen is not looked at.
ListenUnchecked(s) ==
  /\ Passes(s, "listen")
  /\ listener' = IF listener = Nobody THEN s ELSE listener
  /\ UNCHANGED <<process, bound, file>>

Listen(s) ==
  /\ listener = Nobody
  /\ Passes(s, "listen")
  /\ listener' = s
  /\ UNCHANGED <<process, bound, file>>

\* queue_new and monitor_new
Prepare(s) ==
  /\ Passes(s, "prepare")
  /\ UNCHANGED <<process, port, file>>

\* timer_create and timer_settime
SetTime(s) ==
  /\ Passes(s, "settime")
  /\ timer' = [timer EXCEPT ![s] = TRUE]
  /\ UNCHANGED <<daemon, fd, handled, termination_flag, loop, status, port, file>>

\* A call fails: no thread has been started yet, and on the way out everything
\* opened so far is closed again.
CallFails(s) ==
  /\ \/ at[s] \in MayFail \cap DOMAIN StartUp
     \/ at[s] \in {"bind", "listen"} /\ listener # Nobody
  /\ Goto(s, "close")
  /\ IF at[s] \in {"bind", "listen"}
     THEN Closes(s, "socket") /\ Releases(s)
     ELSE UNCHANGED <<fd, port>>
  /\ UNCHANGED <<daemon, handled, timer, termination_flag, loop, status, file>>

-----------------------------------------------------------------------------
(* The loop, and the clean-up behind it *)

\* The clean-up joins the threads first; one nobody can join goes on until the
\* process ends.
HasThreads(s) ==
  \/ at[s] \in {"serving", "join"}
  \/ leftover[s] = "thread" /\ at[s] \in CleanUp

\* A thread opens the data file and creates it if need be.
OpenData(s) ==
  /\ HasThreads(s)
  /\ ~Has(s, "data")
  /\ Opens(s, "data")
  /\ file' = TRUE
  /\ UNCHANGED <<at, daemon, handled, timer, termination_flag, loop, status,
                 port>>

CloseData(s) ==
  /\ Has(s, "data")
  /\ Closes(s, "data")
  /\ UNCHANGED <<at, daemon, handled, timer, termination_flag, loop, status,
                 port, file>>

\* A thread sends the file to a client that has gone: SIGPIPE, which has no
\* handler, kills the process before any clean-up.
BrokenPipe(s) ==
  /\ Has(s, "data")
  /\ Ends(s, "broken_pipe", "killed")

\* Mutant: a failed call ends the loop like a signal.
LeaveLoopOk(s) ==
  /\ at[s] = "serving"
  /\ Goto(s, "join")
  /\ termination_flag[s] \/ "serving" \in MayFail
  /\ ok' = [ok EXCEPT ![s] = TRUE]
  /\ UNCHANGED <<daemon, fd, handled, timer, termination_flag, leftover, status,
                 port, file>>

\* The loop ends when termination_flag is set, or at a call that fails.  When
\* strdup fails remote_name in thread_arg has never been set; when queue_enqueue
\* fails the thread runs and frees thread_arg itself.
LeaveLoop(s) ==
  /\ at[s] = "serving"
  /\ Goto(s, "join")
  /\ \/ /\ termination_flag[s]
        /\ ok' = [ok EXCEPT ![s] = TRUE]
        /\ UNCHANGED leftover
     \/ /\ "serving" \in MayFail
        /\ \E what \in {"nothing", "pointer", "thread"} :
             leftover' = [leftover EXCEPT ![s] = what]
        /\ UNCHANGED ok
  /\ UNCHANGED <<daemon, fd, handled, timer, termination_flag, status, port,
                 file>>

\* timer_delete, and the end of all threads that can be joined.
JoinThreads(s) ==
  /\ at[s] = "join"
  /\ Has(s, "data") => leftover[s] = "thread"
  /\ Goto(s, "close")
  /\ timer' = [timer EXCEPT ![s] = FALSE]
  /\ UNCHANGED <<daemon, fd, handled, termination_flag, loop, status, port,
                 file>>

\* What the clean-up frees next was never set, or has been freed; and the thread
\* nobody joined uses a monitor that has been destroyed.
Crash(s) ==
  /\ \/ at[s] = "close" /\ leftover[s] # "nothing"
     \/ at[s] \in {"remove", "exit"} /\ leftover[s] = "thread"
  /\ Ends(s, "crashed", "killed")

CloseSocket(s) ==
  /\ at[s] = "close"
  /\ Goto(s, "remove")
  /\ Closes(s, "socket") /\ Releases(s)
  /\ UNCHANGED <<daemon, handled, timer, termination_flag, loop, status, file>>

\* Mutant: the file is only removed after an orderly stop.
RemoveWhenOk(s) ==
  /\ at[s] = "remove"
  /\ Goto(s, "exit")
  /\ file' = (file /\ ~(Regular /\ ok[s]))
  /\ UNCHANGED <<process, port>>

\* The data file is removed, whoever else may be using it.
Remove(s) ==
  /\ at[s] = "remove"
  /\ Goto(s, "exit")
  /\ file' = (file /\ ~Regular)
  /\ UNCHANGED <<process, port>>

Exit(s) ==
  /\ at[s] = "exit"
  /\ Ends(s, "exited", IF ok[s] THEN "success" ELSE "failure")

-----------------------------------------------------------------------------
(* Signals *)

\* The two handlers; without a handler a signal ends the process.
Signal(s, signal) ==
  /\ Alive(s)
  /\ signal = "ALRM" => timer[s]
  /\ \/ /\ signal \in handled[s]
        /\ termination_flag' =
             [termination_flag EXCEPT ![s] = @ \/ signal # "ALRM"]
        /\ UNCHANGED <<at, daemon, fd, handled, timer, loop, status, port, file>>
     \/ /\ signal \notin handled[s]
        /\ Ends(s, "killed", "killed")

-----------------------------------------------------------------------------
StartUpStep(s) ==
  \/ Fork(s) \/ Detach(s) \/ OpenNull(s) \/ Sigaction(s) \/ Socket(s)
  \/ Bind(s) \/ Listen(s) \/ Prepare(s) \/ SetTime(s) \/ CallFails(s)

LoopStep(s) == OpenData(s) \/ CloseData(s) \/ BrokenPipe(s) \/ LeaveLoop(s)

CleanUpStep(s) ==
  \/ JoinThreads(s) \/ CloseSocket(s) \/ Remove(s) \/ Exit(s) \/ Crash(s)

Next ==
  \E s \in Servers :
    \/ Start(s) \/ StartUpStep(s) \/ LoopStep(s) \/ CleanUpStep(s)
    \/ \E signal \in {"TERM", "INT", "ALRM"} : Signal(s, signal)

Spec == Init /\ [][Next]_vars

-----------------------------------------------------------------------------
Places == {"none", "serving"} \cup DOMAIN StartUp \cup CleanUp \cup Ended

Listening == {"prepare", "sigalrm", "settime", "serving", "join"}

\* However many times the program is started, at most one server serves, and it
\* alone creates the data file: the others find the port taken at bind() or, if
\* they got through that together, at listen().
OneServes ==
  \A r, s \in Servers :
    at[r] \in {"serving", "join"} /\ at[s] \in {"serving", "join"} => r = s

\* The standard error of a daemon is never a socket or the data file, so that
\* what syslog copies there (openlog with LOG_PERROR, main.c:33) cannot end up
\* in them: descriptors 0 to 2 are taken before the first of those is opened.
LogStaysOut ==
  \A s \in Servers : daemon[s] => fd[s][2] \notin {"socket", "data"}

\* SIGTERM, SIGINT and SIGALRM, the signals the code means to handle, never kill
\* a server that has bound the port, opened the data file or started its timer:
\* their handlers come first.  (SIGPIPE is not among them: see BrokenPipe.)
SignalsCaught ==
  [][\A s \in Servers :
       at[s] # "killed" /\ at'[s] = "killed" =>
         s \notin bound /\ ~Has(s, "data") /\ ~timer[s]]_vars

\* When all processes have ended the port is free, and the data file of the
\* default build is only there if one of them never got to its remove(), killed
\* by SIGPIPE or by its own clean-up, or had a thread it could not join, which
\* may create the file again.  No other failure and no moment at which SIGTERM,
\* SIGINT or SIGALRM may come leaves it behind.
NothingLeft ==
  (\A s \in Servers : ~Alive(s)) =>
    /\ bound = {}
    /\ Regular /\ file =>
         \E s \in Servers :
           at[s] \in {"broken_pipe", "crashed"} \/ leftover[s] = "thread"

\* A server started in the foreground reports success only after it was told to
\* stop and has ended in order.  (The parent of a daemon reports it before
\* anything has been tried.)
SuccessIsAStop ==
  \A s \in Servers :
    status[s] = "success" /\ ~daemon[s] =>
      at[s] = "exited" /\ termination_flag[s]

=============================================================================

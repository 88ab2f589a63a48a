-------------------------- MODULE AesdSocketProps ---------------------------
(***************************************************************************)
(* What the socket server promises its clients and whoever stops it.       *)
(***************************************************************************)
EXTENDS AesdSocket

Chars == ThreadIds \cup {NL} \cup SeekArgs

MainPlaces ==
  {"test", "stamp", "stamped", "before_accept", "accept", "join",
   "exited", "killed"}

\* The server's variables have their types; the threads remembered for joining
\* are started threads, each once.
TypeOK ==
  /\ at \in [ThreadIds -> Mon!Places]
  /\ {termination_flag, timestamp_flag, dangling} \subseteq BOOLEAN
  /\ main \in MainPlaces
  /\ pc \in [Clients -> ThreadPlaces \cup Ended \cup {"none", "backlog"}]
  /\ thread_queue \in Seq({c \in Clients : pc[c] \notin {"none", "backlog"}})
  /\ IsInjective(thread_queue)
  /\ text \in Seq(Chars) /\ pos \in [Clients -> Nat]
  /\ line \in [Clients -> Seq(Chars)] /\ left \in [ThreadIds -> Seq(Chars)]
  /\ wire \in [Clients -> Seq(Chars)] /\ answer \in [Clients -> Seq(Chars)]
  /\ gone \subseteq Clients /\ alarms \in 0 .. MaxAlarms

\* The data file consists of whole lines, each written by one thread, and at
\* its end perhaps the beginning of one more: the write() loops of different
\* threads never mix, although each may take several calls.  (Only until the
\* server is told to stop: recv_line then hands over lines cut short.)
LinesStayWhole ==
  ~termination_flag =>
    \A i \in 1 .. Len(text) :
      IF i % 2 = 1 THEN text[i] \in ThreadIds ELSE text[i] = NL

\* A client that stored its line is sent the device's text from its start,
\* without gaps or repetitions, whatever other threads append meanwhile; any
\* other client a piece of it.  (As long as the device forgets nothing.)
AnswerIsText ==
  \A c \in Clients :
    IF Contains(text, c)
    THEN IsPrefix(answer[c], text)
    ELSE \E p \in 0 .. Len(text) :
           IsPrefix(answer[c], SubSeq(text, p + 1, Len(text)))

\* A client that stored its line, waited and has been served got its own line
\* back, as aesdsocket_serve reads the file only after writing to it.
OwnLineAnswered ==
  \A c \in Clients :
    /\ pc[c] = "closed" /\ c \notin gone
    /\ Contains(text, c) /\ ~termination_flag
    => \E i \in 1 .. Len(answer[c]) - 1 :
         answer[c][i] = c /\ answer[c][i + 1] = NL

\* Whatever the device forgets and other threads append between two lines of an
\* answer, no line is sent twice: the position of the read-back may be stale
\* when the oldest command is dropped, but never lies before what was sent.
NoLineTwice ==
  \A c \in Clients : \A i, j \in 1 .. Len(answer[c]) :
    answer[c][i] = answer[c][j] /\ i # j => answer[c][i] = NL

\* monitor_destroy and exit come after the end of every connection thread that
\* was started and could be remembered, and at most one could not: the accept
\* loop is left at the first failing queue_enqueue.
JoinedBeforeExit ==
  main = "exited" =>
    /\ Cardinality(Served) <= 1
    /\ Served # {} => dangling

\* The main thread has left the accept loop, or the process has ended.
Stopping == main \in {"join", "exited", "killed"}

\* A thread that ended inside the monitor: a failed read() or write() left
\* monitor_stop_reading or monitor_stop_writing out.
HeldForEver ==
  \/ \E c \in Clients : pc[c] = "failed" /\ at[c] # "outside"
  \/ main = "join" /\ at[Main] # "outside"

\* The client is connected, sends nothing and has not left: its thread is in a
\* recv() without a timeout.
Idle(c) == pc[c] = "recv" /\ wire[c] = <<>> /\ c \notin gone


\* An alarm is answered by a time stamp, however late: one that comes between
\* the test of timestamp_flag and accept() by the next alarm's interruption.
\* (Except an alarm during aesdsocket_take_timestamp: the flag is cleared after
\* the stamp, and that alarm is forgotten.)
StampTaken ==
  timestamp_flag /\ main \notin {"stamp", "stamped"} ~>
    main = "stamped" \/ Stopping \/ HeldForEver

\* SIGTERM or SIGINT ends the server ("Caught signal, exiting",
\* aesdsocket.c:89): the main thread gets out of accept(), each connection
\* thread out of its loops, and every join returns, unless a client stays
\* connected and silent for ever (the signal reaches the main thread, nothing
\* interrupts that client's recv(), and pthread_join waits for its thread) or a
\* thread waits for a monitor that a failed read() or write() has left held.
StopsOnSignal ==
  (\A c \in Clients : []<>~Idle(c)) =>
    (termination_flag ~> ~Running \/ HeldForEver)

=============================================================================

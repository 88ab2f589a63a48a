----------------------------- MODULE AesdSocket -----------------------------
(***************************************************************************)
(* The socket server (server/src/aesdsocket.c): the main thread accepts    *)
(* connections, starts one thread for each, takes time stamps and stops on *)
(* a signal; a connection thread receives one line, stores it in the data  *)
(* file and sends the file back line by line.  The threads share the data  *)
(* file through monitor_t, whose steps are those of Monitor.tla, and two   *)
(* flags with the signal handlers.                                         *)
(*                                                                         *)
(* A step is the code from one system call, access to a flag or call of a  *)
(* monitor function to the next.  A line is two characters: the name of    *)
(* the thread that wrote it (Main for a time stamp) and the newline; so a  *)
(* line can be received, written, read or sent in pieces.  A line that     *)
(* starts with the ioctl's name carries its arguments instead of a name.   *)
(*                                                                         *)
(* The data file is the regular file of the default build or the aesdchar  *)
(* device (AesdDevice.tla) of the USE_AESD_CHAR_DEVICE build.              *)
(***************************************************************************)
EXTENDS Integers, FiniteSets, SequencesExt

CONSTANTS
  Clients,         \* the clients; each is served by a thread of its own
  Main,            \* the main thread
  NL,              \* the newline
  Regular,         \* is_regular_file; otherwise the file is aesdchar
  UseTimestamp,    \* use_timestamp
  BUFFSIZE,        \* the longest read() of the data file
  Depth,           \* commands the device remembers
  Malformed,       \* the argument of a seek line without ':' or ','
  SeekArgs,        \* what the clients may ask for: <<command, offset>> pairs
                   \* and Malformed
  MayFail,         \* the calls that may fail
  ClientsLeave,    \* may a client close its connection early
  SignalThreads,   \* the threads that may run the signal handlers
  MaxAlarms,       \* bound: alarms before the server is told to stop
  SpuriousWakeups

ThreadIds == Clients \cup {Main}

ASSUME MainAssumption == Main \notin Clients /\ NL \notin ThreadIds
ASSUME ClientsAssumption == IsFiniteSet(Clients)
ASSUME BoundsAssumption ==
  /\ BUFFSIZE \in Nat \ {0} /\ Depth \in Nat \ {0} /\ MaxAlarms \in Nat
  /\ SeekArgs \subseteq (Nat \X Nat) \cup {Malformed}
ASSUME FlagsAssumption ==
  {Regular, UseTimestamp, ClientsLeave, SpuriousWakeups} \subseteq BOOLEAN
ASSUME FailuresAssumption ==
  MayFail \subseteq {"open", "write", "read", "recv", "send", "spawn", "queue"}
ASSUME SignalsAssumption == SignalThreads \subseteq ThreadIds

VARIABLES
  active_readers, active_writers,     \* monitor_t, see Monitor.tla
  waiting_readers, waiting_writers,
  can_read, can_write, at,
  termination_flag, timestamp_flag,   \* the two sig_atomic_t flags
  main,           \* where the main thread is
  pc,             \* where each connection is, from connect() to close()
  thread_queue,   \* threads not joined, the oldest first
  dangling,       \* thread_arg points to memory freed or never set
  text,           \* the data file
  pos,            \* the position of each connection thread's file_fd
  line,           \* what each thread has of its current line
  left,           \* what remains of it to write to the file or to send
  wire,           \* what each client has sent and recv() not returned yet
  gone,           \* the clients that have closed their connection
  answer,         \* what each client has been sent
  alarms          \* alarms so far (for the bound MaxAlarms)

monitor == <<active_readers, active_writers, waiting_readers,
             waiting_writers, can_read, can_write, at>>
flags   == <<termination_flag, timestamp_flag>>
server  == <<main, thread_queue, dangling, alarms>>
buffers == <<line, left>>
peers   == <<wire, gone, answer>>
vars    == <<monitor, flags, server, pc, text, pos, buffers, peers>>

Mon == INSTANCE Monitor WITH
         Threads <- ThreadIds, MaxInside <- Cardinality(ThreadIds)

Running == main \notin {"exited", "killed"}
Fails(call) == call \in MayFail

\* Where a connection is: "none" before connect(), "backlog" until accept(),
\* the places of its thread, and after the thread's close() "closed", or
\* "failed" when a call that failed had made it give up.
ThreadPlaces == {"start", "test", "before_recv", "recv", "line",
                 "write", "read", "eol", "eof", "send_eol", "send_eof"}
Ended == {"closed", "failed"}
Served == {c \in Clients : pc[c] \in ThreadPlaces}

Goto(c, place) == pc' = [pc EXCEPT ![c] = place]

Put(f, c, v) == [f EXCEPT ![c] = v]

-----------------------------------------------------------------------------
(* The data file *)

Lines(chars) == Cardinality({i \in DOMAIN chars : chars[i] = NL})

\* Where the first newline is, 0 if there is none.
FirstNewline(chars) == SelectInSeq(chars, LAMBDA x : x = NL)

\* What is in the file after the given characters are written at its end.  The
\* device forgets its oldest line when it has more than Depth.
Appended(chars) ==
  LET all == text \o chars
  IN  IF ~Regular /\ Lines(all) > Depth
      THEN SubSeq(all, 1 + FirstNewline(all), Len(all))
      ELSE all

\* How much read(file_fd, buffer, BUFFSIZE) returns: from the device never
\* more than one line.
ReadCount(c) ==
  LET rest    == SubSeq(text, pos[c] + 1, Len(text))
      newline == FirstNewline(rest)
  IN  Min({BUFFSIZE, Len(rest)} \cup
            IF ~Regular /\ newline # 0 THEN {newline} ELSE {})

\* The position of byte j of line k, if it exists.
SeekTargets(k, j) ==
  {p \in 0 .. Len(text) - 1 :
     /\ p >= j /\ Lines(SubSeq(text, 1, p - j)) = k
     /\ Lines(SubSeq(text, 1, p)) = k
     /\ Contains(SubSeq(text, p + 1, Len(text)), NL)
     /\ p - j = 0 \/ text[p - j] = NL}

-----------------------------------------------------------------------------
Init ==
  /\ Mon!Init
  /\ termination_flag = FALSE /\ timestamp_flag = FALSE
  /\ main = "test"
  /\ pc = [c \in Clients |-> "none"]
  /\ thread_queue = <<>> /\ dangling = FALSE /\ alarms = 0
  /\ text = <<>>
  /\ pos = [c \in Clients |-> 0]
  /\ line = [c \in Clients |-> <<>>]
  /\ left = [t \in ThreadIds |-> <<>>]
  /\ wire = [c \in Clients |-> <<>>]
  /\ gone = {}
  /\ answer = [c \in Clients |-> <<>>]

-----------------------------------------------------------------------------
(* The clients *)

Connect(c) ==
  /\ Running
  /\ pc[c] = "none"
  /\ Goto(c, "backlog")
  /\ UNCHANGED <<monitor, flags, server, text, pos, buffers, peers>>

\* The client may still have something to send.
Receiving == {"backlog", "start", "test", "before_recv", "recv"}

\* What a client has sent so far is in wire or in line.
Sent(c) == line[c] \o wire[c]

\* A client sends its line in two pieces: a name or a seek command, and the
\* newline.
SendFirst(c) ==
  /\ Running
  /\ pc[c] \in Receiving /\ c \notin gone
  /\ Sent(c) = <<>>
  /\ \E first \in {c} \cup SeekArgs :
       wire' = Put(wire, c, <<first>>)
  /\ UNCHANGED <<monitor, flags, server, pc, text, pos, buffers, gone, answer>>

SendNewline(c) ==
  /\ Running
  /\ pc[c] \in Receiving /\ c \notin gone
  /\ Len(Sent(c)) = 1
  /\ wire' = Put(wire, c, Append(wire[c], NL))
  /\ UNCHANGED <<monitor, flags, server, pc, text, pos, buffers, gone, answer>>

\* A client closes its connection before it has been answered.
Leave(c) ==
  /\ ClientsLeave /\ Running
  /\ pc[c] \notin {"none"} \cup Ended /\ c \notin gone
  /\ gone' = gone \cup {c}
  /\ UNCHANGED <<monitor, flags, server, pc, text, pos, buffers, wire, answer>>

-----------------------------------------------------------------------------
(* Signals *)

\* Mutant: the handlers are installed with SA_RESTART.
InterruptsNothing(t) == UNCHANGED <<main, pc>>

\* A handler run by a thread interrupts its accept() or recv(), which fails
\* with EINTR: the loop goes back to its test.  The other calls are retried.
Interrupts(t) ==
  /\ main' = IF t = Main /\ main = "accept" THEN "test" ELSE main
  /\ pc' = IF t \in Clients /\ pc[t] = "recv" THEN Put(pc, t, "test") ELSE pc

Alive(t) == t = Main \/ t \in Served

\* aesdsocket_terminate_handler, for SIGTERM and SIGINT
Terminate(t) ==
  /\ Running /\ t \in SignalThreads /\ Alive(t)
  /\ termination_flag' = TRUE
  /\ Interrupts(t)
  /\ UNCHANGED <<monitor, timestamp_flag, thread_queue, dangling, alarms,
                 text, pos, buffers, peers>>

\* aesdsocket_timestamp_handler, until timer_delete.  The bound counts the alarms
\* that find the flag clear; the timer itself never stops.
Alarm(t) ==
  /\ UseTimestamp /\ Running /\ main # "join"
  /\ t \in SignalThreads /\ Alive(t)
  /\ \/ /\ termination_flag \/ timestamp_flag
        /\ UNCHANGED alarms
     \/ /\ ~termination_flag /\ ~timestamp_flag /\ alarms < MaxAlarms
        /\ alarms' = alarms + 1
  /\ timestamp_flag' = TRUE
  /\ Interrupts(t)
  /\ UNCHANGED <<monitor, termination_flag, thread_queue, dangling,
                 text, pos, buffers, peers>>

-----------------------------------------------------------------------------
(* aesdsocket_write_line, called by a connection thread at "write" and by   *)
(* the main thread at "stamp".                                              *)

AtWrite(t) == Running /\ IF t = Main THEN main = "stamp" ELSE pc[t] = "write"

CallWriting(t) ==
  /\ AtWrite(t)
  /\ at[t] = "outside"
  /\ Mon!Call(t) /\ at'[t] = "start_writing"
  /\ UNCHANGED <<flags, server, pc, text, pos, buffers, peers>>

\* One write(), which may take only a part.
WriteSome(t) ==
  /\ AtWrite(t)
  /\ at[t] = "writing" /\ left[t] # <<>>
  /\ \E n \in 1 .. Len(left[t]) :
       /\ text' = Appended(SubSeq(left[t], 1, n))
       /\ left' = Put(left, t, SubSeq(left[t], n + 1, Len(left[t])))
  /\ UNCHANGED <<monitor, flags, server, pc, pos, line, peers>>

\* Mutant: the monitor is released on the way out.
WriteFailsReleasing(t) ==
  /\ Fails("write")
  /\ AtWrite(t)
  /\ left[t] # <<>>
  /\ Mon!StopWriting(t)
  /\ IF t = Main THEN main' = "join" /\ UNCHANGED pc
                 ELSE Goto(t, "failed") /\ UNCHANGED main
  /\ UNCHANGED <<flags, thread_queue, dangling, alarms, text, pos, buffers,
                 peers>>

\* write() fails: the function is left without monitor_stop_writing.
WriteFails(t) ==
  /\ Fails("write")
  /\ AtWrite(t)
  /\ at[t] = "writing" /\ left[t] # <<>>
  /\ IF t = Main THEN main' = "join" /\ UNCHANGED pc
                 ELSE Goto(t, "failed") /\ UNCHANGED main
  /\ UNCHANGED <<monitor, flags, thread_queue, dangling, alarms,
                 text, pos, buffers, peers>>

\* Mutant: the file is not reopened, and its position is behind the line.
WrittenSamePosition(c) ==
  /\ AtWrite(c)
  /\ left[c] = <<>>
  /\ Mon!StopWriting(c)
  /\ Goto(c, "read")
  /\ pos' = Put(pos, c, Len(text))
  /\ line' = Put(line, c, <<>>)
  /\ UNCHANGED <<flags, server, text, left, peers>>

\* The line is written: monitor_stop_writing, and the connection thread opens
\* the file again to read it from its start.
Written(c) ==
  /\ AtWrite(c)
  /\ left[c] = <<>>
  /\ Mon!StopWriting(c)
  /\ \/ Goto(c, "read")
     \/ Fails("open") /\ Goto(c, "failed")
  /\ pos' = Put(pos, c, 0)
  /\ line' = Put(line, c, <<>>)
  /\ UNCHANGED <<flags, server, text, left, peers>>

\* The time stamp is written.
StampWritten ==
  /\ AtWrite(Main)
  /\ left[Main] = <<>>
  /\ Mon!StopWriting(Main)
  /\ main' = "stamped"
  /\ UNCHANGED <<flags, thread_queue, dangling, alarms, pc, text, pos,
                 buffers, peers>>

-----------------------------------------------------------------------------
(* The main thread *)

\* The head of the accept loop: the two flags.
TestFlags ==
  /\ main = "test"
  /\ \/ /\ termination_flag
        /\ main' = "join"
        /\ UNCHANGED left
     \/ /\ ~termination_flag /\ timestamp_flag
        /\ \/ /\ main' = "stamp"
              /\ left' = Put(left, Main, <<Main, NL>>)
           \/ /\ Fails("open")
              /\ main' = "join"
              /\ UNCHANGED left
     \/ /\ ~termination_flag /\ ~timestamp_flag
        /\ main' = "before_accept"
        /\ UNCHANGED left
  /\ UNCHANGED <<monitor, flags, thread_queue, dangling, alarms, pc, text,
                 pos, line, peers>>

\* timestamp_flag is cleared when the stamp has been taken.
ClearFlag ==
  /\ main = "stamped"
  /\ timestamp_flag' = FALSE
  /\ main' = "before_accept"
  /\ UNCHANGED <<monitor, termination_flag, thread_queue, dangling, alarms,
                 pc, text, pos, buffers, peers>>

\* A signal between the test of the flags and accept() does not interrupt it.
CallAccept ==
  /\ main = "before_accept"
  /\ main' = "accept"
  /\ UNCHANGED <<monitor, flags, thread_queue, dangling, alarms, pc, text,
                 pos, buffers, peers>>

\* Mutant: the connection is remembered before it has a thread.
AcceptEnqueueFirst(c) ==
  /\ main = "accept" /\ pc[c] = "backlog"
  /\ thread_queue' = Append(thread_queue, c)
  /\ main' = "test"
  /\ UNCHANGED <<monitor, flags, dangling, alarms, pc, text, pos, buffers,
                 peers>>

\* accept() returns a connection; a thread is started for it and remembered.
Accept(c) ==
  /\ main = "accept" /\ pc[c] = "backlog"
  /\ Goto(c, "start")
  /\ thread_queue' = Append(thread_queue, c)
  /\ main' = "test"
  /\ UNCHANGED <<monitor, flags, dangling, alarms, text, pos, buffers, peers>>

\* accept() or the preparation of the thread fails.  If strdup failed, the
\* clean-up will free a pointer that was never set.
AcceptFails(c) ==
  /\ Fails("spawn")
  /\ main = "accept" /\ pc[c] = "backlog"
  /\ main' = "join"
  /\ dangling' \in BOOLEAN
  /\ UNCHANGED <<monitor, flags, thread_queue, alarms, pc, text, pos, buffers,
                 peers>>

\* The thread runs but cannot be remembered: it will not be joined, and the
\* clean-up will free its thread_arg a second time.
EnqueueFails(c) ==
  /\ Fails("queue")
  /\ main = "accept" /\ pc[c] = "backlog"
  /\ Goto(c, "start")
  /\ main' = "join"
  /\ dangling' = TRUE
  /\ UNCHANGED <<monitor, flags, thread_queue, alarms, text, pos, buffers,
                 peers>>

\* pthread_join of the oldest thread.
Join ==
  /\ main = "join" /\ thread_queue # <<>>
  /\ pc[Head(thread_queue)] \in Ended
  /\ thread_queue' = Tail(thread_queue)
  /\ UNCHANGED <<monitor, flags, main, dangling, alarms, pc, text, pos,
                 buffers, peers>>

\* Mutant: the last thread is not waited for.
ExitEarly ==
  /\ main = "join" /\ Len(thread_queue) <= 1
  /\ main' = "exited"
  /\ UNCHANGED <<monitor, flags, thread_queue, dangling, alarms, pc, text, pos,
                 buffers, peers>>

\* All joined: the monitor is destroyed, the regular file removed, the process
\* exits.  Freeing a dangling thread_arg may kill it instead.
Exit ==
  /\ main = "join" /\ thread_queue = <<>>
  /\ main' \in {"exited"} \cup IF dangling THEN {"killed"} ELSE {}
  /\ text' = IF Regular /\ main' = "exited" THEN <<>> ELSE text
  /\ UNCHANGED <<monitor, flags, thread_queue, dangling, alarms, pc, pos,
                 buffers, peers>>

MainStep ==
  \/ CallWriting(Main) \/ WriteSome(Main) \/ WriteFails(Main) \/ StampWritten
  \/ TestFlags \/ ClearFlag \/ CallAccept \/ Join \/ Exit
  \/ \E c \in Clients : Accept(c) \/ AcceptFails(c) \/ EnqueueFails(c)

-----------------------------------------------------------------------------
(* A connection thread: aesdsocket_start_thread, aesdsocket_serve *)

AtPlace(c, place) == Running /\ pc[c] = place

\* The thread starts and opens the data file.
Start(c) ==
  /\ AtPlace(c, "start")
  /\ \/ Goto(c, "test")
     \/ Fails("open") /\ Goto(c, "failed")
  /\ UNCHANGED <<monitor, flags, server, text, pos, buffers, peers>>

(* aesdsocket_recv_line *)

\* Mutant: a thread goes on receiving when the server is stopping.
KeepReceiving(c) ==
  /\ AtPlace(c, "test")
  /\ Goto(c, "before_recv")
  /\ UNCHANGED <<monitor, flags, server, text, pos, buffers, peers>>

TestTermination(c) ==
  /\ AtPlace(c, "test")
  /\ Goto(c, IF termination_flag THEN "line" ELSE "before_recv")
  /\ UNCHANGED <<monitor, flags, server, text, pos, buffers, peers>>

\* As for accept(), a signal may come before recv() blocks.
CallRecv(c) ==
  /\ AtPlace(c, "before_recv")
  /\ Goto(c, "recv")
  /\ UNCHANGED <<monitor, flags, server, text, pos, buffers, peers>>

\* recv() returns what has arrived, or nothing once the client has closed: the
\* loop then tries again.
Recv(c) ==
  /\ AtPlace(c, "recv")
  /\ wire[c] # <<>> \/ c \in gone
  /\ line' = Put(line, c, line[c] \o wire[c])
  /\ wire' = Put(wire, c, <<>>)
  /\ Goto(c, IF Contains(wire[c], NL) THEN "line" ELSE "test")
  /\ UNCHANGED <<monitor, flags, server, text, pos, left, gone, answer>>

RecvFails(c) ==
  /\ Fails("recv")
  /\ AtPlace(c, "recv")
  /\ Goto(c, "failed")
  /\ UNCHANGED <<monitor, flags, server, text, pos, buffers, peers>>

(* The line is a seek command, or is to be written. *)

IsSeek(c) == line[c] # <<>> /\ line[c][1] \in SeekArgs

\* The ioctl is made for a complete, well-formed command; when it fails the
\* connection is closed.  A regular file knows no such ioctl.
SeekTo(c) ==
  /\ AtPlace(c, "line") /\ IsSeek(c)
  /\ line[c][1] # Malformed /\ Len(line[c]) = 2
  /\ LET targets == IF Regular THEN {}
                    ELSE SeekTargets(line[c][1][1], line[c][1][2])
     IN  \/ /\ targets = {}
            /\ Goto(c, "failed")
            /\ UNCHANGED <<pos, line>>
         \/ /\ \E p \in targets : pos' = Put(pos, c, p)
            /\ Goto(c, "read")
            /\ line' = Put(line, c, <<>>)
  /\ UNCHANGED <<monitor, flags, server, text, left, peers>>

\* Nothing to store: no character came before the server was told to stop, or
\* a seek command is malformed or cut short.
NothingToWrite(c) ==
  /\ AtPlace(c, "line")
  /\ \/ line[c] = <<>>
     \/ IsSeek(c) /\ (line[c][1] = Malformed \/ Len(line[c]) = 1)
  /\ Goto(c, "read")
  /\ line' = Put(line, c, <<>>)
  /\ UNCHANGED <<monitor, flags, server, text, pos, left, peers>>

StoreLine(c) ==
  /\ AtPlace(c, "line")
  /\ line[c] # <<>> /\ ~IsSeek(c)
  /\ Goto(c, "write")
  /\ left' = Put(left, c, line[c])
  /\ UNCHANGED <<monitor, flags, server, text, pos, line, peers>>

(* aesdsocket_read_and_send_file: aesdsocket_read_line ... *)

\* Mutant: the line buffer is not emptied first.
CallReadingAgain(c) ==
  /\ AtPlace(c, "read")
  /\ at[c] = "outside"
  /\ Mon!Call(c) /\ at'[c] = "start_reading"
  /\ UNCHANGED <<flags, server, pc, text, pos, buffers, peers>>

CallReading(c) ==
  /\ AtPlace(c, "read")
  /\ at[c] = "outside"
  /\ Mon!Call(c) /\ at'[c] = "start_reading"
  /\ line' = Put(line, c, <<>>)
  /\ UNCHANGED <<flags, server, pc, text, pos, left, peers>>

\* One read(): up to the first newline is kept, the rest of it dropped.
ReadSome(c) ==
  /\ AtPlace(c, "read")
  /\ at[c] = "reading"
  /\ LET n       == ReadCount(c)
         chars   == SubSeq(text, pos[c] + 1, pos[c] + n)
         newline == FirstNewline(chars)
     IN  /\ pos' = Put(pos, c, pos[c] + n)
         /\ line' = Put(line, c, line[c] \o
                      IF newline = 0 THEN chars ELSE SubSeq(chars, 1, newline))
         /\ Goto(c, IF n = 0 THEN "eof"
                    ELSE IF newline # 0 THEN "eol" ELSE "read")
  /\ UNCHANGED <<monitor, flags, server, text, left, peers>>

\* read() fails: the function is left without monitor_stop_reading.
ReadFails(c) ==
  /\ Fails("read")
  /\ AtPlace(c, "read")
  /\ at[c] = "reading"
  /\ Goto(c, "failed")
  /\ UNCHANGED <<monitor, flags, server, text, pos, buffers, peers>>

LineRead(c) ==
  /\ Running /\ pc[c] \in {"eol", "eof"}
  /\ Mon!StopReading(c)
  /\ Goto(c, IF pc[c] = "eol" THEN "send_eol" ELSE "send_eof")
  /\ left' = Put(left, c, line[c])
  /\ UNCHANGED <<flags, server, text, pos, line, peers>>

(* ... and aesdsocket_send_line *)

Sending(c) == Running /\ pc[c] \in {"send_eol", "send_eof"}

SendSome(c) ==
  /\ Sending(c)
  /\ left[c] # <<>> /\ ~termination_flag
  /\ \E n \in 1 .. Len(left[c]) :
       /\ left' = Put(left, c, SubSeq(left[c], n + 1, Len(left[c])))
       /\ answer' = IF c \in gone THEN answer
                    ELSE Put(answer, c, answer[c] \o SubSeq(left[c], 1, n))
  /\ UNCHANGED <<monitor, flags, server, pc, text, pos, line, wire, gone>>

SendFails(c) ==
  /\ Fails("send")
  /\ Sending(c)
  /\ left[c] # <<>> /\ ~termination_flag
  /\ Goto(c, "failed")
  /\ UNCHANGED <<monitor, flags, server, text, pos, buffers, peers>>

\* send() to a client that has gone raises SIGPIPE, which is not handled.
BrokenPipe(c) ==
  /\ Sending(c)
  /\ left[c] # <<>> /\ ~termination_flag /\ c \in gone
  /\ main' = "killed"
  /\ UNCHANGED <<monitor, flags, thread_queue, dangling, alarms, pc, text,
                 pos, buffers, peers>>

\* The line is sent, or given up because the server is stopping: the next line,
\* or the end of the connection.
LineSent(c) ==
  /\ Sending(c)
  /\ left[c] = <<>> \/ termination_flag
  /\ Goto(c, IF pc[c] = "send_eol" THEN "read" ELSE "closed")
  /\ left' = Put(left, c, <<>>)
  /\ UNCHANGED <<monitor, flags, server, text, pos, line, peers>>

ThreadStep(c) ==
  \/ Start(c) \/ TestTermination(c) \/ CallRecv(c)
  \/ Recv(c) \/ RecvFails(c)
  \/ SeekTo(c) \/ NothingToWrite(c) \/ StoreLine(c)
  \/ CallWriting(c) \/ WriteSome(c) \/ WriteFails(c) \/ Written(c)
  \/ CallReading(c) \/ ReadSome(c) \/ ReadFails(c) \/ LineRead(c)
  \/ SendSome(c) \/ SendFails(c) \/ BrokenPipe(c) \/ LineSent(c)

-----------------------------------------------------------------------------
\* A thread waiting in monitor_start_reading or monitor_start_writing.
MonitorStep(t) ==
  /\ Running
  /\ \/ Mon!StartReading(t) \/ Mon!WaitToRead(t) \/ Mon!ReturnFromCanRead(t)
     \/ Mon!BroadcastCanRead(t)
     \/ Mon!StartWriting(t) \/ Mon!WaitToWrite(t) \/ Mon!ReturnFromCanWrite(t)
  /\ UNCHANGED <<flags, server, pc, text, pos, buffers, peers>>

SpuriousWakeup(t) ==
  /\ Running
  /\ Mon!SpuriousWakeup(t)
  /\ UNCHANGED <<flags, server, pc, text, pos, buffers, peers>>

ClientStep(c) == Connect(c) \/ SendFirst(c) \/ SendNewline(c) \/ Leave(c)

Next ==
  \/ MainStep
  \/ \E c \in Clients : ThreadStep(c) \/ ClientStep(c)
  \/ \E t \in ThreadIds :
       MonitorStep(t) \/ SpuriousWakeup(t) \/ Terminate(t) \/ Alarm(t)

Spec == Init /\ [][Next]_vars

(***************************************************************************)
(* Every thread keeps running, and so does the interval timer; an alarm    *)
(* can always be handled by the main thread, which no other thread         *)
(* prevents (Linux even prefers it).  Signals and clients owe nothing: a   *)
(* client may stay connected without ever sending, and recv() waits for it *)
(* without a timeout.                                                      *)
(***************************************************************************)
FairSpec ==
  /\ Spec
  /\ WF_vars(MainStep)
  /\ \A c \in Clients : WF_vars(ThreadStep(c))
  /\ \A t \in ThreadIds : WF_vars(MonitorStep(t))
  /\ WF_vars(Alarm(Main))

=============================================================================

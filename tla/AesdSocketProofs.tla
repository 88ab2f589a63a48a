-------------------------- MODULE AesdSocketProofs --------------------------
(***************************************************************************)
(* Proofs about the socket server, for any finite set of clients and any   *)
(* values of the other constants: it uses the monitor as the monitor's     *)
(* specification allows, it joins every connection thread before it        *)
(* destroys the monitor, its variables keep their types, lines stay whole  *)
(* as long as the monitor lets one thread write at a time, no line is sent *)
(* twice, and what a client is sent is the device's text without gaps, its *)
(* own line among the rest.                                                *)
(***************************************************************************)
EXTENDS AesdSocketProps, FiniteSetTheorems, SequenceTheorems, InductionLemmas,
        TLAPS

-----------------------------------------------------------------------------
(* The threads and the monitor *)

\* A step of a thread outside the monitor's functions leaves the monitor as it
\* is, and inside them it is a step of Monitor.tla.
LEMMA ThreadMonitorStep ==
  ASSUME NEW c \in Clients, ThreadStep(c)
  PROVE  Mon!Next \/ UNCHANGED monitor
<1>1. c \in ThreadIds
  BY DEF ThreadIds
<1>2. CASE \/ Start(c) \/ TestTermination(c) \/ CallRecv(c)
           \/ Recv(c) \/ RecvFails(c)
           \/ SeekTo(c) \/ NothingToWrite(c) \/ StoreLine(c)
  BY <1>2 DEF Start, TestTermination, CallRecv, Recv, RecvFails, SeekTo,
              NothingToWrite, StoreLine
<1>3. CASE \/ WriteSome(c) \/ WriteFails(c) \/ ReadSome(c) \/ ReadFails(c)
           \/ SendSome(c) \/ SendFails(c) \/ BrokenPipe(c) \/ LineSent(c)
  BY <1>3 DEF WriteSome, WriteFails, ReadSome, ReadFails,
              SendSome, SendFails, BrokenPipe, LineSent
<1>4. CASE CallWriting(c) \/ CallReading(c)
  BY <1>1, <1>4 DEF CallWriting, CallReading, Mon!Next
<1>5. CASE Written(c) \/ LineRead(c)
  BY <1>1, <1>5 DEF Written, LineRead, Mon!Next, Mon!Step
<1>6. QED
  BY <1>2, <1>3, <1>4, <1>5 DEF ThreadStep

LEMMA MainMonitorStep ==
  ASSUME MainStep
  PROVE  Mon!Next \/ UNCHANGED monitor
<1>1. Main \in ThreadIds
  BY DEF ThreadIds
<1>2. CASE \/ WriteSome(Main) \/ WriteFails(Main)
           \/ TestFlags \/ ClearFlag \/ CallAccept \/ Join \/ Exit
  BY <1>2 DEF WriteSome, WriteFails, TestFlags, ClearFlag, CallAccept, Join,
              Exit
<1>3. CASE \E c \in Clients : Accept(c) \/ AcceptFails(c) \/ EnqueueFails(c)
  BY <1>3 DEF Accept, AcceptFails, EnqueueFails
<1>4. CASE CallWriting(Main)
  BY <1>1, <1>4 DEF CallWriting, Mon!Next
<1>5. CASE StampWritten
  BY <1>1, <1>5 DEF StampWritten, Mon!Next, Mon!Step
<1>6. QED
  BY <1>2, <1>3, <1>4, <1>5 DEF MainStep

\* The monitor's part of a step of the server.
LEMMA NextMonitor ==
  ASSUME [Next]_vars
  PROVE  Mon!Next \/ UNCHANGED monitor
<1>1. CASE MainStep
  BY <1>1, MainMonitorStep
<1>2. ASSUME NEW c \in Clients, ThreadStep(c)
      PROVE  Mon!Next \/ UNCHANGED monitor
  BY <1>2, ThreadMonitorStep
<1>3. ASSUME NEW c \in Clients, ClientStep(c)
      PROVE  UNCHANGED monitor
  BY <1>3 DEF ClientStep, Connect, SendFirst, SendNewline, Leave
<1>4. ASSUME NEW t \in ThreadIds, MonitorStep(t) \/ SpuriousWakeup(t)
      PROVE  Mon!Next
  BY <1>4 DEF MonitorStep, SpuriousWakeup, Mon!Next, Mon!Step
<1>5. ASSUME NEW t \in ThreadIds, Terminate(t) \/ Alarm(t)
      PROVE  UNCHANGED monitor
  BY <1>5 DEF Terminate, Alarm
<1>6. CASE UNCHANGED vars
  BY <1>6 DEF vars
<1>7. QED
  BY <1>1, <1>2, <1>3, <1>4, <1>5, <1>6 DEF Next

\* The main thread and the connection threads together use monitor_t only as
\* its own specification allows, whatever fails and whoever is interrupted.
THEOREM MonitorUsed == Spec => Mon!Spec
<1>1. Init => Mon!Init
  BY DEF Init
<1>2. [Next]_vars => [Mon!Next]_(Mon!vars)
  BY NextMonitor DEF Mon!vars, Mon!counters, monitor
<1>3. QED
  BY <1>1, <1>2, PTL DEF Spec, Mon!Spec

-----------------------------------------------------------------------------
(* Every connection thread is joined *)

Remembered(c) == \E i \in 1 .. Len(thread_queue) : thread_queue[i] = c

\* The connection threads nobody will join.
Forgotten == {c \in Clients : pc[c] \in ThreadPlaces /\ ~Remembered(c)}

\* Every running connection thread is in thread_queue as long as the accept loop
\* goes on; from then on at most one is not, and its thread_arg dangles.  The
\* queue is empty once the process has exited.
JoinInv ==
  /\ thread_queue \in Seq(Clients)
  /\ DOMAIN pc = Clients
  /\ \/ Forgotten = {}
     \/ Stopping /\ dangling /\ \E c \in Clients : Forgotten = {c}
  /\ main = "exited" => thread_queue = <<>>

\* What all steps but accept and join do: no thread starts, none is forgotten,
\* and the process does not exit.
NoThreadStarts ==
  /\ thread_queue' = thread_queue /\ dangling' = dangling
  /\ DOMAIN pc' = DOMAIN pc
  /\ \A c \in Clients : pc'[c] \in ThreadPlaces => pc[c] \in ThreadPlaces
  /\ main' = "exited" => main = "exited"
  /\ Stopping => Stopping'

LEMMA NoThreadStartsKeeps ==
  ASSUME JoinInv, NoThreadStarts
  PROVE  JoinInv'
<1>1. Forgotten' \subseteq Forgotten
  BY DEF NoThreadStarts, Forgotten, Remembered
<1>2. \/ Forgotten' = {}
      \/ Stopping' /\ dangling' /\ \E c \in Clients : Forgotten' = {c}
  BY <1>1 DEF JoinInv, NoThreadStarts
<1>3. QED
  BY <1>2 DEF JoinInv, NoThreadStarts

\* Steps that move no connection and at most send the main thread to its end.
LEMMA OtherSteps ==
  ASSUME UNCHANGED <<pc, thread_queue, dangling>>,
         \/ main' = main \/ main' = "killed"
         \/ ~Stopping /\ main' # "exited"
  PROVE  NoThreadStarts
BY DEF NoThreadStarts, Stopping

\* A connection thread only moves itself, and only while it runs.
LEMMA ThreadStepStarts ==
  ASSUME NEW c \in Clients, DOMAIN pc = Clients, ThreadStep(c)
  PROVE  NoThreadStarts
<1>1. c # Main
  BY MainAssumption
<1>2. ASSUME NEW place, Goto(c, place), pc[c] \in ThreadPlaces,
             UNCHANGED <<thread_queue, dangling, main>>
      PROVE  NoThreadStarts
  BY <1>2 DEF Goto, NoThreadStarts, Stopping
<1>3. CASE \/ Start(c) \/ TestTermination(c) \/ CallRecv(c)
           \/ Recv(c) \/ RecvFails(c)
  BY <1>2, <1>3 DEF Start, TestTermination, CallRecv, Recv, RecvFails,
                    AtPlace, ThreadPlaces, server
<1>4. CASE SeekTo(c) \/ NothingToWrite(c) \/ StoreLine(c)
  BY <1>2, <1>4 DEF SeekTo, NothingToWrite, StoreLine,
                    AtPlace, ThreadPlaces, server
<1>5. CASE CallWriting(c) \/ WriteSome(c) \/ CallReading(c)
  <2>1. UNCHANGED <<pc, thread_queue, dangling, main>>
    BY <1>5 DEF CallWriting, WriteSome, CallReading, server
  <2>2. QED
    BY <2>1, OtherSteps
<1>6. CASE WriteFails(c) \/ Written(c)
  BY <1>1, <1>2, <1>6 DEF WriteFails, Written, AtWrite, ThreadPlaces, server
<1>7. CASE ReadSome(c) \/ ReadFails(c)
  BY <1>2, <1>7 DEF ReadSome, ReadFails, AtPlace, ThreadPlaces, server
<1>8. CASE LineRead(c)
  BY <1>2, <1>8 DEF LineRead, ThreadPlaces, server
<1>9. CASE SendSome(c) \/ BrokenPipe(c)
  <2>1. /\ UNCHANGED <<pc, thread_queue, dangling>>
        /\ main' = main \/ main' = "killed"
    BY <1>9 DEF SendSome, BrokenPipe, server
  <2>2. QED
    BY <2>1, OtherSteps
<1>10. CASE SendFails(c) \/ LineSent(c)
  BY <1>2, <1>10 DEF SendFails, LineSent, Sending, ThreadPlaces, server
<1>11. QED
  BY <1>3, <1>4, <1>5, <1>6, <1>7, <1>8, <1>9, <1>10 DEF ThreadStep

\* The accept loop starts a thread only together with remembering it, unless
\* queue_enqueue fails, which ends the loop; the process exits with nobody to
\* join.
LEMMA MainStepJoins ==
  ASSUME JoinInv, MainStep
  PROVE  JoinInv'
<1>1. CASE \/ CallWriting(Main) \/ WriteSome(Main) \/ WriteFails(Main)
           \/ StampWritten \/ TestFlags \/ ClearFlag \/ CallAccept
  <2>1. NoThreadStarts
    BY <1>1, OtherSteps
       DEF CallWriting, WriteSome, WriteFails, StampWritten, TestFlags,
           ClearFlag, CallAccept, server, AtWrite, Stopping
  <2>2. QED
    BY <2>1, NoThreadStartsKeeps
<1>2. ASSUME NEW c \in Clients, Accept(c)
      PROVE  JoinInv'
  <2>1. /\ thread_queue' \in Seq(Clients)
        /\ Len(thread_queue') = Len(thread_queue) + 1
        /\ thread_queue'[Len(thread_queue')] = c
        /\ \A i \in 1 .. Len(thread_queue) : thread_queue'[i] = thread_queue[i]
    BY <1>2 DEF JoinInv, Accept
  <2>2. \A d \in Clients : Remembered(d) => Remembered(d)'
    BY <2>1 DEF Remembered, JoinInv
  <2>3. Remembered(c)'
    BY <2>1 DEF Remembered, JoinInv
  <2>4. \A d \in Clients : d # c => pc'[d] = pc[d]
    BY <1>2 DEF Accept, Goto, JoinInv
  <2>5. DOMAIN pc' = Clients /\ main' # "exited"
    BY <1>2 DEF Accept, Goto, JoinInv
  <2>6. Forgotten = {}
    BY <1>2 DEF JoinInv, Accept, Stopping
  <2>7. Forgotten' = {}
    BY <2>2, <2>3, <2>4, <2>6 DEF Forgotten
  <2>8. QED
    BY <2>1, <2>5, <2>7 DEF JoinInv
<1>3. ASSUME NEW c \in Clients, AcceptFails(c)
      PROVE  JoinInv'
  <2>1. Forgotten = {} /\ UNCHANGED <<thread_queue, pc>>
    BY <1>3 DEF JoinInv, AcceptFails, Stopping
  <2>2. Forgotten' = {}
    BY <2>1 DEF Forgotten, Remembered
  <2>3. QED
    BY <1>3, <2>1, <2>2 DEF JoinInv, AcceptFails
<1>4. ASSUME NEW c \in Clients, EnqueueFails(c)
      PROVE  JoinInv'
  <2>1. Forgotten = {} /\ UNCHANGED thread_queue
    BY <1>4 DEF JoinInv, EnqueueFails, Stopping
  <2>2. \A d \in Clients : d # c => pc'[d] = pc[d]
    BY <1>4 DEF EnqueueFails, Goto, JoinInv
  <2>3. Forgotten' \subseteq {c}
    BY <2>1, <2>2 DEF Forgotten, Remembered
  <2>4. Stopping' /\ dangling' /\ main' # "exited" /\ DOMAIN pc' = Clients
    BY <1>4 DEF EnqueueFails, Goto, JoinInv, Stopping
  <2>5. \/ Forgotten' = {}
        \/ Stopping' /\ dangling' /\ \E d \in Clients : Forgotten' = {d}
    BY <2>3, <2>4
  <2>6. QED
    BY <2>1, <2>4, <2>5 DEF JoinInv
<1>5. CASE Join
  <2>1. /\ thread_queue' \in Seq(Clients)
        /\ Len(thread_queue') = Len(thread_queue) - 1
        /\ \A i \in 2 .. Len(thread_queue) :
             thread_queue'[i - 1] = thread_queue[i]
    BY <1>5 DEF JoinInv, Join
  <2>2. ASSUME NEW d \in Clients, pc[d] \in ThreadPlaces, Remembered(d)
        PROVE  Remembered(d)'
    <3>1. PICK i \in 1 .. Len(thread_queue) : thread_queue[i] = d
      BY <2>2 DEF Remembered
    <3>2. pc[Head(thread_queue)] \notin ThreadPlaces
      BY <1>5 DEF Join, Ended, ThreadPlaces
    <3>3. i # 1
      BY <1>5, <2>2, <3>1, <3>2 DEF Join, JoinInv
    <3>4. i - 1 \in 1 .. Len(thread_queue') /\ thread_queue'[i - 1] = d
      BY <2>1, <3>1, <3>3 DEF JoinInv
    <3>5. QED
      BY <3>4 DEF Remembered
  <2>3. UNCHANGED <<pc, main, dangling>> /\ main = "join"
    BY <1>5 DEF Join
  <2>4. Forgotten' \subseteq Forgotten
    BY <2>2, <2>3 DEF Forgotten
  <2>5. \/ Forgotten' = {}
        \/ Stopping' /\ dangling' /\ \E c \in Clients : Forgotten' = {c}
    BY <2>3, <2>4 DEF JoinInv, Stopping
  <2>6. DOMAIN pc' = Clients /\ main' # "exited"
    BY <2>3 DEF JoinInv
  <2>7. QED
    BY <2>1, <2>5, <2>6 DEF JoinInv
<1>6. CASE Exit
  <2>1. UNCHANGED <<pc, thread_queue, dangling>> /\ Stopping /\ Stopping'
    BY <1>6 DEF Exit, Stopping
  <2>2. Forgotten' = Forgotten
    BY <2>1 DEF Forgotten, Remembered
  <2>3. \/ Forgotten' = {}
        \/ Stopping' /\ dangling' /\ \E c \in Clients : Forgotten' = {c}
    BY <2>1, <2>2 DEF JoinInv
  <2>4. thread_queue' = <<>>
    BY <1>6, <2>1 DEF Exit
  <2>5. QED
    BY <2>1, <2>3, <2>4 DEF JoinInv
<1>7. QED
  BY <1>1, <1>2, <1>3, <1>4, <1>5, <1>6 DEF MainStep

\* monitor_destroy and exit come after the end of every connection thread but at
\* most the one that queue_enqueue refused, for any number of connections,
\* whatever fails and whenever the signals come.
THEOREM ThreadsJoined == Spec => []JoinedBeforeExit
<1>1. Init => JoinInv
  BY DEF Init, JoinInv, Forgotten, ThreadPlaces
<1>2. JoinInv /\ [Next]_vars => JoinInv'
  <2> SUFFICES ASSUME JoinInv, [Next]_vars PROVE JoinInv'
    OBVIOUS
  <2>1. CASE MainStep
    BY <2>1, MainStepJoins
  <2>2. ASSUME NEW c \in Clients, ThreadStep(c)
        PROVE  JoinInv'
    BY <2>2, ThreadStepStarts, NoThreadStartsKeeps DEF JoinInv
  <2>3. ASSUME NEW c \in Clients, ClientStep(c)
        PROVE  JoinInv'
    <3>1. NoThreadStarts
      BY <2>3 DEF ClientStep, Connect, SendFirst, SendNewline, Leave, Goto,
                  NoThreadStarts, JoinInv, ThreadPlaces, server, Stopping
    <3>2. QED
      BY <3>1, NoThreadStartsKeeps
  <2>4. ASSUME NEW t \in ThreadIds, MonitorStep(t) \/ SpuriousWakeup(t)
        PROVE  JoinInv'
    BY <2>4, OtherSteps, NoThreadStartsKeeps
       DEF MonitorStep, SpuriousWakeup, server
  <2>5. ASSUME NEW t \in ThreadIds, Terminate(t) \/ Alarm(t)
        PROVE  JoinInv'
    <3>1. NoThreadStarts
      BY <2>5 DEF Terminate, Alarm, Interrupts, Put, NoThreadStarts, JoinInv,
                  ThreadPlaces, Stopping
    <3>2. QED
      BY <3>1, NoThreadStartsKeeps
  <2>6. CASE UNCHANGED vars
    BY <2>6, OtherSteps, NoThreadStartsKeeps DEF vars, server
  <2>7. QED
    BY <2>1, <2>2, <2>3, <2>4, <2>5, <2>6 DEF Next
<1>3. JoinInv => JoinedBeforeExit
  <2> SUFFICES ASSUME JoinInv, main = "exited"
               PROVE  Cardinality(Served) <= 1 /\ (Served # {} => dangling)
    BY DEF JoinedBeforeExit
  <2>1. Served = Forgotten
    BY DEF JoinInv, Served, Forgotten, Remembered
  <2>2. CASE Served = {}
    BY <2>2, FS_EmptySet
  <2>3. ASSUME NEW c \in Clients, Served = {c}
        PROVE  Cardinality(Served) = 1
    BY <2>3, FS_Singleton
  <2>4. QED
    BY <2>1, <2>2, <2>3 DEF JoinInv
<1>4. QED
  BY <1>1, <1>2, <1>3, PTL DEF Spec

-----------------------------------------------------------------------------
(* The characters that are received, stored, read and sent *)

LEMMA MinInSet ==
  ASSUME NEW T \in SUBSET Nat, T # {}
  PROVE  Min(T) \in T /\ \A m \in T : Min(T) <= m
BY LeastElement DEF Min

LEMMA FirstNewlineIs ==
  ASSUME NEW s, Len(s) \in Nat
  PROVE  IF \E i \in 1 .. Len(s) : s[i] = NL
         THEN /\ FirstNewline(s) \in 1 .. Len(s) /\ s[FirstNewline(s)] = NL
              /\ \A i \in 1 .. Len(s) : s[i] = NL => FirstNewline(s) <= i
         ELSE FirstNewline(s) = 0
<1> DEFINE I == {i \in 1 .. Len(s) : s[i] = NL}
<1>1. FirstNewline(s) = IF I # {} THEN Min(I) ELSE 0
  BY DEF FirstNewline, SelectInSeq
<1>2. CASE I # {}
  <2>1. I \in SUBSET Nat
    OBVIOUS
  <2>2. Min(I) \in I /\ \A m \in I : Min(I) <= m
    BY <1>2, <2>1, MinInSet
  <2>3. QED
    BY <1>1, <1>2, <2>2
<1>3. CASE I = {}
  BY <1>1, <1>3
<1>4. QED
  BY <1>2, <1>3

LEMMA CutIsSeq ==
  ASSUME NEW S, NEW s \in Seq(S), NEW a \in Int, NEW b \in Int,
         a <= b => a >= 1 /\ b <= Len(s)
  PROVE  /\ SubSeq(s, a, b) \in Seq(S)
         /\ Len(SubSeq(s, a, b)) = IF a <= b THEN b - a + 1 ELSE 0
         /\ \A i \in 1 .. b - a + 1 : SubSeq(s, a, b)[i] = s[a + i - 1]
<1>1. \A i \in a .. b : s[i] \in S
  OBVIOUS
<1>2. QED
  BY <1>1, SubSeqProperties

LEMMA DropIsSeq ==
  ASSUME NEW S, NEW s \in Seq(S), NEW k \in Nat, k <= Len(s)
  PROVE  /\ SubSeq(s, 1 + k, Len(s)) \in Seq(S)
         /\ Len(SubSeq(s, 1 + k, Len(s))) = Len(s) - k
         /\ \A i \in 1 .. Len(s) - k : SubSeq(s, 1 + k, Len(s))[i] = s[i + k]
<1> DEFINE a == 1 + k
           b == Len(s)
<1>1. a \in Int /\ b \in Int /\ (a <= b => a >= 1 /\ b <= Len(s))
  OBVIOUS
<1>2. b - a + 1 = Len(s) - k /\ (~(a <= b) => Len(s) - k = 0)
  OBVIOUS
<1>3. \A i \in Int : a + i - 1 = i + k
  OBVIOUS
<1> HIDE DEF a, b
<1>4. /\ SubSeq(s, a, b) \in Seq(S)
      /\ Len(SubSeq(s, a, b)) = IF a <= b THEN b - a + 1 ELSE 0
      /\ \A i \in 1 .. b - a + 1 : SubSeq(s, a, b)[i] = s[a + i - 1]
  BY <1>1, CutIsSeq
<1>5. \A i \in 1 .. Len(s) - k : SubSeq(s, a, b)[i] = s[i + k]
  BY <1>2, <1>3, <1>4
<1>6. Len(SubSeq(s, a, b)) = Len(s) - k
  BY <1>2, <1>4
<1>7. QED
  BY <1>4, <1>5, <1>6 DEF a, b

\* A read() returns characters that are there.
LEMMA ReadCountBound ==
  ASSUME NEW S, text \in Seq(S), NEW c, pos[c] \in Nat
  PROVE  /\ ReadCount(c) \in Nat
         /\ ReadCount(c) > 0 => pos[c] + ReadCount(c) <= Len(text)
<1> DEFINE rest    == SubSeq(text, pos[c] + 1, Len(text))
           newline == FirstNewline(rest)
           T       == {BUFFSIZE, Len(rest)} \cup
                        IF ~Regular /\ newline # 0 THEN {newline} ELSE {}
<1>1. /\ Len(rest) \in Nat
      /\ Len(rest) = IF pos[c] + 1 <= Len(text) THEN Len(text) - pos[c] ELSE 0
  BY CutIsSeq
<1>2. ReadCount(c) = Min(T)
  BY DEF ReadCount
<1> HIDE DEF rest
<1>3. newline \in Nat
  BY <1>1, FirstNewlineIs
<1> HIDE DEF newline
<1>4. T \in SUBSET Nat /\ Len(rest) \in T
  BY <1>1, <1>3, BoundsAssumption
<1>5. Min(T) \in Nat /\ Min(T) <= Len(rest)
  BY <1>4, MinInSet
<1>6. QED
  BY <1>1, <1>2, <1>5

\* What the file holds after a write is made of what it held and of the written.
LEMMA AppendedIsSeq ==
  ASSUME NEW S, text \in Seq(S), NEW chars \in Seq(S)
  PROVE  Appended(chars) \in Seq(S)
<1> DEFINE all == text \o chars
<1>1. all \in Seq(S) /\ Len(all) \in Nat
  BY ConcatProperties
<1>2. FirstNewline(all) \in Nat
  BY <1>1, FirstNewlineIs
<1>3. SubSeq(all, 1 + FirstNewline(all), Len(all)) \in Seq(S)
  BY <1>1, <1>2, CutIsSeq
<1>4. QED
  BY <1>1, <1>3 DEF Appended

-----------------------------------------------------------------------------
(* The types: where everybody is ... *)

StartedPlaces == ThreadPlaces \cup Ended
Started == {c \in Clients : pc[c] \notin {"none", "backlog"}}

PlacesTyped ==
  /\ {termination_flag, timestamp_flag, dangling} \subseteq BOOLEAN
  /\ main \in MainPlaces
  /\ pc \in [Clients -> StartedPlaces \cup {"none", "backlog"}]
  /\ thread_queue \in Seq(Started) /\ IsInjective(thread_queue)
  /\ gone \subseteq Clients /\ alarms \in 0 .. MaxAlarms

LEMMA PlacesKept ==
  ASSUME PlacesTyped, UNCHANGED thread_queue,
         {termination_flag', timestamp_flag', dangling'} \subseteq BOOLEAN,
         main' \in MainPlaces,
         pc' \in [Clients -> StartedPlaces \cup {"none", "backlog"}],
         \A c \in Clients : pc[c] \notin {"none", "backlog"} =>
                              pc'[c] \notin {"none", "backlog"},
         gone' \subseteq Clients, alarms' \in 0 .. MaxAlarms
  PROVE  PlacesTyped'
<1>1. Started \subseteq Started'
  BY DEF Started
<1>2. \A S, T : S \subseteq T => Seq(S) \subseteq Seq(T)
  OBVIOUS
<1>3. thread_queue' \in Seq(Started')
  BY <1>1, <1>2 DEF PlacesTyped
<1>4. QED
  BY <1>3 DEF PlacesTyped

\* Steps that leave the connections, the queue and the flags alone.
LEMMA OnlyMainMoves ==
  ASSUME PlacesTyped, UNCHANGED <<flags, thread_queue, dangling, alarms, pc, gone>>,
         main' \in MainPlaces
  PROVE  PlacesTyped'
BY PlacesKept DEF PlacesTyped, flags

\* A connection thread moves itself, and may kill the process.
LEMMA OneThreadMoves ==
  ASSUME PlacesTyped, NEW c \in Clients, pc[c] \in ThreadPlaces,
         UNCHANGED <<flags, thread_queue, dangling, alarms, gone>>,
         main' \in {main, "killed"},
         pc' = pc \/ \E place \in StartedPlaces : Goto(c, place)
  PROVE  PlacesTyped'
<1>1. main' \in MainPlaces
  BY DEF PlacesTyped, MainPlaces
<1>2. CASE pc' = pc
  BY <1>1, <1>2, OnlyMainMoves
<1>3. ASSUME NEW place \in StartedPlaces, Goto(c, place)
      PROVE  PlacesTyped'
  <2>1. place \notin {"none", "backlog"}
    BY DEF StartedPlaces, ThreadPlaces, Ended
  <2>2. QED
    BY <1>1, <1>3, <2>1, PlacesKept DEF PlacesTyped, Goto, flags
<1>4. QED
  BY <1>2, <1>3

LEMMA ThreadStepPlaces ==
  ASSUME PlacesTyped, NEW c \in Clients, ThreadStep(c)
  PROVE  PlacesTyped'
<1>0. /\ c # Main /\ ThreadPlaces \subseteq StartedPlaces
      /\ {"closed", "failed"} \subseteq StartedPlaces
  BY MainAssumption DEF StartedPlaces, Ended
<1>1. pc[c] \in ThreadPlaces
  BY <1>0 DEF ThreadStep, Start, TestTermination, CallRecv, Recv, RecvFails,
     SeekTo, NothingToWrite, StoreLine, CallWriting, WriteSome, WriteFails,
     Written, CallReading, ReadSome, ReadFails, LineRead, SendSome, SendFails,
     BrokenPipe, LineSent, AtPlace, AtWrite, Sending, ThreadPlaces
<1>2. CASE \/ Start(c) \/ TestTermination(c) \/ CallRecv(c)
           \/ Recv(c) \/ RecvFails(c)
  <2>1. /\ UNCHANGED <<flags, server, gone>>
        /\ \E place \in ThreadPlaces \cup {"failed"} : Goto(c, place)
    BY <1>2 DEF Start, TestTermination, CallRecv, Recv, RecvFails, peers,
                ThreadPlaces
  <2>2. QED
    BY <1>0, <1>1, <2>1, OneThreadMoves DEF server
<1>3. CASE SeekTo(c) \/ NothingToWrite(c) \/ StoreLine(c)
  <2>1. /\ UNCHANGED <<flags, server, gone>>
        /\ \E place \in ThreadPlaces \cup {"failed"} : Goto(c, place)
    BY <1>3 DEF SeekTo, NothingToWrite, StoreLine, peers, ThreadPlaces
  <2>2. QED
    BY <1>0, <1>1, <2>1, OneThreadMoves DEF server
<1>4. CASE \/ CallWriting(c) \/ WriteSome(c) \/ CallReading(c) \/ SendSome(c)
           \/ BrokenPipe(c)
  <2>1. /\ UNCHANGED <<flags, thread_queue, dangling, alarms, gone, pc>>
        /\ main' \in {main, "killed"}
    BY <1>4 DEF CallWriting, WriteSome, CallReading, SendSome, BrokenPipe,
                server, peers
  <2>2. QED
    BY <1>1, <2>1, OneThreadMoves
<1>5. CASE WriteFails(c) \/ Written(c) \/ ReadSome(c) \/ ReadFails(c)
  <2>1. /\ UNCHANGED <<flags, thread_queue, dangling, alarms, gone>>
        /\ main' = main
        /\ \E place \in ThreadPlaces \cup {"failed"} : Goto(c, place)
    BY <1>0, <1>5 DEF WriteFails, Written, ReadSome, ReadFails, server, peers,
                      ThreadPlaces
  <2>2. QED
    BY <1>0, <1>1, <2>1, OneThreadMoves
<1>6. CASE LineRead(c) \/ SendFails(c) \/ LineSent(c)
  <2>1. /\ UNCHANGED <<flags, server, gone>>
        /\ \E place \in ThreadPlaces \cup {"failed", "closed"} : Goto(c, place)
    BY <1>6 DEF LineRead, SendFails, LineSent, peers, ThreadPlaces
  <2>2. QED
    BY <1>0, <1>1, <2>1, OneThreadMoves DEF server
<1>7. QED
  BY <1>2, <1>3, <1>4, <1>5, <1>6 DEF ThreadStep

LEMMA MainStepPlaces ==
  ASSUME PlacesTyped, MainStep
  PROVE  PlacesTyped'
<1>1. CASE \/ CallWriting(Main) \/ WriteSome(Main) \/ WriteFails(Main)
           \/ StampWritten \/ TestFlags \/ CallAccept
           \/ Exit \/ \E c \in Clients : AcceptFails(c) /\ dangling' = dangling
  <2>1. /\ UNCHANGED <<flags, thread_queue, dangling, alarms, pc, gone>>
        /\ main' \in MainPlaces
    BY <1>1 DEF CallWriting, WriteSome, WriteFails, StampWritten, TestFlags,
                CallAccept, Exit, AcceptFails, server, peers, PlacesTyped,
                MainPlaces
  <2>2. QED
    BY <2>1, OnlyMainMoves
<1>2. CASE ClearFlag
  BY <1>2, PlacesKept DEF ClearFlag, PlacesTyped, MainPlaces, peers
<1>3. ASSUME NEW c \in Clients, AcceptFails(c)
      PROVE  PlacesTyped'
  BY <1>3, PlacesKept DEF AcceptFails, PlacesTyped, MainPlaces, peers, flags
<1>4. ASSUME NEW c \in Clients, EnqueueFails(c)
      PROVE  PlacesTyped'
  BY <1>4, PlacesKept DEF EnqueueFails, PlacesTyped, MainPlaces, peers, flags,
                          Goto, StartedPlaces, ThreadPlaces
<1>5. ASSUME NEW c \in Clients, Accept(c)
      PROVE  PlacesTyped'
  <2>1. /\ pc' = [pc EXCEPT ![c] = "start"]
        /\ pc[c] = "backlog" /\ main' = "test"
        /\ thread_queue' = Append(thread_queue, c)
        /\ UNCHANGED <<flags, dangling, alarms, gone>>
    BY <1>5 DEF Accept, Goto, peers
  <2>2. /\ pc' \in [Clients -> StartedPlaces \cup {"none", "backlog"}]
        /\ Started' = Started \cup {c} /\ c \notin Started
    BY <2>1 DEF PlacesTyped, Started, StartedPlaces, ThreadPlaces
  <2> DEFINE S == Started'
             q == thread_queue
  <2>3. q \in Seq(S) /\ c \in S /\ \A i \in 1 .. Len(q) : q[i] # c
    <3>1. \A A, B : A \subseteq B => Seq(A) \subseteq Seq(B)
      OBVIOUS
    <3>2. \A i \in 1 .. Len(q) : q[i] \in Started
      BY DEF PlacesTyped
    <3>3. QED
      BY <2>2, <3>1, <3>2 DEF PlacesTyped
  <2>4. IsInjective(q)
    BY DEF PlacesTyped
  <2> HIDE DEF S
  <2>5. /\ Append(q, c) \in Seq(S) /\ Len(Append(q, c)) = Len(q) + 1
        /\ \A i \in 1 .. Len(q) : Append(q, c)[i] = q[i]
        /\ Append(q, c)[Len(q) + 1] = c
        /\ Len(q) \in Nat
    BY <2>3, AppendProperties
  <2> HIDE DEF q
  <2>6. IsInjective(Append(q, c))
    <3> SUFFICES ASSUME NEW i \in 1 .. Len(q) + 1, NEW j \in 1 .. Len(q) + 1,
                        Append(q, c)[i] = Append(q, c)[j]
                 PROVE  i = j
      BY <2>5 DEF IsInjective
    <3>1. \A k \in 1 .. Len(q) + 1 : k \in 1 .. Len(q) \/ k = Len(q) + 1
      BY <2>5
    <3>2. \A k, l \in 1 .. Len(q) : q[k] = q[l] => k = l
      BY <2>3, <2>4 DEF IsInjective
    <3>3. QED
      BY <2>3, <2>5, <3>1, <3>2
  <2>7. QED
    BY <2>1, <2>2, <2>5, <2>6 DEF PlacesTyped, MainPlaces, flags, q, S
<1>6. CASE Join
  <2> DEFINE q == thread_queue
  <2>1. q \in Seq(Started) /\ IsInjective(q) /\ q # <<>>
    BY <1>6 DEF PlacesTyped, Join
  <2>2. /\ Tail(q) \in Seq(Started) /\ Len(Tail(q)) = Len(q) - 1
        /\ \A i \in 1 .. Len(Tail(q)) : Tail(q)[i] = q[i + 1]
        /\ Len(q) \in Nat
    BY <2>1, HeadTailProperties
  <2>3. UNCHANGED <<flags, main, dangling, alarms, pc, gone>> /\ q' = Tail(q)
    BY <1>6 DEF Join, peers
  <2>4. Started' = Started
    BY <2>3 DEF Started
  <2> HIDE DEF q
  <2>5. IsInjective(Tail(q))
    <3> SUFFICES ASSUME NEW i \in 1 .. Len(q) - 1, NEW j \in 1 .. Len(q) - 1,
                        Tail(q)[i] = Tail(q)[j]
                 PROVE  i = j
      BY <2>2 DEF IsInjective
    <3>1. i + 1 \in 1 .. Len(q) /\ j + 1 \in 1 .. Len(q) /\ q[i + 1] = q[j + 1]
      BY <2>2
    <3>2. i + 1 = j + 1
      BY <2>1, <3>1 DEF IsInjective
    <3>3. QED
      BY <3>2
  <2>6. QED
    BY <2>2, <2>3, <2>4, <2>5 DEF PlacesTyped, flags, q
<1>7. QED
  BY <1>1, <1>2, <1>3, <1>4, <1>5, <1>6 DEF MainStep

LEMMA OtherPlaces ==
  ASSUME PlacesTyped,
         \/ \E c \in Clients : ClientStep(c)
         \/ \E t \in ThreadIds :
              MonitorStep(t) \/ SpuriousWakeup(t) \/ Terminate(t) \/ Alarm(t)
  PROVE  PlacesTyped'
<1>1. ASSUME NEW c \in Clients, ClientStep(c)
      PROVE  PlacesTyped'
  BY <1>1, PlacesKept DEF ClientStep, Connect, SendFirst, SendNewline, Leave,
     PlacesTyped, Goto, flags, server, peers
<1>2. ASSUME NEW t \in ThreadIds, MonitorStep(t) \/ SpuriousWakeup(t)
      PROVE  PlacesTyped'
  <2>1. UNCHANGED <<flags, server, pc, gone>>
    BY <1>2 DEF MonitorStep, SpuriousWakeup, peers
  <2>2. QED
    BY <2>1, OnlyMainMoves DEF server, PlacesTyped
<1>3. ASSUME NEW t \in ThreadIds, Interrupts(t)
      PROVE  /\ main' \in MainPlaces
             /\ pc' \in [Clients -> StartedPlaces \cup {"none", "backlog"}]
             /\ \A c \in Clients : pc[c] \notin {"none", "backlog"} =>
                                     pc'[c] \notin {"none", "backlog"}
  BY <1>3 DEF Interrupts, Put, PlacesTyped, MainPlaces, StartedPlaces,
              ThreadPlaces
<1>4. ASSUME NEW t \in ThreadIds, Terminate(t)
      PROVE  PlacesTyped'
  <2>1. Interrupts(t) /\ UNCHANGED <<timestamp_flag, dangling, thread_queue, gone, alarms>>
        /\ termination_flag' = TRUE
    BY <1>4 DEF Terminate, peers
  <2>2. QED
    BY <1>3, <2>1, PlacesKept DEF PlacesTyped
<1>5. ASSUME NEW t \in ThreadIds, Alarm(t)
      PROVE  PlacesTyped'
  <2>1. /\ Interrupts(t) /\ timestamp_flag' = TRUE
        /\ UNCHANGED <<termination_flag, dangling, thread_queue, gone>>
        /\ alarms' = alarms \/ (alarms < MaxAlarms /\ alarms' = alarms + 1)
    BY <1>5 DEF Alarm, peers
  <2>2. alarms' \in 0 .. MaxAlarms
    BY <2>1, BoundsAssumption DEF PlacesTyped
  <2>3. QED
    BY <1>3, <2>1, <2>2, PlacesKept DEF PlacesTyped
<1>6. QED
  BY <1>1, <1>2, <1>4, <1>5

\* ... and what everybody has received, stored and read.
TextTyped ==
  /\ text \in Seq(Chars) /\ pos \in [Clients -> Nat]
  /\ line \in [Clients -> Seq(Chars)] /\ left \in [ThreadIds -> Seq(Chars)]
  /\ wire \in [Clients -> Seq(Chars)] /\ answer \in [Clients -> Seq(Chars)]

LEMMA PutTyped ==
  ASSUME NEW D, NEW S, NEW f \in [D -> S], NEW d, NEW v \in S
  PROVE  Put(f, d, v) \in [D -> S]
BY DEF Put

\* Steps that change one thread's buffers.
LEMMA LeftPut ==
  ASSUME TextTyped, NEW t \in ThreadIds, NEW v \in Seq(Chars),
         left' = Put(left, t, v), UNCHANGED <<text, pos, line, peers>>
  PROVE  TextTyped'
<1>1. left' \in [ThreadIds -> Seq(Chars)]
  BY DEF Put, TextTyped
<1>2. QED
  BY <1>1 DEF TextTyped, peers

LEMMA LinePut ==
  ASSUME TextTyped, NEW c \in Clients, NEW v \in Seq(Chars),
         line' = Put(line, c, v),
         pos' = pos \/ \E p \in Nat : pos' = Put(pos, c, p),
         UNCHANGED <<text, left, peers>>
  PROVE  TextTyped'
<1>1. line' \in [Clients -> Seq(Chars)]
  BY DEF Put, TextTyped
<1>2. pos' \in [Clients -> Nat]
  BY DEF Put, TextTyped
<1>3. QED
  BY <1>1, <1>2 DEF TextTyped, peers

LEMMA OneChar ==
  ASSUME NEW x \in Chars
  PROVE  <<x>> \in Seq(Chars) /\ <<x, NL>> \in Seq(Chars) /\ NL \in Chars
BY DEF Chars

\* Of what a thread has to write or to send it gives a part away and keeps the
\* rest.
LEMMA SplitTyped ==
  ASSUME NEW s \in Seq(Chars), NEW n \in 1 .. Len(s)
  PROVE  SubSeq(s, 1, n) \in Seq(Chars) /\ SubSeq(s, n + 1, Len(s)) \in Seq(Chars)
<1>1. Len(s) \in Nat /\ n \in Nat
  OBVIOUS
<1>2. QED
  BY <1>1, CutIsSeq

LEMMA WriteSomeText ==
  ASSUME TextTyped, NEW t \in ThreadIds, WriteSome(t)
  PROVE  TextTyped'
<1>1. PICK n \in 1 .. Len(left[t]) :
        /\ text' = Appended(SubSeq(left[t], 1, n))
        /\ left' = Put(left, t, SubSeq(left[t], n + 1, Len(left[t])))
  BY DEF WriteSome
<1>2. left[t] \in Seq(Chars)
  BY DEF TextTyped
<1>3. text' \in Seq(Chars)
  BY <1>1, <1>2, SplitTyped, AppendedIsSeq DEF TextTyped
<1>4. left' \in [ThreadIds -> Seq(Chars)]
  BY <1>1, <1>2, SplitTyped, PutTyped DEF TextTyped
<1>5. UNCHANGED <<pos, line, peers>>
  BY DEF WriteSome
<1>6. QED
  BY <1>3, <1>4, <1>5 DEF TextTyped, peers

LEMMA SendSomeText ==
  ASSUME TextTyped, NEW c \in Clients, SendSome(c)
  PROVE  TextTyped'
<1>1. PICK n \in 1 .. Len(left[c]) :
        /\ left' = Put(left, c, SubSeq(left[c], n + 1, Len(left[c])))
        /\ answer' = IF c \in gone THEN answer
                     ELSE Put(answer, c, answer[c] \o SubSeq(left[c], 1, n))
  BY DEF SendSome
<1>2. left[c] \in Seq(Chars) /\ answer[c] \in Seq(Chars)
  BY DEF TextTyped, ThreadIds
<1>3. answer[c] \o SubSeq(left[c], 1, n) \in Seq(Chars)
  BY <1>2, SplitTyped, ConcatProperties
<1>4. answer' \in [Clients -> Seq(Chars)]
  BY <1>1, <1>3, PutTyped DEF TextTyped
<1>5. left' \in [ThreadIds -> Seq(Chars)]
  BY <1>1, <1>2, SplitTyped, PutTyped DEF TextTyped
<1>6. UNCHANGED <<text, pos, line, wire>>
  BY DEF SendSome
<1>7. QED
  BY <1>4, <1>5, <1>6 DEF TextTyped

LEMMA ReadSomeText ==
  ASSUME TextTyped, NEW c \in Clients, ReadSome(c)
  PROVE  TextTyped'
<1> DEFINE n       == ReadCount(c)
           chars   == SubSeq(text, pos[c] + 1, pos[c] + n)
           newline == FirstNewline(chars)
           kept    == IF newline = 0 THEN chars ELSE SubSeq(chars, 1, newline)
<1>1. /\ pos' = Put(pos, c, pos[c] + n)
      /\ line' = Put(line, c, line[c] \o kept)
      /\ UNCHANGED <<text, left, peers>>
  BY DEF ReadSome
<1>2. text \in Seq(Chars) /\ pos[c] \in Nat /\ line[c] \in Seq(Chars)
  BY DEF TextTyped
<1>3. n \in Nat /\ (n > 0 => pos[c] + n <= Len(text))
  BY <1>2, ReadCountBound
<1> HIDE DEF n
<1>4. chars \in Seq(Chars) /\ Len(chars) \in Nat
  <2>1. pos[c] + 1 <= pos[c] + n => pos[c] + 1 >= 1 /\ pos[c] + n <= Len(text)
    BY <1>2, <1>3
  <2>2. chars \in Seq(Chars)
    BY <1>2, <1>3, <2>1, CutIsSeq
  <2>3. QED
    BY <2>2
<1> HIDE DEF chars
<1>5. newline \in Nat /\ newline <= Len(chars)
  BY <1>4, FirstNewlineIs
<1> HIDE DEF newline
<1>6. kept \in Seq(Chars)
  BY <1>4, <1>5, CutIsSeq
<1> HIDE DEF kept
<1>7. line[c] \o kept \in Seq(Chars) /\ pos[c] + n \in Nat
  BY <1>2, <1>3, <1>6, ConcatProperties
<1>8. QED
  BY <1>1, <1>7, PutTyped DEF TextTyped, peers

LEMMA ThreadStepText ==
  ASSUME TextTyped, NEW c \in Clients, ThreadStep(c)
  PROVE  TextTyped'
<1>0. /\ <<>> \in Seq(Chars) /\ c \in ThreadIds /\ 0 \in Nat
      /\ line[c] \in Seq(Chars) /\ wire[c] \in Seq(Chars)
  BY DEF TextTyped, ThreadIds
<1>1. CASE \/ Start(c) \/ TestTermination(c) \/ CallRecv(c) \/ RecvFails(c)
           \/ CallWriting(c) \/ WriteFails(c) \/ ReadFails(c)
           \/ SendFails(c) \/ BrokenPipe(c)
  BY <1>1 DEF Start, TestTermination, CallRecv, RecvFails, CallWriting,
     WriteFails, ReadFails, SendFails, BrokenPipe, TextTyped, buffers, peers
<1>2. CASE Recv(c)
  <2>1. line[c] \o wire[c] \in Seq(Chars)
    BY <1>0, ConcatProperties
  <2>2. QED
    BY <1>0, <1>2, <2>1, PutTyped DEF Recv, TextTyped
<1>3. CASE SeekTo(c)
  <2>1. UNCHANGED <<text, left, peers>>
    BY <1>3 DEF SeekTo
  <2>2. UNCHANGED <<pos, line>>
        \/ /\ \E p \in Nat : pos' = Put(pos, c, p)
           /\ line' = Put(line, c, <<>>)
    BY <1>3 DEF SeekTo, SeekTargets
  <2>3. CASE UNCHANGED <<pos, line>>
    BY <2>1, <2>3 DEF TextTyped, peers
  <2>4. QED
    BY <1>0, <2>1, <2>2, <2>3, LinePut
<1>4. CASE NothingToWrite(c) \/ CallReading(c)
  BY <1>0, <1>4, LinePut DEF NothingToWrite, CallReading
<1>5. CASE Written(c)
  BY <1>0, <1>5, LinePut DEF Written
<1>6. CASE StoreLine(c) \/ LineRead(c) \/ LineSent(c)
  BY <1>0, <1>6, LeftPut DEF StoreLine, LineRead, LineSent
<1>7. QED
  BY <1>0, <1>1, <1>2, <1>3, <1>4, <1>5, <1>6, WriteSomeText, SendSomeText,
     ReadSomeText DEF ThreadStep

LEMMA MainStepText ==
  ASSUME TextTyped, MainStep
  PROVE  TextTyped'
<1>0. Main \in ThreadIds /\ Main \in Chars
  BY DEF ThreadIds, Chars
<1>1. CASE TestFlags
  <2>1. \/ UNCHANGED <<left, text, pos, line, peers>>
        \/ /\ left' = Put(left, Main, <<Main, NL>>)
           /\ UNCHANGED <<text, pos, line, peers>>
    BY <1>1 DEF TestFlags
  <2>2. <<Main, NL>> \in Seq(Chars)
    BY <1>0, OneChar
  <2>3. CASE UNCHANGED <<left, text, pos, line, peers>>
    BY <2>3 DEF TextTyped, peers
  <2>4. QED
    BY <1>0, <2>1, <2>2, <2>3, LeftPut
<1>2. CASE Exit
  BY <1>2 DEF Exit, TextTyped, buffers, peers
<1>3. CASE \/ CallWriting(Main) \/ WriteFails(Main) \/ StampWritten
           \/ ClearFlag \/ CallAccept \/ Join
  BY <1>3 DEF CallWriting, WriteFails, StampWritten, ClearFlag, CallAccept,
     Join, TextTyped, buffers, peers
<1>4. CASE \E c \in Clients : Accept(c) \/ AcceptFails(c) \/ EnqueueFails(c)
  BY <1>4 DEF Accept, AcceptFails, EnqueueFails, TextTyped, buffers, peers
<1>5. QED
  BY <1>0, <1>1, <1>2, <1>3, <1>4, WriteSomeText DEF MainStep

LEMMA OtherText ==
  ASSUME TextTyped,
         \/ \E c \in Clients : ClientStep(c)
         \/ \E t \in ThreadIds :
              MonitorStep(t) \/ SpuriousWakeup(t) \/ Terminate(t) \/ Alarm(t)
  PROVE  TextTyped'
<1>1. ASSUME NEW c \in Clients, Connect(c) \/ Leave(c)
      PROVE  TextTyped'
  BY <1>1 DEF Connect, Leave, TextTyped, buffers, peers
<1>2. ASSUME NEW c \in Clients, SendFirst(c)
      PROVE  TextTyped'
  <2>1. PICK first \in {c} \cup SeekArgs : wire' = Put(wire, c, <<first>>)
    BY <1>2 DEF SendFirst
  <2>2. first \in Chars
    BY DEF Chars, ThreadIds
  <2>3. QED
    BY <1>2, <2>1, <2>2, OneChar, PutTyped DEF SendFirst, TextTyped, buffers
<1>3. ASSUME NEW c \in Clients, SendNewline(c)
      PROVE  TextTyped'
  <2>1. wire[c] \in Seq(Chars) /\ NL \in Chars
    BY DEF TextTyped, Chars
  <2>2. Append(wire[c], NL) \in Seq(Chars)
    BY <2>1, AppendProperties
  <2>3. QED
    BY <1>3, <2>2, PutTyped DEF SendNewline, TextTyped, buffers
<1>4. ASSUME NEW t \in ThreadIds,
             MonitorStep(t) \/ SpuriousWakeup(t) \/ Terminate(t) \/ Alarm(t)
      PROVE  TextTyped'
  BY <1>4 DEF MonitorStep, SpuriousWakeup, Terminate, Alarm, TextTyped,
     buffers, peers
<1>5. QED
  BY <1>1, <1>2, <1>3, <1>4 DEF ClientStep

-----------------------------------------------------------------------------
(* ... and in the monitor *)

AtTyped == at \in [ThreadIds -> Mon!Places]

LEMMA AtKept ==
  ASSUME AtTyped, Mon!Next \/ UNCHANGED monitor
  PROVE  AtTyped'
<1>1. CASE UNCHANGED monitor
  BY <1>1 DEF AtTyped, monitor
<1>2. ASSUME NEW t \in ThreadIds,
             Mon!Call(t) \/ Mon!Step(t) \/ Mon!SpuriousWakeup(t)
      PROVE  AtTyped'
  <2>1. \/ at' = at
        \/ \E from, to \in Mon!Places : Mon!Move(t, from, to)
    BY <1>2 DEF Mon!Call, Mon!Step, Mon!SpuriousWakeup, Mon!StartReading,
       Mon!WaitToRead, Mon!ReturnFromCanRead, Mon!BroadcastCanRead,
       Mon!StopReading, Mon!StartWriting, Mon!WaitToWrite,
       Mon!ReturnFromCanWrite, Mon!StopWriting, Mon!Places,
       Mon!ReaderPlaces, Mon!WriterPlaces
  <2>2. QED
    BY <2>1 DEF AtTyped, Mon!Move
<1>3. QED
  BY <1>1, <1>2 DEF Mon!Next

Typed == PlacesTyped /\ TextTyped /\ AtTyped

LEMMA TypesInit == Init => Typed
<1> SUFFICES ASSUME Init PROVE Typed
  OBVIOUS
<1>1. PlacesTyped
  <2>1. thread_queue \in Seq(Started) /\ IsInjective(thread_queue)
    BY DEF Init, IsInjective
  <2>2. alarms \in 0 .. MaxAlarms /\ main \in MainPlaces
    BY BoundsAssumption DEF Init, MainPlaces
  <2>3. pc \in [Clients -> StartedPlaces \cup {"none", "backlog"}]
    BY DEF Init
  <2>4. QED
    BY <2>1, <2>2, <2>3 DEF Init, PlacesTyped
<1>2. TextTyped
  BY DEF Init, TextTyped
<1>3. AtTyped
  BY DEF Init, Mon!Init, AtTyped, Mon!Places
<1>4. QED
  BY <1>1, <1>2, <1>3 DEF Typed

LEMMA TypesStep ==
  ASSUME Typed, [Next]_vars
  PROVE  Typed'
<1> USE DEF Typed
<1>1. AtTyped'
  BY NextMonitor, AtKept
<1>2. CASE MainStep
  BY <1>1, <1>2, MainStepPlaces, MainStepText
<1>3. ASSUME NEW c \in Clients, ThreadStep(c)
      PROVE  Typed'
  BY <1>1, <1>3, ThreadStepPlaces, ThreadStepText
<1>4. CASE \/ \E c \in Clients : ClientStep(c)
           \/ \E t \in ThreadIds :
                MonitorStep(t) \/ SpuriousWakeup(t) \/ Terminate(t) \/ Alarm(t)
  BY <1>1, <1>4, OtherPlaces, OtherText
<1>5. CASE UNCHANGED vars
  <2>1. TextTyped'
    BY <1>5 DEF vars, TextTyped, buffers, peers
  <2>2. PlacesTyped'
    BY <1>5, OnlyMainMoves DEF vars, PlacesTyped, peers, server
  <2>3. QED
    BY <1>1, <2>1, <2>2
<1>6. QED
  BY <1>2, <1>3, <1>4, <1>5 DEF Next

\* Every variable of the server keeps its type: what is read from the data file
\* and received from the clients are characters, wherever the position of a
\* thread that reads is, and the queue of aesdsocket_main holds each started
\* thread at most once.
THEOREM SocketTypeOK == Spec => []TypeOK
<1>1. Typed => TypeOK
  BY DEF Typed, PlacesTyped, TextTyped, AtTyped, TypeOK, Started, StartedPlaces
<1>2. QED
  BY <1>1, TypesInit, TypesStep, PTL DEF Spec

-----------------------------------------------------------------------------
(* Where the threads are in the monitor's functions *)

\* Where a connection thread at a place of its own may be in the monitor: it
\* writes its line, reads the file, or has given up in the middle of either.
ClientAt(place) ==
  {"outside"} \cup
    CASE place = "write"           -> Mon!WriterPlaces
      [] place = "read"            -> Mon!ReaderPlaces
      [] place \in {"eol", "eof"}  -> {"reading"}
      [] place = "failed"          -> {"reading", "writing"}
      [] OTHER                     -> {}

\* The main thread writes time stamps; it may be killed while it does.
MainAt(place) ==
  {"outside"} \cup
    CASE place \in {"stamp", "killed"} -> Mon!WriterPlaces
      [] place \in {"join", "exited"}  -> {"writing"}
      [] OTHER                         -> {}

\* Without time stamps the main thread never enters the monitor.
NoStamps ==
  ~timestamp_flag /\ main \notin {"stamp", "stamped"} /\ at[Main] = "outside"

PlacesAgree ==
  /\ \A c \in Clients : at[c] \in ClientAt(pc[c])
  /\ at[Main] \in MainAt(main)
  /\ ~UseTimestamp => NoStamps

\* A step of a connection, which may kill the process, ...
LEMMA ClientAgrees ==
  ASSUME PlacesAgree, NEW c \in Clients, at'[c] \in ClientAt(pc'[c]),
         \A t \in ThreadIds : t # c => at'[t] = at[t],
         \A d \in Clients : d # c => pc'[d] = pc[d],
         main' \in {main, "killed"}, timestamp_flag' = timestamp_flag
  PROVE  PlacesAgree'
<1>1. \A d \in Clients : d # c => at'[d] = at[d]
  BY DEF ThreadIds
<1>2. at'[Main] = at[Main]
  BY MainAssumption DEF ThreadIds
<1>3. at[Main] \in MainAt("killed")
  BY DEF PlacesAgree, MainAt, Mon!WriterPlaces
<1>4. QED
  BY <1>1, <1>2, <1>3 DEF PlacesAgree, NoStamps

\* ... and of the main thread, which may start the thread of a connection.
LEMMA MainAgrees ==
  ASSUME PlacesAgree, at'[Main] \in MainAt(main'), ~UseTimestamp => NoStamps',
         \A c \in Clients : at'[c] = at[c] /\ ClientAt(pc[c]) \subseteq ClientAt(pc'[c])
  PROVE  PlacesAgree'
BY DEF PlacesAgree

\* A move in the monitor is the move of one thread.
LEMMA MovedFrom ==
  ASSUME AtTyped, NEW t \in ThreadIds, NEW from, NEW to, Mon!Move(t, from, to)
  PROVE  /\ at[t] = from /\ at'[t] = to
         /\ \A u \in ThreadIds : u # t => at'[u] = at[u]
BY DEF AtTyped, Mon!Move

LEMMA ThreadStepAgrees ==
  ASSUME Typed, PlacesAgree, NEW c \in Clients, ThreadStep(c)
  PROVE  PlacesAgree'
<1> DEFINE Moves(to, place) ==
             /\ at'[c] = to /\ (\A u \in ThreadIds : u # c => at'[u] = at[u])
             /\ pc'[c] = place /\ (\A d \in Clients : d # c => pc'[d] = pc[d])
             /\ main' = main /\ timestamp_flag' = timestamp_flag
<1>0. /\ c \in ThreadIds /\ c # Main /\ AtTyped
      /\ at[c] \in ClientAt(pc[c])
  BY MainAssumption DEF ThreadIds, Typed, PlacesAgree
<1>1. \A place : Goto(c, place) =>
        pc'[c] = place /\ \A d \in Clients : d # c => pc'[d] = pc[d]
  BY DEF Typed, PlacesTyped, Goto
<1>2. ASSUME NEW to, NEW place, Moves(to, place), to \in ClientAt(place)
      PROVE  PlacesAgree'
  BY <1>2, ClientAgrees
<1>3. CASE \/ Start(c) \/ TestTermination(c) \/ CallRecv(c)
           \/ Recv(c) \/ RecvFails(c)
  <2>1. at[c] = "outside"
    BY <1>0, <1>3 DEF Start, TestTermination, CallRecv, Recv, RecvFails,
       AtPlace, ClientAt
  <2>2. \E place : Goto(c, place) /\ UNCHANGED <<monitor, flags, server>>
    BY <1>3 DEF Start, TestTermination, CallRecv, Recv, RecvFails
  <2>3. \E place : Moves("outside", place)
    BY <1>1, <2>1, <2>2 DEF monitor, flags, server
  <2>4. QED
    BY <1>2, <2>3 DEF ClientAt
<1>4. CASE SeekTo(c) \/ NothingToWrite(c) \/ StoreLine(c)
  <2>1. at[c] = "outside"
    BY <1>0, <1>4 DEF SeekTo, NothingToWrite, StoreLine, AtPlace, ClientAt
  <2>2. \E place : Goto(c, place) /\ UNCHANGED <<monitor, flags, server>>
    BY <1>4 DEF SeekTo, NothingToWrite, StoreLine
  <2>3. \E place : Moves("outside", place)
    BY <1>1, <2>1, <2>2 DEF monitor, flags, server
  <2>4. QED
    BY <1>2, <2>3 DEF ClientAt
<1>5. CASE WriteSome(c) \/ SendSome(c) \/ BrokenPipe(c)
  <2>1. UNCHANGED <<monitor, flags, pc>> /\ main' \in {main, "killed"}
    BY <1>5 DEF WriteSome, SendSome, BrokenPipe, server
  <2>2. QED
    BY <1>0, <2>1, ClientAgrees DEF monitor, flags
<1>6. CASE CallWriting(c) \/ CallReading(c)
  <2>1. /\ Mon!Call(c) /\ UNCHANGED <<flags, server, pc>>
        /\ \/ pc[c] = "write" /\ at'[c] = "start_writing"
           \/ pc[c] = "read" /\ at'[c] = "start_reading"
    BY <1>0, <1>6 DEF CallWriting, CallReading, AtWrite, AtPlace
  <2>2. \A u \in ThreadIds : u # c => at'[u] = at[u]
    BY <1>0, <2>1, MovedFrom DEF Mon!Call
  <2>3. QED
    BY <2>1, <2>2, ClientAgrees
       DEF flags, server, ClientAt, Mon!WriterPlaces, Mon!ReaderPlaces
<1>7. CASE Written(c)
  <2>1. /\ Mon!StopWriting(c) /\ UNCHANGED <<flags, server>>
        /\ \E place : Goto(c, place)
    BY <1>7 DEF Written
  <2>2. \E place : Moves("outside", place)
    BY <1>0, <1>1, <2>1, MovedFrom DEF Mon!StopWriting, flags, server
  <2>3. QED
    BY <1>2, <2>2 DEF ClientAt
<1>8. CASE LineRead(c)
  <2>1. /\ Mon!StopReading(c) /\ UNCHANGED <<flags, server>>
        /\ \E place : Goto(c, place)
    BY <1>8 DEF LineRead
  <2>2. \E place : Moves("outside", place)
    BY <1>0, <1>1, <2>1, MovedFrom DEF Mon!StopReading, flags, server
  <2>3. QED
    BY <1>2, <2>2 DEF ClientAt
<1>9. CASE WriteFails(c) \/ ReadFails(c)
  <2>1. /\ UNCHANGED <<monitor, flags, main>> /\ Goto(c, "failed")
        /\ at[c] \in {"reading", "writing"}
    BY <1>0, <1>9 DEF WriteFails, ReadFails, server
  <2>2. Moves(at[c], "failed")
    BY <1>1, <2>1 DEF monitor, flags
  <2>3. QED
    BY <1>2, <2>1, <2>2 DEF ClientAt
<1>10. CASE ReadSome(c)
  <2>1. /\ UNCHANGED <<monitor, flags, main>> /\ at[c] = "reading"
        /\ \E place \in {"eol", "eof", "read"} : Goto(c, place)
    BY <1>10 DEF ReadSome, server
  <2>2. \E place \in {"eol", "eof", "read"} : Moves("reading", place)
    BY <1>1, <2>1 DEF monitor, flags
  <2>3. QED
    BY <1>2, <2>2 DEF ClientAt, Mon!ReaderPlaces
<1>11. CASE SendFails(c) \/ LineSent(c)
  <2>1. at[c] = "outside"
    BY <1>0, <1>11 DEF SendFails, LineSent, Sending, ClientAt
  <2>2. \E place : Goto(c, place) /\ UNCHANGED <<monitor, flags, server>>
    BY <1>11 DEF SendFails, LineSent
  <2>3. \E place : Moves("outside", place)
    BY <1>1, <2>1, <2>2 DEF monitor, flags, server
  <2>4. QED
    BY <1>2, <2>3 DEF ClientAt
<1>12. QED
  BY <1>3, <1>4, <1>5, <1>6, <1>7, <1>8, <1>9, <1>10, <1>11 DEF ThreadStep

LEMMA MainStepAgrees ==
  ASSUME Typed, PlacesAgree, MainStep
  PROVE  PlacesAgree'
<1>0. /\ Main \in ThreadIds /\ Main \notin Clients /\ AtTyped
      /\ at[Main] \in MainAt(main) /\ (~UseTimestamp => NoStamps)
      /\ \A c \in Clients : c \in ThreadIds
  BY MainAssumption DEF ThreadIds, Typed, PlacesAgree
<1>1. CASE WriteSome(Main)
  <2>1. UNCHANGED <<monitor, flags, pc, main>>
    BY <1>1 DEF WriteSome, server
  <2>2. QED
    BY <2>1 DEF PlacesAgree, NoStamps, monitor, flags
<1>2. CASE CallWriting(Main)
  <2>1. /\ main = "stamp" /\ UNCHANGED <<flags, pc, main>> /\ Mon!Call(Main)
        /\ at'[Main] = "start_writing"
    BY <1>2 DEF CallWriting, AtWrite, server
  <2>2. \A u \in ThreadIds : u # Main => at'[u] = at[u]
    BY <1>0, <2>1, MovedFrom DEF Mon!Call
  <2>3. UseTimestamp /\ at'[Main] \in MainAt(main')
    BY <1>0, <2>1 DEF NoStamps, MainAt, Mon!WriterPlaces
  <2>4. QED
    BY <1>0, <2>1, <2>2, <2>3, MainAgrees
<1>3. CASE WriteFails(Main)
  <2>1. /\ main = "stamp" /\ UNCHANGED <<monitor, flags, pc>>
        /\ at[Main] = "writing" /\ main' = "join"
    BY <1>3 DEF WriteFails, AtWrite
  <2>2. UseTimestamp /\ at'[Main] \in MainAt(main')
    BY <1>0, <2>1 DEF NoStamps, MainAt, monitor
  <2>3. QED
    BY <1>0, <2>1, <2>2, MainAgrees DEF monitor
<1>4. CASE StampWritten
  <2>1. /\ main = "stamp" /\ UNCHANGED <<flags, pc>> /\ Mon!StopWriting(Main)
    BY <1>4 DEF StampWritten, AtWrite
  <2>2. at'[Main] = "outside" /\ \A u \in ThreadIds : u # Main => at'[u] = at[u]
    BY <1>0, <2>1, MovedFrom DEF Mon!StopWriting
  <2>3. UseTimestamp /\ at'[Main] \in MainAt(main')
    BY <1>0, <2>1, <2>2 DEF NoStamps, MainAt
  <2>4. QED
    BY <1>0, <2>1, <2>2, <2>3, MainAgrees
<1>5. CASE TestFlags \/ ClearFlag \/ CallAccept
  <2>1. /\ at[Main] = "outside" /\ UNCHANGED <<monitor, pc>>
        /\ timestamp_flag' \in {timestamp_flag, FALSE}
        /\ main' \in {"stamp", "stamped"} => timestamp_flag
    BY <1>0, <1>5 DEF TestFlags, ClearFlag, CallAccept, MainAt, flags
  <2>2. at'[Main] \in MainAt(main')
    BY <2>1 DEF MainAt, monitor
  <2>3. ~UseTimestamp => NoStamps'
    BY <1>0, <2>1 DEF NoStamps, monitor
  <2>4. QED
    BY <1>0, <2>1, <2>2, <2>3, MainAgrees DEF monitor
<1>6. CASE Join
  <2>1. UNCHANGED <<monitor, flags, pc, main>>
    BY <1>6 DEF Join
  <2>2. QED
    BY <2>1 DEF PlacesAgree, NoStamps, monitor, flags
<1>7. CASE Exit
  <2>1. main = "join" /\ main' \in {"exited", "killed"} /\ UNCHANGED <<monitor, flags, pc>>
    BY <1>7 DEF Exit
  <2>2. at'[Main] \in MainAt(main')
    BY <1>0, <2>1 DEF MainAt, monitor, Mon!WriterPlaces
  <2>3. ~UseTimestamp => NoStamps'
    BY <1>0, <2>1 DEF NoStamps, monitor, flags
  <2>4. QED
    BY <1>0, <2>1, <2>2, <2>3, MainAgrees DEF monitor
<1>8. ASSUME NEW c \in Clients, Accept(c) \/ AcceptFails(c) \/ EnqueueFails(c)
      PROVE  PlacesAgree'
  <2>1. /\ main = "accept" /\ main' \in {"test", "join"}
        /\ UNCHANGED <<monitor, flags>> /\ pc[c] = "backlog"
        /\ \A d \in Clients : d # c => pc'[d] = pc[d]
    BY <1>8 DEF Accept, AcceptFails, EnqueueFails, Goto, Typed, PlacesTyped
  <2>2. at'[Main] \in MainAt(main')
    BY <1>0, <2>1 DEF MainAt, monitor
  <2>3. ~UseTimestamp => NoStamps'
    BY <1>0, <2>1 DEF NoStamps, monitor, flags
  <2>4. ClientAt(pc[c]) \subseteq ClientAt(pc'[c])
    BY <2>1 DEF ClientAt
  <2>5. QED
    BY <1>0, <2>1, <2>2, <2>3, <2>4, MainAgrees DEF monitor
<1>9. QED
  BY <1>1, <1>2, <1>3, <1>4, <1>5, <1>6, <1>7, <1>8 DEF MainStep

\* A thread waiting in the monitor stays among the readers, or the writers.
LEMMA WaitingMoves ==
  ASSUME AtTyped, NEW t \in ThreadIds, MonitorStep(t) \/ SpuriousWakeup(t)
  PROVE  /\ \A u \in ThreadIds : u # t => at'[u] = at[u]
         /\ \/ at'[t] = at[t]
            \/ /\ at[t] \in Mon!ReaderPlaces \ {"reading"}
               /\ at'[t] \in Mon!ReaderPlaces
            \/ /\ at[t] \in Mon!WriterPlaces \ {"writing"}
               /\ at'[t] \in Mon!WriterPlaces
         /\ UNCHANGED <<flags, server, pc>>
<1> USE DEF Mon!ReaderPlaces, Mon!WriterPlaces
<1>0. UNCHANGED <<flags, server, pc>>
  BY DEF MonitorStep, SpuriousWakeup
<1>1. CASE Mon!StartReading(t)
  BY <1>0, <1>1, MovedFrom DEF Mon!StartReading
<1>2. CASE Mon!WaitToRead(t)
  BY <1>0, <1>2, MovedFrom DEF Mon!WaitToRead
<1>3. CASE Mon!ReturnFromCanRead(t)
  BY <1>0, <1>3, MovedFrom DEF Mon!ReturnFromCanRead
<1>4. CASE Mon!BroadcastCanRead(t)
  BY <1>0, <1>4, MovedFrom DEF Mon!BroadcastCanRead
<1>5. CASE Mon!StartWriting(t)
  BY <1>0, <1>5, MovedFrom DEF Mon!StartWriting
<1>6. CASE Mon!WaitToWrite(t)
  BY <1>0, <1>6, MovedFrom DEF Mon!WaitToWrite
<1>7. CASE Mon!ReturnFromCanWrite(t)
  BY <1>0, <1>7, MovedFrom DEF Mon!ReturnFromCanWrite
<1>8. CASE Mon!SpuriousWakeup(t)
  BY <1>0, <1>8 DEF Mon!SpuriousWakeup
<1>9. QED
  BY <1>1, <1>2, <1>3, <1>4, <1>5, <1>6, <1>7, <1>8
     DEF MonitorStep, SpuriousWakeup

LEMMA OtherAgrees ==
  ASSUME Typed, PlacesAgree,
         \/ \E c \in Clients : ClientStep(c)
         \/ \E t \in ThreadIds :
              MonitorStep(t) \/ SpuriousWakeup(t) \/ Terminate(t) \/ Alarm(t)
  PROVE  PlacesAgree'
<1>0. /\ Main \in ThreadIds /\ Main \notin Clients /\ AtTyped
      /\ at[Main] \in MainAt(main) /\ (~UseTimestamp => NoStamps)
      /\ \A c \in Clients : c \in ThreadIds /\ at[c] \in ClientAt(pc[c])
  BY MainAssumption DEF ThreadIds, Typed, PlacesAgree
<1>1. ASSUME NEW c \in Clients, ClientStep(c)
      PROVE  PlacesAgree'
  <2>1. /\ UNCHANGED <<monitor, flags, main>>
        /\ \A d \in Clients : pc'[d] = pc[d] \/ (pc[d] = "none" /\ pc'[d] = "backlog")
    BY <1>1 DEF ClientStep, Connect, SendFirst, SendNewline, Leave, Goto,
       server, Typed, PlacesTyped
  <2>2. \A d \in Clients : ClientAt(pc[d]) \subseteq ClientAt(pc'[d])
    BY <2>1 DEF ClientAt
  <2>3. QED
    BY <1>0, <2>1, <2>2, MainAgrees DEF NoStamps, monitor, flags
<1>2. ASSUME NEW t \in ThreadIds, MonitorStep(t) \/ SpuriousWakeup(t)
      PROVE  PlacesAgree'
  <2>1. UNCHANGED <<flags, server, pc>>
    BY <1>2 DEF MonitorStep, SpuriousWakeup
  <2>2. CASE t = Main
    <3>1. at'[Main] \in MainAt(main)
      BY <1>0, <1>2, <2>2, WaitingMoves
         DEF MainAt, Mon!ReaderPlaces, Mon!WriterPlaces
    <3>2. at[Main] = "outside" => at'[Main] = "outside"
      BY <1>0, <1>2, <2>2, WaitingMoves DEF Mon!ReaderPlaces, Mon!WriterPlaces
    <3>3. \A c \in Clients : at'[c] = at[c]
      BY <1>0, <1>2, <2>2, WaitingMoves
    <3>4. QED
      BY <1>0, <2>1, <3>1, <3>2, <3>3, MainAgrees DEF NoStamps, flags, server
  <2>3. CASE t \in Clients
    <3>1. at'[t] \in ClientAt(pc[t])
      BY <1>0, <1>2, <2>3, WaitingMoves
         DEF ClientAt, Mon!ReaderPlaces, Mon!WriterPlaces
    <3>2. \A u \in ThreadIds : u # t => at'[u] = at[u]
      BY <1>0, <1>2, WaitingMoves
    <3>3. QED
      BY <2>1, <2>3, <3>1, <3>2, ClientAgrees DEF flags, server
  <2>4. QED
    BY <2>2, <2>3 DEF ThreadIds
<1>3. ASSUME NEW t \in ThreadIds, Interrupts(t), UNCHANGED monitor,
             ~UseTimestamp => timestamp_flag' = timestamp_flag
      PROVE  PlacesAgree'
  <2>1. main' = main \/ (main = "accept" /\ main' = "test")
    BY <1>3 DEF Interrupts
  <2>2. \A c \in Clients : pc'[c] = pc[c] \/ (pc[c] = "recv" /\ pc'[c] = "test")
    BY <1>3 DEF Interrupts, Put, Typed, PlacesTyped
  <2>3. \A c \in Clients : ClientAt(pc[c]) \subseteq ClientAt(pc'[c])
    BY <2>2 DEF ClientAt
  <2>4. at'[Main] \in MainAt(main')
    BY <1>0, <1>3, <2>1 DEF MainAt, monitor
  <2>5. ~UseTimestamp => NoStamps'
    BY <1>0, <1>3, <2>1 DEF NoStamps, monitor
  <2>6. QED
    BY <1>3, <2>3, <2>4, <2>5, MainAgrees DEF monitor
<1>4. ASSUME NEW t \in ThreadIds, Terminate(t) \/ Alarm(t)
      PROVE  PlacesAgree'
  BY <1>3, <1>4 DEF Terminate, Alarm
<1>5. QED
  BY <1>1, <1>2, <1>4

\* No more than two threads are in the monitor's functions or between its start
\* and stop, however many clients there are and come later.
AtMostTwoInside == Cardinality({t \in ThreadIds : at[t] # "outside"}) <= 2

LEMMA OnlyTwoInside ==
  ASSUME AtMostTwoInside,
         NEW t \in ThreadIds, NEW u \in ThreadIds, NEW v \in ThreadIds,
         t # u, u # v, t # v
  PROVE  "outside" \in {at[t], at[u], at[v]}
<1> DEFINE inside == {w \in ThreadIds : at[w] # "outside"}
<1> SUFFICES ASSUME "outside" \notin {at[t], at[u], at[v]}
             PROVE  FALSE
  OBVIOUS
<1>1. {t, u, v} \subseteq inside
  OBVIOUS
<1>2. IsFiniteSet(inside)
  <2>1. IsFiniteSet(ThreadIds) /\ inside \subseteq ThreadIds
    BY ClientsAssumption, FS_AddElement DEF ThreadIds
  <2>2. QED
    BY <2>1, FS_Subset
<1>3. IsFiniteSet({t}) /\ Cardinality({t}) = 1
  BY FS_Singleton
<1>4. IsFiniteSet({t, u}) /\ Cardinality({t, u}) = 2
  <2>1. {t, u} = {t} \cup {u} /\ u \notin {t}
    OBVIOUS
  <2>2. IsFiniteSet({t} \cup {u}) /\ Cardinality({t} \cup {u}) = Cardinality({t}) + 1
    BY <1>3, <2>1, FS_AddElement
  <2>3. QED
    BY <1>3, <2>1, <2>2
<1>5. Cardinality({t, u, v}) = 3
  <2>1. {t, u, v} = {t, u} \cup {v} /\ v \notin {t, u}
    OBVIOUS
  <2>2. Cardinality({t, u} \cup {v}) = Cardinality({t, u}) + 1
    BY <1>4, <2>1, FS_AddElement
  <2>3. QED
    BY <1>4, <2>1, <2>2
<1>6. Cardinality({t, u, v}) <= Cardinality(inside) /\ Cardinality(inside) \in Nat
  BY <1>1, <1>2, FS_Subset, FS_CardinalityType
<1>7. Cardinality(inside) <= 2
  BY DEF AtMostTwoInside
<1> HIDE DEF inside
<1>8. QED
  BY <1>5, <1>6, <1>7

-----------------------------------------------------------------------------
(* What is proved of the monitor in MonitorProofs.tla holds in the server *)

MonP == INSTANCE MonitorProofs WITH
          Threads <- ThreadIds, MaxInside <- Cardinality(ThreadIds)

LEMMA MonitorAssumptions ==
  /\ MonP!ThreadsAssumption /\ MonP!MaxInsideAssumption
  /\ MonP!SpuriousAssumption
<1>1. \A S : MonP!IsFiniteSet(S) = IsFiniteSet(S)
  BY DEF MonP!IsFiniteSet, IsFiniteSet
<1>2. IsFiniteSet(ThreadIds)
  BY ClientsAssumption, FS_AddElement DEF ThreadIds
<1>3. Cardinality(ThreadIds) \in Nat
  BY <1>2, FS_CardinalityType
<1>4. QED
  BY <1>1, <1>2, <1>3, FlagsAssumption
     DEF MonP!ThreadsAssumption, MonP!MaxInsideAssumption,
         MonP!SpuriousAssumption

LEMMA SameMonitor ==
  ASSUME Mon!Next
  PROVE  MonP!Next
<1> USE DEF Mon!Move, MonP!Move, Mon!counters, MonP!counters
<1>0. /\ \A S : MonP!Cardinality(S) = Cardinality(S)
      /\ \A S : Mon!Cardinality(S) = Cardinality(S)
  BY DEF MonP!Cardinality, Mon!Cardinality, Cardinality
<1>1. ASSUME NEW t \in ThreadIds, Mon!Call(t)
      PROVE  MonP!Call(t)
  BY <1>0, <1>1 DEF MonP!Call, Mon!Call, Mon!Inside, MonP!Inside,
     Mon!ThreadsAt, MonP!ThreadsAt, Mon!Places, MonP!Places,
     Mon!ReaderPlaces, MonP!ReaderPlaces, Mon!WriterPlaces, MonP!WriterPlaces
<1>2. ASSUME NEW t \in ThreadIds, Mon!Step(t)
      PROVE  MonP!Step(t)
  BY <1>2 DEF Mon!Step, MonP!Step, Mon!StartReading, MonP!StartReading,
     Mon!WaitToRead, MonP!WaitToRead, Mon!ReturnFromCanRead,
     MonP!ReturnFromCanRead, Mon!BroadcastCanRead, MonP!BroadcastCanRead,
     Mon!StopReading, MonP!StopReading, Mon!StartWriting, MonP!StartWriting,
     Mon!WaitToWrite, MonP!WaitToWrite, Mon!ReturnFromCanWrite,
     MonP!ReturnFromCanWrite, Mon!StopWriting, MonP!StopWriting,
     Mon!ReaderMustWait, MonP!ReaderMustWait, Mon!WriterMustWait,
     MonP!WriterMustWait
<1>3. ASSUME NEW t \in ThreadIds, Mon!SpuriousWakeup(t)
      PROVE  MonP!SpuriousWakeup(t)
  BY <1>3 DEF Mon!SpuriousWakeup, MonP!SpuriousWakeup
<1>4. QED
  BY <1>1, <1>2, <1>3 DEF Mon!Next, MonP!Next

\* Between them the threads in the monitor never hold the file in conflict.
Exclusion == MonP!MonitorInv /\ MonP!GrantExclusion

LEMMA ExclusionInit == Init => Exclusion
<1> SUFFICES ASSUME Init PROVE Exclusion
  OBVIOUS
<1>1. MonP!Init
  BY DEF Init, Mon!Init, MonP!Init
<1>2. MonP!TypeOK /\ MonP!CountersMatch
  BY <1>1, MonitorAssumptions, MonP!TypeInit, MonP!CountersInit
<1>3. MonP!BlockedReaderHasWriter /\ MonP!BlockedWriterHasWaker
  BY <1>1 DEF MonP!Init, MonP!BlockedReaderHasWriter,
     MonP!BlockedWriterHasWaker
<1>4. MonP!GrantExclusion
  BY <1>1 DEF MonP!Init, MonP!GrantExclusion, MonP!Granted, MonP!Active,
     MonP!ActiveReader, MonP!ActiveWriter, MonP!WokenReader, MonP!WokenWriter
<1>5. QED
  BY <1>2, <1>3, <1>4 DEF Exclusion, MonP!MonitorInv

LEMMA ExclusionStep ==
  ASSUME SpuriousWakeups = FALSE, AtMostTwoInside, Exclusion, Mon!Next
  PROVE  Exclusion'
<1>1. MonP!TwoThreadInv
  BY OnlyTwoInside DEF Exclusion, MonP!TwoThreadInv, MonP!AtMostTwoInside
<1>2. MonP!Next
  BY SameMonitor
<1>3. MonP!GrantExclusion'
  BY <1>1, <1>2, MonitorAssumptions, MonP!GrantExclusionStep
<1>4. /\ MonP!TypeOK /\ MonP!CountersMatch /\ MonP!MonitorInv
      /\ MonP!BlockedReaderHasWriter
  BY DEF Exclusion, MonP!MonitorInv
<1>5. MonP!TypeOK' /\ MonP!CountersMatch' /\ MonP!BlockedReaderHasWriter'
  BY <1>2, <1>4, MonitorAssumptions, MonP!TypeStep, MonP!CountersStep,
     MonP!ReaderHasWriterStep
<1>6. MonP!BlockedWriterHasWaker'
  BY <1>2, <1>4, MonitorAssumptions, MonP!WriterHasWakerStep
<1>7. QED
  BY <1>3, <1>5, <1>6 DEF Exclusion, MonP!MonitorInv

LEMMA ExclusionKept ==
  ASSUME Exclusion, UNCHANGED monitor
  PROVE  Exclusion'
BY DEF monitor, Exclusion, MonP!MonitorInv, MonP!TypeOK, MonP!CountersMatch,
   MonP!ThreadsAt, MonP!BlockedReaderHasWriter, MonP!BlockedWriterHasWaker,
   MonP!GrantExclusion, MonP!Granted, MonP!Active, MonP!ActiveReader,
   MonP!ActiveWriter, MonP!WokenReader, MonP!WokenWriter

\* The monitor lets no two threads write the data file at once.
WritersAlone ==
  \A t, u \in ThreadIds : at[t] = "writing" /\ at[u] = "writing" => t = u

LEMMA ExclusionWriters ==
  ASSUME Exclusion
  PROVE  WritersAlone
BY DEF Exclusion, MonP!GrantExclusion, MonP!Granted, MonP!Active,
   MonP!ActiveReader, MonP!ActiveWriter, MonP!WokenReader, WritersAlone

\* As long as two threads are inside it does so, if they are only woken by
\* broadcasts.
LEMMA TwoWriteInTurn ==
  ASSUME SpuriousWakeups = FALSE
  PROVE  Spec /\ []AtMostTwoInside => []WritersAlone
<1>1. Init => Exclusion
  BY ExclusionInit
<1>2. Exclusion /\ AtMostTwoInside /\ [Next]_vars => Exclusion'
  BY NextMonitor, ExclusionStep, ExclusionKept
<1>3. Exclusion => WritersAlone
  BY ExclusionWriters
<1>4. QED
  BY <1>1, <1>2, <1>3, PTL DEF Spec

-----------------------------------------------------------------------------
(* The data file consists of whole lines *)

Whole(chars) ==
  \A i \in 1 .. Len(chars) :
    IF i % 2 = 1 THEN chars[i] \in ThreadIds ELSE chars[i] = NL

Odd(chars) == Len(chars) % 2 = 1

\* The device forgets a whole line.
LEMMA AppendWhole ==
  ASSUME NEW S, text \in Seq(S), NEW chars \in Seq(S), Whole(text \o chars)
  PROVE  Whole(Appended(chars)) /\ (Odd(Appended(chars)) <=> Odd(text \o chars))
<1> DEFINE all == text \o chars
           cut == SubSeq(all, 1 + FirstNewline(all), Len(all))
<1>1. all \in Seq(S) /\ Len(all) \in Nat /\ Whole(all)
  BY ConcatProperties
<1>2. Appended(chars) = IF ~Regular /\ Lines(all) > Depth THEN cut ELSE all
  BY DEF Appended
<1> HIDE DEF all
<1>3. ASSUME Lines(all) > Depth
      PROVE  Whole(cut) /\ (Odd(cut) <=> Odd(all))
  <2>1. \E i \in 1 .. Len(all) : all[i] = NL
    <3>1. CASE {i \in DOMAIN all : all[i] = NL} = {}
      <4>1. Lines(all) = 0
        BY <3>1, FS_EmptySet DEF Lines
      <4>2. QED
        BY <1>3, <4>1, BoundsAssumption
    <3>2. CASE {i \in DOMAIN all : all[i] = NL} # {}
      BY <1>1, <3>2
    <3>3. QED
      BY <3>1, <3>2
  <2>2. /\ FirstNewline(all) \in 1 .. Len(all) /\ all[FirstNewline(all)] = NL
        /\ \A i \in 1 .. Len(all) : all[i] = NL => FirstNewline(all) <= i
    BY <1>1, <2>1, FirstNewlineIs
  <2>3. FirstNewline(all) % 2 # 1
    BY <1>1, <2>2, MainAssumption DEF Whole
  <2>4. FirstNewline(all) = 2
    <3>1. FirstNewline(all) \in Nat /\ FirstNewline(all) >= 2
      BY <1>1, <2>2, <2>3
    <3>2. all[2] = NL
      BY <1>1, <2>2, <3>1 DEF Whole
    <3>3. QED
      BY <1>1, <2>2, <3>1, <3>2
  <2>5. /\ Len(cut) = Len(all) - 2 /\ Len(all) >= 2
        /\ \A i \in 1 .. Len(cut) : cut[i] = all[i + 2]
    <3> DEFINE k == FirstNewline(all)
    <3>1. k \in Nat /\ k <= Len(all) /\ k = 2
      BY <1>1, <2>2, <2>4
    <3> HIDE DEF k
    <3>2. /\ Len(SubSeq(all, 1 + k, Len(all))) = Len(all) - k
          /\ \A i \in 1 .. Len(all) - k :
               SubSeq(all, 1 + k, Len(all))[i] = all[i + k]
      BY <1>1, <3>1, DropIsSeq
    <3>3. cut = SubSeq(all, 1 + k, Len(all))
      BY DEF k
    <3> HIDE DEF cut
    <3>4. QED
      BY <1>1, <3>1, <3>2, <3>3
  <2> HIDE DEF cut
  <2>6. Whole(cut)
    <3> SUFFICES ASSUME NEW i \in 1 .. Len(cut)
                 PROVE  IF i % 2 = 1 THEN cut[i] \in ThreadIds ELSE cut[i] = NL
      BY DEF Whole
    <3>1. i + 2 \in 1 .. Len(all) /\ (i + 2) % 2 = i % 2
      BY <1>1, <2>5
    <3>2. IF (i + 2) % 2 = 1 THEN all[i + 2] \in ThreadIds ELSE all[i + 2] = NL
      BY <1>1, <3>1 DEF Whole
    <3>3. QED
      BY <2>5, <3>1, <3>2
  <2>7. QED
    BY <1>1, <2>5, <2>6 DEF Odd
<1>4. QED
  BY <1>1, <1>2, <1>3 DEF all

\* What a client has sent and the server not handed over: at most one line.
Received(c) ==
  \E x \in {c} \cup SeekArgs :
    \/ line[c] = <<>> /\ wire[c] \in {<<>>, <<x>>, <<x, NL>>}
    \/ line[c] = <<x>> /\ wire[c] \in {<<>>, <<NL>>}

\* recv_line hands over the client's own line, or a seek command, or what came
\* of one before the server was told to stop.
LineOf(c) ==
  /\ pc[c] \in {"none"} \cup Receiving => Received(c)
  /\ pc[c] = "line" => \/ IsSeek(c)
                       \/ line[c] = <<c, NL>>
                       \/ termination_flag /\ line[c] \in {<<>>, <<c>>}

\* A thread that writes has its own line to write, or what is left of it.
ToWrite(t) == IF t = Main THEN main = "stamp" ELSE pc[t] = "write"

LeftOf(t) ==
  /\ ToWrite(t) /\ at[t] # "writing" => left[t] = <<t, NL>>
  /\ at[t] = "writing" => left[t] \in {<<t, NL>>, <<NL>>, <<>>}

\* A line is unfinished while its thread has the newline left to write.
TextInv ==
  /\ Whole(text)
  /\ Running =>
       /\ \A t \in ThreadIds : at[t] = "writing" => (Odd(text) <=> Len(left[t]) = 1)
       /\ (\A t \in ThreadIds : at[t] # "writing") => ~Odd(text)

LinesInv ==
  ~termination_flag =>
    (\A c \in Clients : LineOf(c)) /\ (\A t \in ThreadIds : LeftOf(t)) /\ TextInv

(* Sequences of at most two characters *)

LEMMA OneIs ==
  ASSUME NEW x, NEW S, NEW r \in Seq(S), Len(r) = 1, r[1] = x
  PROVE  r = <<x>>
<1>1. x \in S
  <2>1. 1 \in 1 .. Len(r)
    OBVIOUS
  <2>2. QED
    BY <2>1, ElementOfSeq
<1>2. /\ <<x>> \in Seq(S) /\ Len(<<x>>) = 1 /\ <<x>>[1] = x
      /\ \A i \in 1 .. 1 : i = 1
  BY <1>1
<1>3. QED
  BY <1>1, <1>2, SeqEqual

LEMMA TwoIs ==
  ASSUME NEW x, NEW y, NEW S, NEW r \in Seq(S), Len(r) = 2, r[1] = x, r[2] = y
  PROVE  r = <<x, y>>
<1>1. /\ <<x, y>> \in Seq(S) /\ Len(<<x, y>>) = 2
      /\ <<x, y>>[1] = x /\ <<x, y>>[2] = y
  <2>1. 1 \in 1 .. Len(r) /\ 2 \in 1 .. Len(r)
    OBVIOUS
  <2>2. x \in S /\ y \in S
    BY <2>1
  <2>3. QED
    BY <2>2
<1>2. \A i \in 1 .. 2 : i = 1 \/ i = 2
  OBVIOUS
<1>3. QED
  BY <1>1, <1>2, SeqEqual

LEMMA TwoJoined ==
  ASSUME NEW x, NEW y
  PROVE  <<x>> \o <<y>> = <<x, y>>
<1> DEFINE S == {x, y}
           a == <<x>>
           b == <<y>>
           r == a \o b
<1>1. /\ a \in Seq(S) /\ Len(a) = 1 /\ a[1] = x
      /\ b \in Seq(S) /\ Len(b) = 1 /\ b[1] = y
  OBVIOUS
<1> HIDE DEF a, b, S
<1>2. r \in Seq(S) /\ Len(r) = 2 /\ r[1] = x /\ r[2] = y
  BY <1>1, ConcatProperties
<1> HIDE DEF r
<1>3. r = <<x, y>>
  BY <1>2, TwoIs
<1>4. QED
  BY <1>3 DEF r, a, b

LEMMA TwoAppended ==
  ASSUME NEW x, NEW y
  PROVE  Append(<<x>>, y) = <<x, y>>
<1> DEFINE S == {x, y}
           a == <<x>>
           r == Append(a, y)
<1>1. a \in Seq(S) /\ Len(a) = 1 /\ a[1] = x /\ y \in S
  OBVIOUS
<1> HIDE DEF a, S
<1>2. /\ r \in Seq(S) /\ Len(r) = Len(a) + 1
      /\ \A i \in 1 .. Len(a) : r[i] = a[i]
      /\ r[Len(a) + 1] = y
  BY <1>1, AppendProperties, ZenonT(60)
<1> HIDE DEF r
<1>3. r \in Seq(S) /\ Len(r) = 2 /\ r[1] = x /\ r[2] = y
  BY <1>1, <1>2
<1>4. r = <<x, y>>
  BY <1>3, TwoIs
<1>5. QED
  BY <1>4 DEF r, a

LEMMA Pieces ==
  ASSUME NEW x, NEW y
  PROVE  /\ <<>> \o <<>> = <<>> /\ <<>> \o <<x>> = <<x>>
         /\ <<>> \o <<x, y>> = <<x, y>> /\ <<x>> \o <<>> = <<x>>
         /\ Append(<<>>, y) = <<y>>
         /\ Len(<<>>) = 0 /\ Len(<<x>>) = 1 /\ Len(<<x, y>>) = 2
OBVIOUS

LEMMA Newlines ==
  ASSUME NEW x, NEW y
  PROVE  /\ ~Contains(<<>>, y) /\ Contains(<<y>>, y) /\ Contains(<<x, y>>, y)
         /\ Contains(<<x>>, y) => x = y
<1>1. ~Contains(<<>>, y) /\ Contains(<<y>>, y) /\ (Contains(<<x>>, y) => x = y)
  BY DEF Contains
<1>2. 2 \in 1 .. Len(<<x, y>>) /\ <<x, y>>[2] = y
  OBVIOUS
<1>3. QED
  BY <1>1, <1>2 DEF Contains

LEMMA RecvLine ==
  ASSUME NEW c \in Clients, PlacesTyped, TextTyped, Received(c), Recv(c)
  PROVE  LineOf(c)'
<1> DEFINE l == line[c]
           w == wire[c]
<1>1. /\ line'[c] = l \o w /\ wire'[c] = <<>>
      /\ pc'[c] = IF Contains(w, NL) THEN "line" ELSE "test"
  BY DEF Recv, Goto, Put, TextTyped, PlacesTyped
<1>2. PICK x \in {c} \cup SeekArgs :
        \/ l = <<>> /\ w \in {<<>>, <<x>>, <<x, NL>>}
        \/ l = <<x>> /\ w \in {<<>>, <<NL>>}
  BY DEF Received
<1>3. x = c => x # NL
  BY MainAssumption DEF ThreadIds
<1> HIDE DEF l, w
<1>4. CASE w = <<>>
  <2>1. l \in {<<>>, <<x>>} /\ l \o w = l /\ pc'[c] = "test"
    BY <1>1, <1>2, <1>4, Pieces, Newlines
  <2>2. Received(c)'
    BY <1>1, <2>1 DEF Received
  <2>3. QED
    BY <2>1, <2>2 DEF LineOf
<1>5. CASE l = <<>> /\ w = <<x>> /\ x # NL
  <2>1. l \o w = <<x>> /\ pc'[c] = "test"
    BY <1>1, <1>5, Pieces, Newlines
  <2>2. Received(c)'
    BY <1>1, <2>1 DEF Received
  <2>3. QED
    BY <2>1, <2>2 DEF LineOf
<1>6. CASE l = <<>> /\ w = <<x>> /\ x = NL
  <2>1. l \o w = <<x>> /\ pc'[c] = "line" /\ x \in SeekArgs
    BY <1>1, <1>2, <1>3, <1>6, Pieces, Newlines
  <2>2. line'[c] # <<>> /\ line'[c][1] \in SeekArgs
    BY <1>1, <2>1
  <2>3. QED
    BY <2>1, <2>2 DEF LineOf, IsSeek, Receiving
<1>7. CASE (l = <<>> /\ w = <<x, NL>>) \/ (l = <<x>> /\ w = <<NL>>)
  <2>1. l \o w = <<x, NL>> /\ pc'[c] = "line"
    <3>1. CASE l = <<>> /\ w = <<x, NL>>
      <4>1. l \o w = <<x, NL>>
        BY <3>1, Pieces
      <4>2. Contains(w, NL)
        BY <3>1, Newlines
      <4>3. QED
        BY <1>1, <4>1, <4>2
    <3>2. CASE l = <<x>> /\ w = <<NL>>
      BY <1>1, <3>2, TwoJoined, Newlines
    <3>3. QED
      BY <1>7, <3>1, <3>2
  <2>2. line'[c] # <<>> /\ line'[c][1] = x
    BY <1>1, <2>1
  <2>3. line'[c] = <<c, NL>> \/ (line'[c] # <<>> /\ line'[c][1] \in SeekArgs)
    BY <1>1, <2>1, <2>2
  <2>4. QED
    BY <2>1, <2>3 DEF LineOf, IsSeek, Receiving
<1>8. QED
  BY <1>2, <1>4, <1>5, <1>6, <1>7

WritingInv == (\A t \in ThreadIds : LeftOf(t)) /\ TextInv

\* A step of t does not write for another thread.
OthersKeep(t) ==
  \A u \in ThreadIds : u # t =>
    left'[u] = left[u] /\ at'[u] = at[u] /\ (ToWrite(u)' => ToWrite(u))

LEMMA OthersLeft ==
  ASSUME NEW t \in ThreadIds, \A u \in ThreadIds : LeftOf(u), OthersKeep(t)
  PROVE  \A u \in ThreadIds : u # t => LeftOf(u)'
BY DEF OthersKeep, LeftOf

\* A step that neither starts nor ends nor carries on a write.
LEMMA QuietStep ==
  ASSUME WritingInv, NEW t \in ThreadIds, OthersKeep(t), LeftOf(t)',
         text' = text, Running' => Running,
         at'[t] = "writing" <=> at[t] = "writing",
         at[t] = "writing" => left'[t] = left[t]
  PROVE  WritingInv'
<1>1. \A u \in ThreadIds : LeftOf(u)'
  BY OthersLeft DEF WritingInv
<1>2. \A u \in ThreadIds : at'[u] = "writing" <=> at[u] = "writing"
  BY DEF OthersKeep
<1>3. \A u \in ThreadIds : at[u] = "writing" => left'[u] = left[u]
  BY DEF OthersKeep
<1>4. TextInv'
  BY <1>2, <1>3 DEF WritingInv, TextInv, Whole, Odd
<1>5. QED
  BY <1>1, <1>4 DEF WritingInv

\* Whoever starts to write finds whole lines, ...
LEMMA StartsWriting ==
  ASSUME WritingInv, WritersAlone', NEW t \in ThreadIds, OthersKeep(t),
         text' = text, Running, left'[t] = <<t, NL>>,
         at[t] # "writing", at'[t] = "writing"
  PROVE  WritingInv'
<1>1. LeftOf(t)'
  BY DEF LeftOf
<1>2. \A u \in ThreadIds : LeftOf(u)'
  BY <1>1, OthersLeft DEF WritingInv
<1>3. \A u \in ThreadIds : u # t => at'[u] # "writing"
  BY DEF WritersAlone, OthersKeep
<1>4. \A u \in ThreadIds : at[u] # "writing"
  BY <1>3 DEF OthersKeep
<1>5. Whole(text) /\ ~Odd(text)
  BY <1>4 DEF WritingInv, TextInv
<1>6. Len(left'[t]) # 1
  <2>1. Len(<<t, NL>>) = 2
    OBVIOUS
  <2>2. QED
    BY <2>1
<1>7. Whole(text)' /\ ~Odd(text)'
  BY <1>5 DEF Whole, Odd
<1>8. TextInv'
  BY <1>3, <1>6, <1>7 DEF TextInv
<1>9. QED
  BY <1>2, <1>8 DEF WritingInv

\* ... and whoever has written everything leaves whole lines.
LEMMA StopsWriting ==
  ASSUME WritingInv, WritersAlone, NEW t \in ThreadIds, OthersKeep(t),
         text' = text, Running, left[t] = <<>>, ~ToWrite(t)',
         at[t] = "writing", at'[t] = "outside"
  PROVE  WritingInv'
<1>1. \A u \in ThreadIds : LeftOf(u)'
  BY OthersLeft DEF WritingInv, LeftOf
<1>2. \A u \in ThreadIds : at'[u] # "writing"
  BY DEF WritersAlone, OthersKeep
<1>3. Whole(text) /\ ~Odd(text)
  BY Pieces DEF WritingInv, TextInv
<1>4. TextInv'
  BY <1>2, <1>3 DEF TextInv, Whole, Odd
<1>5. QED
  BY <1>1, <1>4 DEF WritingInv

\* What a write() of part of a line makes of whole lines.
LEMMA PieceWritten ==
  ASSUME text \in Seq(Chars), NEW t \in ThreadIds,
         NEW s \in Seq(Chars), s \in {<<t, NL>>, <<NL>>, <<>>},
         NEW n \in 1 .. Len(s), Whole(text), Odd(text) <=> Len(s) = 1
  PROVE  /\ Whole(text \o SubSeq(s, 1, n))
         /\ SubSeq(s, n + 1, Len(s)) \in {<<t, NL>>, <<NL>>, <<>>}
         /\ Odd(text \o SubSeq(s, 1, n)) <=> Len(SubSeq(s, n + 1, Len(s))) = 1
<1> DEFINE chars == SubSeq(s, 1, n)
           rest  == SubSeq(s, n + 1, Len(s))
           all   == text \o chars
<1>0. /\ (Len(s) = 1 \/ Len(s) = 2) /\ n \in Nat /\ n <= Len(s) /\ n >= 1
      /\ Len(s) = 2 => s[1] = t /\ s[2] = NL
      /\ Len(s) = 1 => s[1] = NL
  <2>1. s # <<>>
    OBVIOUS
  <2>2. CASE s = <<t, NL>>
    BY <2>2
  <2>3. CASE s = <<NL>>
    BY <2>3
  <2>4. QED
    BY <2>1, <2>2, <2>3
<1>1. \/ Len(s) = 1 /\ n = 1
      \/ Len(s) = 2 /\ n = 1
      \/ Len(s) = 2 /\ n = 2
  <2>1. CASE Len(s) = 1
    BY <1>0, <2>1
  <2>2. CASE Len(s) = 2
    BY <1>0, <2>2
  <2>3. QED
    BY <1>0, <2>1, <2>2
<1>2. /\ chars \in Seq(Chars) /\ Len(chars) = n
      /\ \A i \in 1 .. n : chars[i] = s[i]
  <2>1. 1 <= n => 1 >= 1 /\ n <= Len(s)
    BY <1>0
  <2>2. /\ SubSeq(s, 1, n) \in Seq(Chars)
        /\ Len(SubSeq(s, 1, n)) = IF 1 <= n THEN n - 1 + 1 ELSE 0
        /\ \A i \in 1 .. n - 1 + 1 : SubSeq(s, 1, n)[i] = s[1 + i - 1]
    BY <1>0, <2>1, CutIsSeq
  <2>3. QED
    BY <1>0, <2>2
<1>3. /\ rest \in Seq(Chars) /\ Len(rest) = Len(s) - n
      /\ \A i \in 1 .. Len(s) - n : rest[i] = s[i + n]
  <2>1. rest = SubSeq(s, 1 + n, Len(s))
    BY <1>0
  <2>2. QED
    BY <1>0, <2>1, DropIsSeq
<1> HIDE DEF chars, rest
<1>4. /\ Len(all) = Len(text) + n
      /\ \A i \in 1 .. Len(text) + n :
           all[i] = IF i <= Len(text) THEN text[i] ELSE chars[i - Len(text)]
  BY <1>2, ConcatProperties
<1>5. Len(text) \in Nat
  OBVIOUS
<1> HIDE DEF all
<1>6. Odd(all) <=> Len(rest) = 1
  <2>1. CASE Len(s) = 1 /\ n = 1
    BY <1>3, <1>4, <1>5, <2>1, SMTT(30) DEF Odd
  <2>2. CASE Len(s) = 2 /\ n = 1
    BY <1>3, <1>4, <1>5, <2>2, SMTT(30) DEF Odd
  <2>3. CASE Len(s) = 2 /\ n = 2
    BY <1>3, <1>4, <1>5, <2>3, SMTT(30) DEF Odd
  <2>4. QED
    BY <1>1, <2>1, <2>2, <2>3
<1>7. Whole(all)
  <2> SUFFICES ASSUME NEW i \in 1 .. Len(text) + n
               PROVE  IF i % 2 = 1 THEN all[i] \in ThreadIds ELSE all[i] = NL
    BY <1>4 DEF Whole
  <2>1. CASE i <= Len(text)
    BY <1>4, <1>5, <2>1 DEF Whole
  <2>2. CASE i > Len(text)
    <3> DEFINE j == i - Len(text)
    <3>1. j \in 1 .. n /\ all[i] = chars[j]
      BY <1>0, <1>4, <1>5, <2>2
    <3>2. all[i] = s[j]
      BY <1>2, <3>1
    <3>3. CASE Len(s) = 2
      BY <1>0, <1>5, <3>1, <3>2, <3>3 DEF Odd
    <3>4. CASE Len(s) = 1
      BY <1>0, <1>5, <3>1, <3>2, <3>4 DEF Odd
    <3>5. QED
      BY <1>0, <3>3, <3>4
  <2>3. QED
    BY <1>5, <2>1, <2>2
<1>8. rest \in {<<NL>>, <<>>}
  <2>1. CASE Len(s) = n
    BY <1>0, <1>3, <2>1
  <2>2. CASE Len(s) = 2 /\ n = 1
    <3>1. Len(rest) = 1 /\ rest[1] = s[2]
      BY <1>3, <2>2
    <3>2. rest[1] = NL
      BY <1>0, <2>2, <3>1
    <3>3. QED
      BY <1>3, <3>1, <3>2, OneIs
  <2>3. QED
    BY <1>1, <2>1, <2>2
<1>9. QED
  BY <1>6, <1>7, <1>8 DEF chars, rest, all

LEMMA WritesSome ==
  ASSUME WritingInv, WritersAlone, TextTyped, NEW t \in ThreadIds, WriteSome(t)
  PROVE  WritingInv'
<1>1. PICK n \in 1 .. Len(left[t]) :
        /\ text' = Appended(SubSeq(left[t], 1, n))
        /\ left' = Put(left, t, SubSeq(left[t], n + 1, Len(left[t])))
  BY DEF WriteSome
<1>2. /\ at[t] = "writing" /\ Running
      /\ UNCHANGED <<monitor, main, pc>>
  BY DEF WriteSome, AtWrite, server
<1>3. /\ left[t] \in {<<t, NL>>, <<NL>>, <<>>} /\ Whole(text)
      /\ Odd(text) <=> Len(left[t]) = 1
  BY <1>2 DEF WritingInv, LeftOf, TextInv
<1>4. text \in Seq(Chars) /\ left[t] \in Seq(Chars)
  BY DEF TextTyped
<1> DEFINE chars == SubSeq(left[t], 1, n)
           rest  == SubSeq(left[t], n + 1, Len(left[t]))
<1>5. /\ Whole(text \o chars) /\ rest \in {<<t, NL>>, <<NL>>, <<>>}
      /\ Odd(text \o chars) <=> Len(rest) = 1
  BY <1>3, <1>4, PieceWritten
<1>6. chars \in Seq(Chars)
  BY <1>4, SplitTyped
<1>7. left'[t] = rest /\ \A u \in ThreadIds : u # t => left'[u] = left[u]
  BY <1>1 DEF TextTyped, Put
<1> HIDE DEF chars, rest
<1>8. Whole(text') /\ (Odd(text') <=> Len(left'[t]) = 1)
  BY <1>1, <1>4, <1>5, <1>6, <1>7, AppendWhole DEF chars
<1>9. OthersKeep(t)
  BY <1>2, <1>7 DEF OthersKeep, monitor, ToWrite
<1>10. LeftOf(t)'
  BY <1>2, <1>5, <1>7 DEF LeftOf, monitor
<1>11. \A u \in ThreadIds : LeftOf(u)'
  BY <1>9, <1>10, OthersLeft DEF WritingInv
<1>12. \A u \in ThreadIds : at'[u] = "writing" <=> u = t
  BY <1>2 DEF monitor, WritersAlone
<1>13. TextInv'
  BY <1>8, <1>12 DEF TextInv, Whole, Odd
<1>14. QED
  BY <1>11, <1>13 DEF WritingInv

LEMMA ThreadOthersKeep ==
  ASSUME Typed, NEW c \in Clients, ThreadStep(c)
  PROVE  OthersKeep(c)
<1>0. c \in ThreadIds /\ c # Main /\ AtTyped
  BY MainAssumption DEF ThreadIds, Typed
<1>1. \A v : left' = Put(left, c, v) =>
               \A u \in ThreadIds : u # c => left'[u] = left[u]
  BY DEF Put, Typed, TextTyped
<1>2. \A place : Goto(c, place) =>
               \A d \in Clients : d # c => pc'[d] = pc[d]
  BY DEF Goto, Typed, PlacesTyped
<1>3. ASSUME \A u \in ThreadIds : u # c => left'[u] = left[u] /\ at'[u] = at[u],
             \A d \in Clients : d # c => pc'[d] = pc[d],
             main' \in {main, "killed"}
      PROVE  OthersKeep(c)
  BY <1>0, <1>3 DEF OthersKeep, ToWrite, ThreadIds
<1>4. CASE \/ Start(c) \/ TestTermination(c) \/ CallRecv(c)
           \/ Recv(c) \/ RecvFails(c)
  <2>1. /\ UNCHANGED <<monitor, server, left>> /\ \E place : Goto(c, place)
    BY <1>4 DEF Start, TestTermination, CallRecv, Recv, RecvFails, buffers
  <2>2. QED
    BY <1>2, <1>3, <2>1 DEF monitor, server
<1>5. CASE SeekTo(c) \/ NothingToWrite(c) \/ StoreLine(c)
  <2>1. /\ UNCHANGED <<monitor, server>> /\ \E place : Goto(c, place)
        /\ left' = left \/ \E v : left' = Put(left, c, v)
    BY <1>5 DEF SeekTo, NothingToWrite, StoreLine
  <2>2. QED
    BY <1>1, <1>2, <1>3, <2>1 DEF monitor, server
<1>6. CASE WriteSome(c) \/ SendSome(c) \/ BrokenPipe(c)
  <2>1. /\ UNCHANGED <<monitor, pc>> /\ main' \in {main, "killed"}
        /\ left' = left \/ \E v : left' = Put(left, c, v)
    BY <1>6 DEF WriteSome, SendSome, BrokenPipe, server, buffers
  <2>2. QED
    BY <1>1, <1>3, <2>1 DEF monitor
<1>7. CASE CallWriting(c) \/ CallReading(c)
  <2>1. Mon!Call(c) /\ UNCHANGED <<server, pc, left>>
    BY <1>7 DEF CallWriting, CallReading, buffers
  <2>2. \A u \in ThreadIds : u # c => at'[u] = at[u]
    BY <1>0, <2>1, MovedFrom DEF Mon!Call
  <2>3. QED
    BY <1>3, <2>1, <2>2 DEF server
<1>8. CASE Written(c) \/ LineRead(c)
  <2>1. /\ Mon!StopWriting(c) \/ Mon!StopReading(c)
        /\ UNCHANGED server /\ \E place : Goto(c, place)
        /\ left' = left \/ \E v : left' = Put(left, c, v)
    BY <1>8 DEF Written, LineRead
  <2>2. \A u \in ThreadIds : u # c => at'[u] = at[u]
    BY <1>0, <2>1, MovedFrom DEF Mon!StopWriting, Mon!StopReading
  <2>3. QED
    BY <1>1, <1>2, <1>3, <2>1, <2>2 DEF server
<1>9. CASE WriteFails(c) \/ ReadFails(c) \/ ReadSome(c)
  <2>1. UNCHANGED <<monitor, main, left>> /\ \E place : Goto(c, place)
    BY <1>0, <1>9 DEF WriteFails, ReadFails, ReadSome, server, buffers
  <2>2. QED
    BY <1>2, <1>3, <2>1 DEF monitor
<1>10. CASE SendFails(c) \/ LineSent(c)
  <2>1. /\ UNCHANGED <<monitor, server>> /\ \E place : Goto(c, place)
        /\ left' = left \/ \E v : left' = Put(left, c, v)
    BY <1>10 DEF SendFails, LineSent, buffers
  <2>2. QED
    BY <1>1, <1>2, <1>3, <2>1 DEF monitor, server
<1>11. QED
  BY <1>4, <1>5, <1>6, <1>7, <1>8, <1>9, <1>10 DEF ThreadStep

\* A thread that neither writes nor is about to.
LEMMA NotWriting ==
  ASSUME WritingInv, NEW t \in ThreadIds, OthersKeep(t),
         text' = text, Running' => Running,
         at[t] # "writing", at'[t] # "writing",
         ~ToWrite(t)' \/ (ToWrite(t) /\ left'[t] = left[t])
  PROVE  WritingInv'
<1>1. LeftOf(t)'
  BY DEF WritingInv, LeftOf
<1>2. QED
  BY <1>1, QuietStep

LEMMA ThreadStepWriting ==
  ASSUME Typed, PlacesAgree, WritersAlone, WritingInv,
         NEW c \in Clients, LineOf(c), ~termination_flag, ThreadStep(c)
  PROVE  WritingInv'
<1>0. /\ c \in ThreadIds /\ c # Main /\ AtTyped /\ TextTyped
      /\ at[c] \in ClientAt(pc[c]) /\ OthersKeep(c)
      /\ ToWrite(c) <=> pc[c] = "write"
      /\ ToWrite(c)' <=> pc'[c] = "write"
  BY MainAssumption, ThreadOthersKeep
     DEF ThreadIds, Typed, PlacesAgree, ToWrite
<1>1. \A place : Goto(c, place) => pc'[c] = place
  BY DEF Goto, Typed, PlacesTyped
<1>2. ASSUME text' = text, Running' => Running, at'[c] = at[c],
             at[c] # "writing", pc'[c] # "write"
      PROVE  WritingInv'
  BY <1>0, <1>2, NotWriting
<1>3. CASE \/ Start(c) \/ TestTermination(c) \/ CallRecv(c)
           \/ Recv(c) \/ RecvFails(c)
  <2>1. at[c] # "writing"
    BY <1>0, <1>3 DEF Start, TestTermination, CallRecv, Recv, RecvFails,
       AtPlace, ClientAt
  <2>2. /\ UNCHANGED <<monitor, server, text>>
        /\ \E place : place # "write" /\ Goto(c, place)
    BY <1>3 DEF Start, TestTermination, CallRecv, Recv, RecvFails
  <2>3. QED
    BY <1>1, <1>2, <2>1, <2>2 DEF monitor, server, Running
<1>4. CASE SeekTo(c) \/ NothingToWrite(c)
  <2>1. at[c] # "writing"
    BY <1>0, <1>4 DEF SeekTo, NothingToWrite, AtPlace, ClientAt
  <2>2. /\ UNCHANGED <<monitor, server, text>>
        /\ \E place : place # "write" /\ Goto(c, place)
    BY <1>4 DEF SeekTo, NothingToWrite
  <2>3. QED
    BY <1>1, <1>2, <2>1, <2>2 DEF monitor, server, Running
<1>5. CASE StoreLine(c)
  <2>1. at[c] # "writing" /\ line[c] = <<c, NL>>
    BY <1>0, <1>5 DEF StoreLine, AtPlace, ClientAt, LineOf
  <2>2. UNCHANGED <<monitor, server, text>> /\ left' = Put(left, c, line[c])
    BY <1>5 DEF StoreLine
  <2>3. left'[c] = <<c, NL>> /\ at'[c] = at[c] /\ (Running' => Running)
    BY <1>0, <2>1, <2>2 DEF Put, TextTyped, monitor, server, Running
  <2>4. LeftOf(c)'
    BY <2>1, <2>3 DEF LeftOf
  <2>5. QED
    BY <1>0, <2>1, <2>2, <2>3, <2>4, QuietStep
<1>6. CASE CallWriting(c)
  <2>1. /\ pc[c] = "write" /\ at[c] = "outside" /\ at'[c] = "start_writing"
        /\ UNCHANGED <<server, pc, text, left>>
    BY <1>0, <1>6 DEF CallWriting, AtWrite, buffers
  <2>2. QED
    BY <1>0, <2>1, NotWriting DEF server, Running
<1>7. CASE WriteSome(c)
  BY <1>0, <1>7, WritesSome
<1>8. CASE WriteFails(c)
  <2>1. /\ at[c] = "writing" /\ UNCHANGED <<monitor, main, text, buffers>>
        /\ pc'[c] = "failed"
    BY <1>0, <1>1, <1>8 DEF WriteFails
  <2>2. at'[c] = "writing" /\ left'[c] = left[c] /\ (Running' => Running)
    BY <2>1 DEF monitor, buffers, Running
  <2>3. LeftOf(c)'
    BY <1>0, <2>1, <2>2 DEF WritingInv, LeftOf
  <2>4. QED
    BY <1>0, <2>1, <2>2, <2>3, QuietStep
<1>9. CASE Written(c)
  <2>1. /\ Mon!StopWriting(c) /\ left[c] = <<>> /\ UNCHANGED <<server, text>>
        /\ pc'[c] # "write" /\ Running
    BY <1>1, <1>9 DEF Written, AtWrite
  <2>2. at[c] = "writing" /\ at'[c] = "outside"
    BY <1>0, <2>1, MovedFrom DEF Mon!StopWriting
  <2>3. QED
    BY <1>0, <2>1, <2>2, StopsWriting
<1>10. CASE CallReading(c)
  <2>1. /\ pc'[c] # "write" /\ at[c] = "outside" /\ at'[c] = "start_reading"
        /\ UNCHANGED <<server, text>>
    BY <1>10 DEF CallReading, AtPlace
  <2>2. QED
    BY <1>0, <2>1, NotWriting DEF server, Running
<1>11. CASE ReadSome(c) \/ ReadFails(c)
  <2>1. /\ at[c] = "reading" /\ UNCHANGED <<monitor, server, text>>
        /\ \E place : place # "write" /\ Goto(c, place)
    BY <1>11 DEF ReadSome, ReadFails
  <2>2. QED
    BY <1>1, <1>2, <2>1 DEF monitor, server, Running
<1>12. CASE LineRead(c)
  <2>1. /\ Mon!StopReading(c) /\ UNCHANGED <<server, text>>
        /\ \E place : place # "write" /\ Goto(c, place)
    BY <1>12 DEF LineRead
  <2>2. at[c] = "reading" /\ at'[c] = "outside"
    BY <1>0, <2>1, MovedFrom DEF Mon!StopReading
  <2>3. QED
    BY <1>0, <1>1, <2>1, <2>2, NotWriting DEF server, Running
<1>13. CASE SendSome(c) \/ SendFails(c) \/ BrokenPipe(c) \/ LineSent(c)
  <2>1. at[c] # "writing" /\ Running
    BY <1>0, <1>13 DEF SendSome, SendFails, BrokenPipe, LineSent, Sending,
       ClientAt
  <2>2. /\ UNCHANGED <<monitor, text>>
        /\ \/ UNCHANGED pc
           \/ \E place : place # "write" /\ Goto(c, place)
    BY <1>13 DEF SendSome, SendFails, BrokenPipe, LineSent
  <2>3. pc[c] # "write"
    BY <1>13 DEF SendSome, SendFails, BrokenPipe, LineSent, Sending
  <2>4. QED
    BY <1>1, <1>2, <2>1, <2>2, <2>3 DEF monitor
<1>14. QED
  BY <1>3, <1>4, <1>5, <1>6, <1>7, <1>8, <1>9, <1>10, <1>11, <1>12, <1>13
     DEF ThreadStep

LEMMA MainStepWriting ==
  ASSUME Typed, PlacesAgree, WritersAlone, WritingInv, MainStep
  PROVE  WritingInv'
<1>0. /\ Main \in ThreadIds /\ AtTyped /\ TextTyped /\ at[Main] \in MainAt(main)
      /\ ToWrite(Main) <=> main = "stamp"
      /\ ToWrite(Main)' <=> main' = "stamp"
      /\ \A u \in ThreadIds : u # Main =>
           /\ u \in Clients /\ (ToWrite(u) <=> pc[u] = "write")
           /\ ToWrite(u)' <=> pc'[u] = "write"
  BY MainAssumption DEF ThreadIds, Typed, PlacesAgree, ToWrite
<1>1. ASSUME UNCHANGED <<at, left>>,
             \A c \in Clients : pc'[c] = "write" => pc[c] = "write"
      PROVE  OthersKeep(Main)
  BY <1>0, <1>1 DEF OthersKeep
<1>2. CASE CallWriting(Main)
  <2>1. /\ main = "stamp" /\ at[Main] = "outside" /\ at'[Main] = "start_writing"
        /\ UNCHANGED <<main, pc, text, left>> /\ Mon!Call(Main)
    BY <1>2 DEF CallWriting, AtWrite, buffers, server
  <2>2. \A u \in ThreadIds : u # Main => at'[u] = at[u]
    BY <1>0, <2>1, MovedFrom DEF Mon!Call
  <2>3. OthersKeep(Main)
    BY <1>0, <2>1, <2>2 DEF OthersKeep
  <2>4. QED
    BY <1>0, <2>1, <2>3, NotWriting DEF Running
<1>3. CASE WriteSome(Main)
  BY <1>0, <1>3, WritesSome
<1>4. CASE WriteFails(Main)
  <2>1. /\ at[Main] = "writing" /\ UNCHANGED <<monitor, pc, text, buffers>>
        /\ main = "stamp" /\ main' = "join"
    BY <1>4 DEF WriteFails, AtWrite
  <2>2. OthersKeep(Main)
    BY <1>1, <2>1 DEF monitor, buffers
  <2>3. LeftOf(Main)'
    BY <1>0, <2>1 DEF WritingInv, LeftOf, monitor, buffers
  <2>4. QED
    BY <1>0, <2>1, <2>2, <2>3, QuietStep DEF monitor, buffers, Running
<1>5. CASE StampWritten
  <2>1. /\ Mon!StopWriting(Main) /\ left[Main] = <<>> /\ Running
        /\ UNCHANGED <<pc, text, left>> /\ main' = "stamped"
    BY <1>5 DEF StampWritten, AtWrite, buffers
  <2>2. /\ at[Main] = "writing" /\ at'[Main] = "outside"
        /\ \A u \in ThreadIds : u # Main => at'[u] = at[u]
    BY <1>0, <2>1, MovedFrom DEF Mon!StopWriting
  <2>3. OthersKeep(Main)
    BY <1>0, <2>1, <2>2 DEF OthersKeep
  <2>4. QED
    BY <1>0, <2>1, <2>2, <2>3, StopsWriting
<1>6. CASE TestFlags
  <2>1. /\ main = "test" /\ UNCHANGED <<monitor, pc, text>>
        /\ \/ main' # "stamp" /\ UNCHANGED left
           \/ main' = "stamp" /\ left' = Put(left, Main, <<Main, NL>>)
    BY <1>6 DEF TestFlags
  <2>2. at[Main] # "writing" /\ at'[Main] = at[Main] /\ Running
    BY <1>0, <2>1 DEF MainAt, monitor, Running
  <2>3. OthersKeep(Main)
    BY <1>0, <2>1 DEF OthersKeep, monitor, Put, TextTyped
  <2>4. LeftOf(Main)'
    BY <1>0, <2>1, <2>2 DEF LeftOf, Put, TextTyped
  <2>5. QED
    BY <1>0, <2>1, <2>2, <2>3, <2>4, QuietStep
<1>7. CASE ClearFlag \/ CallAccept \/ Join
  <2>1. /\ UNCHANGED <<monitor, pc, text, left>> /\ main \in {"stamped", "before_accept", "join"}
        /\ main' # "stamp"
    BY <1>7 DEF ClearFlag, CallAccept, Join, buffers
  <2>2. OthersKeep(Main) /\ Running
    BY <1>1, <2>1 DEF monitor, Running
  <2>3. LeftOf(Main)'
    BY <1>0, <2>1 DEF WritingInv, LeftOf, monitor
  <2>4. QED
    BY <1>0, <2>1, <2>2, <2>3, QuietStep DEF monitor
<1>8. CASE Exit
  <2>1. /\ UNCHANGED <<monitor, pc, left>> /\ main' \in {"exited", "killed"}
        /\ text' = <<>> \/ text' = text
    BY <1>8 DEF Exit, buffers
  <2>2. OthersKeep(Main)
    BY <1>1, <2>1 DEF monitor
  <2>3. LeftOf(Main)'
    BY <1>0, <2>1 DEF WritingInv, LeftOf, monitor
  <2>4. \A u \in ThreadIds : LeftOf(u)'
    BY <2>2, <2>3, <1>0, OthersLeft DEF WritingInv
  <2>5. Whole(text)' /\ ~Running'
    BY <2>1 DEF WritingInv, TextInv, Whole, Running
  <2>6. QED
    BY <2>4, <2>5 DEF WritingInv, TextInv
<1>9. ASSUME NEW c \in Clients, Accept(c) \/ AcceptFails(c) \/ EnqueueFails(c)
      PROVE  WritingInv'
  <2>1. /\ UNCHANGED <<monitor, text, left>> /\ main = "accept" /\ main' # "stamp"
        /\ \A d \in Clients : pc'[d] = "write" => pc[d] = "write"
    BY <1>9 DEF Accept, AcceptFails, EnqueueFails, buffers, Goto, Typed,
       PlacesTyped
  <2>2. OthersKeep(Main) /\ Running
    BY <1>1, <2>1 DEF monitor, Running
  <2>3. LeftOf(Main)'
    BY <1>0, <2>1 DEF WritingInv, LeftOf, monitor
  <2>4. QED
    BY <1>0, <2>1, <2>2, <2>3, QuietStep DEF monitor
<1>10. QED
  BY <1>2, <1>3, <1>4, <1>5, <1>6, <1>7, <1>8, <1>9 DEF MainStep

\* Steps that leave the writing threads where they are.
LEMMA StillWriting ==
  ASSUME WritingInv, UNCHANGED <<at, left, text>>, Running' => Running,
         \A t \in ThreadIds : ToWrite(t)' => ToWrite(t)
  PROVE  WritingInv'
BY DEF WritingInv, LeftOf, TextInv, Whole, Odd

\* A thread that gets the monitor to write has its whole line before it.
LEMMA MonitorStepWriting ==
  ASSUME Typed, PlacesAgree, WritingInv, WritersAlone',
         NEW t \in ThreadIds, MonitorStep(t) \/ SpuriousWakeup(t)
  PROVE  WritingInv'
<1>0. /\ AtTyped /\ Running /\ UNCHANGED <<main, pc, text, left>>
  BY DEF Typed, MonitorStep, SpuriousWakeup, server, buffers
<1>1. OthersKeep(t) /\ (ToWrite(t)' <=> ToWrite(t))
  BY <1>0, WaitingMoves DEF OthersKeep, ToWrite
<1>2. CASE at'[t] = at[t]
  <2>1. LeftOf(t)'
    BY <1>0, <1>1, <1>2 DEF WritingInv, LeftOf
  <2>2. QED
    BY <1>0, <1>1, <1>2, <2>1, QuietStep
<1>3. CASE at[t] \in Mon!ReaderPlaces /\ at'[t] \in Mon!ReaderPlaces
  <2>1. at[t] # "writing" /\ at'[t] # "writing"
    BY <1>3 DEF Mon!ReaderPlaces
  <2>2. QED
    BY <1>0, <1>1, <2>1, NotWriting
<1>4. CASE at[t] \in Mon!WriterPlaces \ {"writing"} /\ at'[t] \in Mon!WriterPlaces
  <2>1. ToWrite(t)
    <3>1. CASE t = Main
      BY <1>0, <1>4, <3>1 DEF PlacesAgree, MainAt, ToWrite, Running, Mon!WriterPlaces
    <3>2. CASE t # Main
      <4>1. t \in Clients /\ at[t] \in ClientAt(pc[t])
        BY <3>2 DEF ThreadIds, PlacesAgree
      <4>2. pc[t] = "write"
        BY <1>4, <4>1 DEF ClientAt, Mon!ReaderPlaces, Mon!WriterPlaces
      <4>3. QED
        BY <3>2, <4>2 DEF ToWrite
    <3>3. QED
      BY <3>1, <3>2
  <2>2. left[t] = <<t, NL>>
    BY <1>4, <2>1 DEF WritingInv, LeftOf
  <2>3. CASE at'[t] = "writing"
    BY <1>0, <1>1, <1>4, <2>2, <2>3, StartsWriting
  <2>4. CASE at'[t] # "writing"
    BY <1>0, <1>1, <1>4, <2>1, <2>4, NotWriting
  <2>5. QED
    BY <2>3, <2>4
<1>5. QED
  BY <1>0, <1>2, <1>3, <1>4, WaitingMoves

LEMMA OtherWriting ==
  ASSUME Typed, WritingInv,
         \/ \E c \in Clients : ClientStep(c)
         \/ \E t \in ThreadIds : Terminate(t) \/ Alarm(t)
  PROVE  WritingInv'
<1>1. ASSUME NEW c \in Clients, ClientStep(c)
      PROVE  WritingInv'
  <2>1. /\ UNCHANGED <<monitor, text, left, main>>
        /\ \A d \in Clients : pc'[d] = "write" => pc[d] = "write"
    BY <1>1 DEF ClientStep, Connect, SendFirst, SendNewline, Leave, Goto,
       buffers, server, Typed, PlacesTyped
  <2>2. QED
    BY <2>1, StillWriting DEF monitor, Running, ToWrite, ThreadIds
<1>2. ASSUME NEW t \in ThreadIds, Terminate(t) \/ Alarm(t)
      PROVE  WritingInv'
  <2>1. /\ UNCHANGED <<monitor, text, left>> /\ Interrupts(t) /\ Running
    BY <1>2 DEF Terminate, Alarm, buffers
  <2>2. /\ main' = "stamp" => main = "stamp"
        /\ \A d \in Clients : pc'[d] = "write" => pc[d] = "write"
    BY <2>1 DEF Interrupts, Put, Typed, PlacesTyped
  <2>3. QED
    BY <2>1, <2>2, StillWriting DEF monitor, ToWrite, ThreadIds
<1>3. QED
  BY <1>1, <1>2

\* A connection that is past receiving, or receives with what it had.
\* Once told to stop the server never takes it back.
LEMMA StopIsFinal ==
  ASSUME Typed, [Next]_vars, ~termination_flag'
  PROVE  ~termination_flag
<1>1. termination_flag' = termination_flag \/ termination_flag' = TRUE
  BY ZenonT(60)
  DEF Next, MainStep, ThreadStep, ClientStep, CallWriting, WriteSome,
     WriteFails, StampWritten, TestFlags, ClearFlag, CallAccept, Join,
     Exit, Accept, AcceptFails, EnqueueFails, Start, TestTermination,
     CallRecv, Recv, RecvFails, SeekTo, NothingToWrite, StoreLine,
     Written, CallReading, ReadSome, ReadFails, LineRead, SendSome,
     SendFails, BrokenPipe, LineSent, Connect, SendFirst, SendNewline,
     Leave, MonitorStep, SpuriousWakeup, Terminate, Alarm, vars, flags
<1>2. QED
  BY <1>1

LEMMA LineOfKept ==
  ASSUME NEW c \in Clients, LineOf(c), termination_flag => termination_flag',
         \/ pc'[c] \notin {"none", "line"} \cup Receiving
         \/ /\ line'[c] = line[c] /\ wire'[c] = wire[c]
            /\ \/ pc'[c] = pc[c]
               \/ /\ pc[c] \in {"none"} \cup Receiving
                  /\ pc'[c] \in Receiving
  PROVE  LineOf(c)'
<1>1. "line" \notin {"none"} \cup Receiving
  BY DEF Receiving
<1>2. CASE pc'[c] \notin {"none", "line"} \cup Receiving
  BY <1>2 DEF LineOf
<1>3. CASE line'[c] = line[c] /\ wire'[c] = wire[c]
  <2>1. Received(c) => Received(c)'
    BY <1>3 DEF Received
  <2>2. IsSeek(c) => IsSeek(c)'
    BY <1>3 DEF IsSeek
  <2>3. CASE pc'[c] = pc[c]
    BY <1>3, <2>1, <2>2, <2>3 DEF LineOf
  <2>4. CASE pc[c] \in {"none"} \cup Receiving /\ pc'[c] \in Receiving
    BY <1>1, <2>1, <2>4 DEF LineOf
  <2>5. QED
    BY <1>2, <2>3, <2>4
<1>4. QED
  BY <1>2, <1>3

LEMMA ThreadStepLines ==
  ASSUME Typed, NEW c \in Clients, ThreadStep(c), \A d \in Clients : LineOf(d)
  PROVE  \A d \in Clients : LineOf(d)'
<1>t. termination_flag => termination_flag'
  BY StopIsFinal DEF Next
<1> DEFINE Past == {"none", "line"} \cup Receiving
<1>0. PlacesTyped /\ TextTyped /\ c # Main /\ LineOf(c)
  BY MainAssumption DEF Typed, ThreadIds
<1>1. \A place : Goto(c, place) =>
        pc'[c] = place /\ \A d \in Clients : d # c => pc'[d] = pc[d]
  BY <1>0 DEF Goto, PlacesTyped
<1>2. \A v : /\ line' = Put(line, c, v) =>
                  \A d \in Clients : d # c => line'[d] = line[d]
             /\ wire' = Put(wire, c, v) =>
                  \A d \in Clients : d # c => wire'[d] = wire[d]
  BY <1>0 DEF Put, TextTyped
<1>3. ASSUME \A d \in Clients : d # c => /\ pc'[d] = pc[d]
                                         /\ line'[d] = line[d] /\ wire'[d] = wire[d],
             LineOf(c)'
      PROVE  \A d \in Clients : LineOf(d)'
  BY <1>3, <1>t, LineOfKept
<1>4. CASE \/ Start(c) \/ CallRecv(c) \/ RecvFails(c)
           \/ TestTermination(c) /\ ~termination_flag
  <2>1. /\ UNCHANGED <<line, wire>> /\ pc[c] \in Receiving
        /\ \E place \in Receiving \cup {"failed"} : Goto(c, place)
    BY <1>4 DEF Start, TestTermination, CallRecv, RecvFails, AtPlace, buffers,
       peers, Receiving
  <2>2. pc'[c] \in Receiving \/ pc'[c] \notin Past
    BY <1>1, <2>1 DEF Receiving
  <2>3. LineOf(c)'
    BY <1>0, <2>1, <2>2, <1>t, LineOfKept
  <2>4. QED
    BY <1>1, <1>3, <2>1, <2>3
<1>5. CASE Recv(c)
  <2>1. /\ \E place : Goto(c, place)
        /\ line' = Put(line, c, line[c] \o wire[c]) /\ wire' = Put(wire, c, <<>>)
        /\ pc[c] \in Receiving
    BY <1>5 DEF Recv, AtPlace, Receiving
  <2>2. LineOf(c)'
    BY <1>0, <1>5, <2>1, RecvLine DEF LineOf
  <2>3. QED
    BY <1>1, <1>2, <1>3, <2>1, <2>2
<1>6. CASE SeekTo(c) \/ NothingToWrite(c) \/ StoreLine(c) \/ Written(c)
  <2>1. /\ UNCHANGED wire /\ \E place : place \notin Past /\ Goto(c, place)
        /\ line' = line \/ \E v : line' = Put(line, c, v)
    BY <1>6 DEF SeekTo, NothingToWrite, StoreLine, Written, peers, Receiving
  <2>2. LineOf(c)'
    BY <1>0, <1>1, <2>1, <1>t, LineOfKept
  <2>3. QED
    BY <1>1, <1>2, <1>3, <2>1, <2>2
<1>7. CASE ReadSome(c) \/ ReadFails(c) \/ WriteFails(c) \/ LineRead(c)
  <2>1. /\ UNCHANGED wire /\ \E place : place \notin Past /\ Goto(c, place)
        /\ line' = line \/ \E v : line' = Put(line, c, v)
    BY <1>0, <1>7 DEF ReadSome, ReadFails, WriteFails, LineRead, buffers, peers,
       Receiving
  <2>2. LineOf(c)'
    BY <1>0, <1>1, <2>1, <1>t, LineOfKept
  <2>3. QED
    BY <1>1, <1>2, <1>3, <2>1, <2>2
<1>8. CASE CallWriting(c) \/ WriteSome(c) \/ SendSome(c) \/ BrokenPipe(c)
  <2>1. UNCHANGED <<pc, line, wire>>
    BY <1>8 DEF CallWriting, WriteSome, SendSome, BrokenPipe, buffers, peers
  <2>2. QED
    BY <2>1, <1>t, LineOfKept
<1>9. CASE CallReading(c)
  <2>1. /\ UNCHANGED <<pc, wire>> /\ pc[c] \notin Past
        /\ \E v : line' = Put(line, c, v)
    BY <1>9 DEF CallReading, AtPlace, peers, Receiving
  <2>2. LineOf(c)'
    BY <1>0, <2>1, <1>t, LineOfKept
  <2>3. QED
    BY <1>2, <1>3, <2>1, <2>2
<1>10. CASE SendFails(c) \/ LineSent(c)
  <2>1. /\ UNCHANGED <<line, wire>> /\ \E place : place \notin Past /\ Goto(c, place)
    BY <1>10 DEF SendFails, LineSent, buffers, peers, Receiving
  <2>2. LineOf(c)'
    BY <1>0, <1>1, <2>1, <1>t, LineOfKept
  <2>3. QED
    BY <1>1, <1>3, <2>1, <2>2
<1>11. CASE TestTermination(c) /\ termination_flag
  <2>1. UNCHANGED <<line, wire, flags>> /\ pc[c] \in Receiving /\ Goto(c, "line")
    BY <1>11 DEF TestTermination, AtPlace, buffers, peers, Receiving
  <2>2. /\ pc'[c] = "line" /\ termination_flag'
        /\ \/ line'[c] = <<>>
           \/ \E x \in {c} \cup SeekArgs : line'[c] = <<x>>
    BY <1>0, <1>1, <1>11, <2>1 DEF LineOf, Received, flags
  <2>3. ASSUME line'[c] \in {<<>>, <<c>>}
        PROVE  LineOf(c)'
    BY <2>2, <2>3 DEF LineOf, Receiving
  <2>4. ASSUME NEW x \in SeekArgs, line'[c] = <<x>>
        PROVE  LineOf(c)'
    <3>1. line'[c] # <<>> /\ line'[c][1] \in SeekArgs
      BY <2>4
    <3>2. QED
      BY <2>2, <3>1 DEF LineOf, IsSeek, Receiving
  <2>5. LineOf(c)'
    BY <2>2, <2>3, <2>4
  <2>6. QED
    BY <1>1, <1>3, <2>1, <2>5
<1>12. QED
  BY <1>4, <1>5, <1>6, <1>7, <1>8, <1>9, <1>10, <1>11 DEF ThreadStep

LEMMA MainStepLines ==
  ASSUME Typed, MainStep, \A d \in Clients : LineOf(d)
  PROVE  \A d \in Clients : LineOf(d)'
<1>t. termination_flag => termination_flag'
  BY StopIsFinal DEF Next
<1>1. UNCHANGED <<line, wire>>
  BY DEF MainStep, CallWriting, WriteSome, WriteFails, StampWritten, TestFlags,
     ClearFlag, CallAccept, Join, Exit, Accept, AcceptFails, EnqueueFails,
     buffers, peers
<1>2. \A d \in Clients : pc'[d] = pc[d] \/ (pc[d] = "backlog" /\ pc'[d] = "start")
  <2>1. CASE \E c \in Clients : Accept(c) \/ EnqueueFails(c)
    BY <2>1 DEF Accept, EnqueueFails, Goto, Typed, PlacesTyped
  <2>2. CASE UNCHANGED pc
    BY <2>2
  <2>3. QED
    BY <2>1, <2>2 DEF MainStep, CallWriting, WriteSome, WriteFails,
       StampWritten, TestFlags, ClearFlag, CallAccept, Join, Exit, AcceptFails
<1>3. QED
  BY <1>1, <1>2, <1>t, LineOfKept DEF Receiving

LEMMA OneSent ==
  ASSUME NEW x, NEW y, NEW l, NEW w, Len(l \o w) = 1,
         \/ l = <<>> /\ w \in {<<>>, <<x>>, <<x, y>>}
         \/ l = <<x>> /\ w \in {<<>>, <<y>>}
  PROVE  \/ l = <<>> /\ w = <<x>>
         \/ l = <<x>> /\ w = <<>>
<1>1. ASSUME l = <<>>, w = <<>> PROVE FALSE
  <2>1. l \o w = <<>>
    BY <1>1, Pieces
  <2>2. QED
    BY <2>1
<1>2. ASSUME l = <<>>, w = <<x, y>> PROVE FALSE
  <2>1. l \o w = <<x, y>>
    BY <1>2, Pieces
  <2>2. QED
    BY <2>1
<1>3. ASSUME l = <<x>>, w = <<y>> PROVE FALSE
  <2>1. l \o w = <<x, y>>
    BY <1>3, TwoJoined
  <2>2. QED
    BY <2>1
<1>4. QED
  BY <1>1, <1>2, <1>3

\* A client sends the first part of its line, and then the newline.
LEMMA ClientStepLines ==
  ASSUME Typed, NEW c \in Clients, ClientStep(c), \A d \in Clients : LineOf(d)
  PROVE  \A d \in Clients : LineOf(d)'
<1>t. termination_flag => termination_flag'
  BY StopIsFinal DEF Next
<1>0. TextTyped /\ PlacesTyped
  BY DEF Typed
<1>1. CASE Connect(c)
  <2>1. \A d \in Clients : pc'[d] = pc[d] \/ (pc[d] = "none" /\ pc'[d] = "backlog")
    BY <1>0, <1>1 DEF Connect, Goto, PlacesTyped
  <2>2. UNCHANGED <<line, wire>>
    BY <1>1 DEF Connect, buffers, peers
  <2>3. QED
    BY <2>1, <2>2, <1>t, LineOfKept DEF Receiving
<1>2. CASE Leave(c)
  <2>1. UNCHANGED <<pc, line, wire>>
    BY <1>2 DEF Leave, buffers
  <2>2. QED
    BY <2>1, <1>t, LineOfKept
<1>3. ASSUME NEW v, wire' = Put(wire, c, v), UNCHANGED <<pc, line>>,
             pc[c] \in Receiving,
             \E x \in {c} \cup SeekArgs :
               \/ line[c] = <<>> /\ v \in {<<>>, <<x>>, <<x, NL>>}
               \/ line[c] = <<x>> /\ v \in {<<>>, <<NL>>}
      PROVE  \A d \in Clients : LineOf(d)'
  <2>1. wire'[c] = v /\ \A d \in Clients : d # c => wire'[d] = wire[d]
    BY <1>0, <1>3 DEF Put, TextTyped
  <2>2. Received(c)'
    BY <1>3, <2>1 DEF Received
  <2>3. LineOf(c)'
    BY <1>3, <2>2 DEF LineOf, Receiving
  <2>4. QED
    BY <1>3, <2>1, <2>3, <1>t, LineOfKept
<1>4. CASE SendFirst(c)
  <2>1. PICK x \in {c} \cup SeekArgs : wire' = Put(wire, c, <<x>>)
    BY <1>4 DEF SendFirst
  <2>2. /\ UNCHANGED <<pc, line>> /\ pc[c] \in Receiving
        /\ line[c] \o wire[c] = <<>>
    BY <1>4 DEF SendFirst, Sent, buffers
  <2>3. line[c] = <<>>
    <3>1. line[c] \in Seq(Chars) /\ wire[c] \in Seq(Chars)
      BY <1>0 DEF TextTyped
    <3>2. Len(line[c] \o wire[c]) = Len(line[c]) + Len(wire[c])
      BY <3>1, ConcatProperties
    <3>3. QED
      BY <2>2, <3>1, <3>2
  <2>4. QED
    BY <1>3, <2>1, <2>2, <2>3
<1>5. CASE SendNewline(c)
  <2>1. /\ UNCHANGED <<pc, line>> /\ pc[c] \in Receiving
        /\ wire' = Put(wire, c, Append(wire[c], NL))
        /\ Len(line[c] \o wire[c]) = 1
    BY <1>5 DEF SendNewline, Sent, buffers
  <2>2. Received(c)
    BY <2>1 DEF LineOf
  <2>3. PICK x \in {c} \cup SeekArgs :
          \/ line[c] = <<>> /\ wire[c] \in {<<>>, <<x>>, <<x, NL>>}
          \/ line[c] = <<x>> /\ wire[c] \in {<<>>, <<NL>>}
    BY <2>2 DEF Received
  <2>4. \/ line[c] = <<>> /\ wire[c] = <<x>>
        \/ line[c] = <<x>> /\ wire[c] = <<>>
    BY <2>1, <2>3, OneSent
  <2>5. CASE line[c] = <<>> /\ wire[c] = <<x>>
    <3>1. Append(wire[c], NL) = <<x, NL>>
      BY <2>5, TwoAppended
    <3>2. QED
      BY <1>3, <2>1, <2>5, <3>1
  <2>6. CASE line[c] = <<x>> /\ wire[c] = <<>>
    <3>1. Append(wire[c], NL) = <<NL>>
      BY <2>6, Pieces
    <3>2. QED
      BY <1>3, <2>1, <2>6, <3>1
  <2>7. QED
    BY <2>4, <2>5, <2>6
<1>6. QED
  BY <1>1, <1>2, <1>4, <1>5 DEF ClientStep

LEMMA InterruptsLines ==
  ASSUME Typed, \A d \in Clients : LineOf(d),
         NEW t \in ThreadIds,
         MonitorStep(t) \/ SpuriousWakeup(t) \/ Terminate(t) \/ Alarm(t)
  PROVE  \A d \in Clients : LineOf(d)'
<1>t. termination_flag => termination_flag'
  BY StopIsFinal DEF Next
<1>1. UNCHANGED <<line, wire>>
  BY DEF MonitorStep, SpuriousWakeup, Terminate, Alarm, buffers, peers
<1>2. \A d \in Clients : pc'[d] = pc[d] \/ (pc[d] = "recv" /\ pc'[d] = "test")
  BY DEF MonitorStep, SpuriousWakeup, Terminate, Alarm, Interrupts, Put, Typed,
     PlacesTyped
<1>3. QED
  BY <1>1, <1>2, <1>t, LineOfKept DEF Receiving

-----------------------------------------------------------------------------
(* Steps of anybody *)

LEMMA PlacesStep ==
  ASSUME Typed, PlacesAgree, [Next]_vars
  PROVE  PlacesAgree'
<1>1. CASE UNCHANGED vars
  BY <1>1 DEF vars, monitor, flags, server, PlacesAgree, NoStamps
<1>2. QED
  BY <1>1, ThreadStepAgrees, MainStepAgrees, OtherAgrees DEF Next

\* A server told to stop sends nothing more.
LEMMA StopEndsAnswers ==
  ASSUME [Next]_vars, termination_flag
  PROVE  answer' = answer
BY ZenonT(60)
DEF Next, MainStep, ThreadStep, ClientStep, CallWriting, WriteSome,
   WriteFails, StampWritten, TestFlags, ClearFlag, CallAccept, Join,
   Exit, Accept, AcceptFails, EnqueueFails, Start, TestTermination,
   CallRecv, Recv, RecvFails, SeekTo, NothingToWrite, StoreLine,
   Written, CallReading, ReadSome, ReadFails, LineRead, SendSome,
   SendFails, BrokenPipe, LineSent, Connect, SendFirst, SendNewline,
   Leave, MonitorStep, SpuriousWakeup, Terminate, Alarm, vars, peers

LEMMA LinesStep ==
  ASSUME Typed, [Next]_vars, \A c \in Clients : LineOf(c)
  PROVE  \A c \in Clients : LineOf(c)'
<1>1. CASE UNCHANGED vars
  BY <1>1, LineOfKept DEF vars, flags, buffers, peers
<1>2. QED
  BY <1>1, MainStepLines, ThreadStepLines, ClientStepLines, InterruptsLines DEF Next

SafeInv == Typed /\ PlacesAgree /\ LinesInv

LEMMA LinesHold == Spec /\ []WritersAlone => []SafeInv
<1>1. Init => SafeInv
  <2> SUFFICES ASSUME Init PROVE SafeInv
    OBVIOUS
  <2>1. Typed
    BY TypesInit DEF Typed
  <2>2. PlacesAgree
    BY DEF Init, Mon!Init, PlacesAgree, ClientAt, MainAt, NoStamps, ThreadIds
  <2>3. \A c \in Clients : LineOf(c)
    BY DEF Init, LineOf, Received
  <2>4. \A t \in ThreadIds : LeftOf(t)
    BY DEF Init, Mon!Init, LeftOf, ToWrite, ThreadIds
  <2>5. TextInv
    BY DEF Init, Mon!Init, TextInv, Whole, Odd
  <2>6. QED
    BY <2>1, <2>2, <2>3, <2>4, <2>5 DEF SafeInv, LinesInv
<1>2. SafeInv /\ WritersAlone /\ WritersAlone' /\ [Next]_vars => SafeInv'
  <2> SUFFICES ASSUME SafeInv, WritersAlone, WritersAlone', [Next]_vars
               PROVE  SafeInv'
    OBVIOUS
  <2>0. Typed /\ PlacesAgree /\ LinesInv
    BY DEF SafeInv
  <2>1. Typed' /\ PlacesAgree'
    BY <2>0, TypesStep, PlacesStep
  <2>3. ASSUME ~termination_flag'
        PROVE  (\A c \in Clients : LineOf(c))' /\ WritingInv'
    <3>1. ~termination_flag
      BY <2>0, <2>3, StopIsFinal
    <3>2. (\A c \in Clients : LineOf(c)) /\ WritingInv
      BY <2>0, <3>1 DEF LinesInv, WritingInv
    <3>3. \A c \in Clients : LineOf(c)'
      BY <2>0, <3>2, LinesStep
    <3>4. ASSUME MainStep
          PROVE  WritingInv'
      BY <2>0, <3>2, <3>3, <3>4, MainStepWriting
    <3>5. ASSUME NEW c \in Clients, ThreadStep(c)
          PROVE  WritingInv'
      BY <2>0, <3>1, <3>2, <3>5, ThreadStepWriting
    <3>6. ASSUME NEW c \in Clients, ClientStep(c)
          PROVE  WritingInv'
      BY <2>0, <3>2, <3>6, OtherWriting
    <3>7. ASSUME NEW t \in ThreadIds, MonitorStep(t) \/ SpuriousWakeup(t)
          PROVE  WritingInv'
      BY <2>0, <3>2, <3>7, MonitorStepWriting
    <3>8. ASSUME NEW t \in ThreadIds, Terminate(t) \/ Alarm(t)
          PROVE  WritingInv'
      BY <2>0, <3>2, <3>8, OtherWriting
    <3>9. ASSUME UNCHANGED vars
          PROVE  WritingInv'
      BY <3>2, <3>9, StillWriting
         DEF vars, monitor, buffers, server, Running, ToWrite
    <3>10. QED
      BY <3>3, <3>4, <3>5, <3>6, <3>7, <3>8, <3>9 DEF Next
  <2>4. LinesInv'
    BY <2>3 DEF LinesInv, WritingInv
  <2>5. QED
    BY <2>1, <2>4 DEF SafeInv
<1>3. QED
  BY <1>1, <1>2, PTL DEF Spec

\* The write() loops of different threads never mix in the data file, however
\* many clients there are, however many calls each loop takes, whatever fails,
\* whatever the device forgets and whoever is interrupted, as long as the monitor
\* lets one thread write at a time: aesdsocket_write_line starts and ends its line
\* between monitor_start_writing and monitor_stop_writing, and a thread that
\* leaves it in the middle keeps the monitor.
THEOREM WholeLines == Spec /\ []WritersAlone => []LinesStayWhole
<1>1. SafeInv => LinesStayWhole
  BY DEF SafeInv, LinesInv, TextInv, Whole, LinesStayWhole
<1>2. QED
  BY <1>1, LinesHold, PTL

\* The monitor does so while at most two threads are in it at once, of however
\* many clients in the life of the server, and pthread_cond_wait returns only
\* when signalled.  Neither can be left out: with three threads inside, or a wait
\* that just returns, two write together (Monitor.tla).
THEOREM WholeLinesOfTwo ==
  ASSUME SpuriousWakeups = FALSE
  PROVE  Spec /\ []AtMostTwoInside => []LinesStayWhole
BY TwoWriteInTurn, WholeLines, PTL

-----------------------------------------------------------------------------
(* No line is sent twice *)

\* Who wrote in a text, and that nobody did so twice.
Names(s) == {s[i] : i \in 1 .. Len(s)} \ {NL}
Once(s) == \A i, j \in 1 .. Len(s) : s[i] = s[j] /\ i # j => s[i] = NL

LEMMA NamesOfCut ==
  ASSUME NEW S, NEW s \in Seq(S), NEW a \in Int, NEW b \in Int,
         a <= b => a >= 1 /\ b <= Len(s)
  PROVE  /\ Names(SubSeq(s, a, b)) = {s[i] : i \in a .. b} \ {NL}
         /\ Once(s) => Once(SubSeq(s, a, b))
<1> DEFINE r == SubSeq(s, a, b)
<1>1. /\ Len(r) = IF a <= b THEN b - a + 1 ELSE 0
      /\ \A i \in 1 .. b - a + 1 : r[i] = s[a + i - 1]
  BY CutIsSeq
<1> HIDE DEF r
<1>2. ASSUME NEW x
      PROVE  (\E i \in 1 .. Len(r) : r[i] = x) <=> (\E i \in a .. b : s[i] = x)
  <2>1. ASSUME NEW i \in 1 .. Len(r)
        PROVE  a + i - 1 \in a .. b /\ r[i] = s[a + i - 1]
    BY <1>1
  <2>2. ASSUME NEW i \in a .. b
        PROVE  i - a + 1 \in 1 .. Len(r) /\ r[i - a + 1] = s[i]
    <3>1. i - a + 1 \in 1 .. b - a + 1 /\ a + (i - a + 1) - 1 = i
      OBVIOUS
    <3>2. r[i - a + 1] = s[a + (i - a + 1) - 1]
      BY <1>1, <3>1
    <3>3. QED
      BY <1>1, <3>1, <3>2
  <2>3. QED
    BY <2>1, <2>2
<1>3. Names(r) = {s[i] : i \in a .. b} \ {NL}
  BY <1>2 DEF Names
<1>4. ASSUME Once(s), NEW i \in 1 .. Len(r), NEW j \in 1 .. Len(r), r[i] = r[j], i # j
      PROVE  r[i] = NL
  <2>1. a <= b
    BY <1>1
  <2>2. /\ a + i - 1 \in 1 .. Len(s) /\ a + j - 1 \in 1 .. Len(s)
        /\ a + i - 1 # a + j - 1
        /\ i \in 1 .. b - a + 1 /\ j \in 1 .. b - a + 1
    BY <1>1, <1>4, <2>1
  <2>3. r[i] = s[a + i - 1] /\ r[j] = s[a + j - 1]
    BY <1>1, <2>2
  <2>4. QED
    BY <1>4, <2>2, <2>3 DEF Once
<1>5. QED
  BY <1>3, <1>4 DEF Once, r

LEMMA NamesJoined ==
  ASSUME NEW S, NEW s \in Seq(S), NEW u \in Seq(S)
  PROVE  /\ Names(s \o u) = Names(s) \cup Names(u)
         /\ Once(s) /\ Once(u) /\ Names(s) \cap Names(u) = {} => Once(s \o u)
<1> DEFINE r == s \o u
           m == Len(s)
<1>1. /\ Len(r) = m + Len(u) /\ m \in Nat /\ Len(u) \in Nat
      /\ \A i \in 1 .. m + Len(u) : r[i] = IF i <= m THEN s[i] ELSE u[i - m]
  BY ConcatProperties
<1> HIDE DEF r
<1>2. ASSUME NEW i \in 1 .. Len(r)
      PROVE  \/ i \in 1 .. m /\ r[i] = s[i]
             \/ i - m \in 1 .. Len(u) /\ r[i] = u[i - m]
  BY <1>1
<1>3. ASSUME NEW i \in 1 .. m
      PROVE  i \in 1 .. Len(r) /\ r[i] = s[i]
  BY <1>1
<1>4. ASSUME NEW i \in 1 .. Len(u)
      PROVE  i + m \in 1 .. Len(r) /\ r[i + m] = u[i]
  <2>1. i + m \in 1 .. m + Len(u) /\ ~(i + m <= m) /\ (i + m) - m = i
    BY <1>1
  <2>2. QED
    BY <1>1, <2>1
<1>5. ASSUME NEW x
      PROVE  (\E i \in 1 .. Len(r) : r[i] = x) <=>
               \/ \E i \in 1 .. m : s[i] = x
               \/ \E i \in 1 .. Len(u) : u[i] = x
  BY <1>2, <1>3, <1>4
<1>6. Names(r) = Names(s) \cup Names(u)
  <2>1. ASSUME NEW w, NEW x
        PROVE  x \in Names(w) <=> x # NL /\ \E i \in 1 .. Len(w) : w[i] = x
    BY Zenon DEF Names
  <2>2. ASSUME NEW x
        PROVE  x \in Names(r) <=> x \in Names(s) \/ x \in Names(u)
    BY <1>5, <2>1, Zenon
  <2>3. QED
    BY <2>2, Zenon
<1>7. ASSUME Once(s), Once(u), Names(s) \cap Names(u) = {},
             NEW i \in 1 .. Len(r), NEW j \in 1 .. Len(r), r[i] = r[j], i # j
      PROVE  r[i] = NL
  <2>1. CASE i \in 1 .. m /\ j \in 1 .. m
    BY <1>3, <1>7, <2>1 DEF Once
  <2>2. CASE i - m \in 1 .. Len(u) /\ j - m \in 1 .. Len(u)
    <3>1. ~(i <= m) /\ ~(j <= m) /\ i - m # j - m
      BY <1>1, <1>7, <2>2
    <3>2. r[i] = u[i - m] /\ r[j] = u[j - m]
      BY <1>2, <3>1
    <3>3. QED
      BY <1>7, <2>2, <3>1, <3>2 DEF Once
  <2>3. \A k, l \in 1 .. Len(r) :
          k \in 1 .. m /\ l - m \in 1 .. Len(u) /\ r[k] = r[l] => r[k] = NL
    <3> SUFFICES ASSUME NEW k \in 1 .. Len(r), NEW l \in 1 .. Len(r),
                        k \in 1 .. m, l - m \in 1 .. Len(u), r[k] = r[l],
                        r[k] # NL
                 PROVE  FALSE
      OBVIOUS
    <3>1. r[k] = s[k]
      BY <1>3
    <3>2. r[l] = u[l - m]
      <4>1. l - m \in 1 .. Len(u) => ~(l \in 1 .. m)
        BY <1>1
      <4>2. QED
        BY <1>2, <4>1
    <3>3. s[k] \in Names(s) /\ u[l - m] \in Names(u)
      BY <3>1, <3>2 DEF Names
    <3>4. QED
      BY <1>7, <3>1, <3>2, <3>3
  <2>4. QED
    BY <1>2, <1>7, <2>1, <2>2, <2>3
<1>8. QED
  BY <1>6, <1>7 DEF Once, r

Before == {"none", "line"} \cup Receiving

\* What a thread has read and not sent.
InFlight(c) ==
  IF pc[c] \in {"send_eol", "send_eof"} THEN left[c]
  ELSE IF pc[c] \in {"eol", "eof"} \/ (pc[c] = "read" /\ at[c] # "outside")
       THEN line[c]
  ELSE <<>>

\* What is in the file behind the position of a thread.
Rest(c) == SubSeq(text, pos[c] + 1, Len(text))

\* The clients whose line has been written, as far as anybody else can see.
Stored ==
  {x \in Clients : /\ pc[x] \notin Before
                   /\ pc[x] = "write" => x \notin Names(left[x])}

\* What a thread has sent, what it is about to send and what it can still read
\* have no line in common.
ReadOnce(c) ==
  /\ Once(answer[c]) /\ Once(InFlight(c))
  /\ Names(answer[c]) \cap Names(InFlight(c)) = {}
  /\ Names(answer[c]) \cap Names(Rest(c)) = {}
  /\ Names(InFlight(c)) \cap Names(Rest(c)) = {}
  /\ Names(answer[c]) \cup Names(InFlight(c)) \subseteq Stored
  /\ pc[c] \in Before \cup {"write"} => answer[c] = <<>>

OwnLeft(c) == pc[c] = "write" => Once(left[c]) /\ Names(left[c]) \subseteq {c}

OnceInv ==
  /\ Once(text) /\ Names(text) \subseteq Stored
  /\ \A c \in Clients : ReadOnce(c) /\ OwnLeft(c)

LEMMA NoNames == Names(<<>>) = {} /\ Once(<<>>)
BY DEF Names, Once

\* Steps that write nothing and read nothing: what was read is sent, kept or
\* forgotten.
Moves(c) ==
  /\ answer'[c] = answer[c]
  /\ \/ pos'[c] = pos[c] /\ InFlight(c)' \in {InFlight(c), <<>>}
     \/ answer[c] = <<>> /\ InFlight(c)' = <<>>
  /\ pc'[c] \in Before => pc[c] \in Before
  /\ pc'[c] = "write" =>
       \/ pc[c] = "write" /\ left'[c] = left[c]
       \/ pc[c] \in Before /\ left'[c] = <<c, NL>>

Stays(c) ==
  /\ pc'[c] = pc[c] /\ at'[c] = at[c] /\ pos'[c] = pos[c]
  /\ left'[c] = left[c] /\ line'[c] = line[c] /\ answer'[c] = answer[c]

LEMMA StaysMoves ==
  ASSUME NEW c, Stays(c)
  PROVE  Moves(c)
<1>1. InFlight(c)' = InFlight(c)
  BY DEF Stays, InFlight
<1>2. QED
  BY <1>1 DEF Stays, Moves

LEMMA OwnNames ==
  ASSUME NEW c \in Clients
  PROVE  Once(<<c, NL>>) /\ Names(<<c, NL>>) = {c}
<1>1. Len(<<c, NL>>) = 2 /\ <<c, NL>>[1] = c /\ <<c, NL>>[2] = NL
  OBVIOUS
<1>2. \A i \in 1 .. 2 : i = 1 \/ i = 2
  OBVIOUS
<1>3. c # NL
  BY MainAssumption DEF ThreadIds
<1> DEFINE s == <<c, NL>>
<1> HIDE DEF s
<1>4. Len(s) = 2 /\ s[1] = c /\ s[2] = NL
  BY <1>1 DEF s
<1>5. Names(s) = {c}
  BY <1>2, <1>3, <1>4 DEF Names
<1>6. Once(s)
  BY <1>2, <1>4 DEF Once
<1>7. QED
  BY <1>5, <1>6 DEF s

LEMMA StoredGrows ==
  ASSUME NEW x \in Stored, Moves(x)
  PROVE  x \in Stored'
BY DEF Stored, Moves

LEMMA OwnLeftKept ==
  ASSUME NEW c \in Clients, Moves(c), OwnLeft(c)
  PROVE  OwnLeft(c)'
<1>1. CASE pc'[c] = "write" /\ pc[c] = "write" /\ left'[c] = left[c]
  BY <1>1 DEF OwnLeft
<1>2. CASE left'[c] = <<c, NL>>
  BY <1>2, OwnNames DEF OwnLeft
<1>3. QED
  BY <1>1, <1>2 DEF Moves, OwnLeft

LEMMA ReadOnceKept ==
  ASSUME NEW c \in Clients, Moves(c), ReadOnce(c),
         text' = text \/ text' = <<>>, Stored \subseteq Stored', TextTyped
  PROVE  ReadOnce(c)'
<1>1. /\ answer'[c] = answer[c]
      /\ pc'[c] \in Before \cup {"write"} => pc[c] \in Before \cup {"write"}
  BY DEF Moves
<1>2. InFlight(c)' \in {InFlight(c), <<>>}
  BY DEF Moves
<1>3. \/ answer[c] = <<>> /\ InFlight(c)' = <<>>
      \/ Names(Rest(c)') \subseteq Names(Rest(c))
  <2>1. CASE text' = text /\ pos'[c] = pos[c]
    BY <2>1 DEF Rest
  <2>2. CASE text' = <<>> /\ pos'[c] = pos[c]
    <3> DEFINE s == <<>>
               a == pos[c] + 1
    <3>1. s \in Seq(Chars) /\ Len(s) = 0 /\ a \in Int /\ 0 \in Int /\ ~(a <= 0)
          /\ (a <= 0 => a >= 1 /\ 0 <= Len(s))
      BY DEF TextTyped
    <3>2. Rest(c)' = SubSeq(s, a, Len(s))
      BY <2>2 DEF Rest
    <3> HIDE DEF s, a
    <3>3. Len(SubSeq(s, a, 0)) = 0
      BY <3>1, CutIsSeq
    <3>4. Names(Rest(c)') = {}
      BY <3>1, <3>2, <3>3 DEF Names
    <3>5. QED
      BY <3>4
  <2>3. QED
    BY <2>1, <2>2 DEF Moves
<1>4. QED
  BY <1>1, <1>2, <1>3, NoNames DEF ReadOnce

LEMMA OnceKept ==
  ASSUME OnceInv, TextTyped, text' = text \/ text' = <<>>,
         \A c \in Clients : Moves(c)
  PROVE  OnceInv'
<1>1. Stored \subseteq Stored'
  BY StoredGrows DEF Stored
<1>2. \A c \in Clients : ReadOnce(c)' /\ OwnLeft(c)'
  BY <1>1, ReadOnceKept, OwnLeftKept DEF OnceInv
<1>3. Once(text') /\ Names(text') \subseteq Stored'
  BY <1>1, NoNames DEF OnceInv
<1>4. QED
  BY <1>2, <1>3 DEF OnceInv

\* A thread writes a piece of its line: nobody has seen the names in it.
LEMMA WriteOnce ==
  ASSUME Typed, OnceInv, NEW c \in Clients, WriteSome(c)
  PROVE  OnceInv'
<1>1. PICK n \in 1 .. Len(left[c]) :
        /\ text' = Appended(SubSeq(left[c], 1, n))
        /\ left' = Put(left, c, SubSeq(left[c], n + 1, Len(left[c])))
  BY DEF WriteSome
<1> DEFINE l == left[c]
           piece == SubSeq(l, 1, n)
           kept == SubSeq(l, n + 1, Len(l))
           all == text \o piece
<1>0. /\ TextTyped /\ c # Main /\ UNCHANGED <<pc, at, pos, line, answer>>
      /\ pc[c] = "write"
  BY MainAssumption DEF Typed, ThreadIds, WriteSome, AtWrite, monitor, peers
<1>2. /\ l \in Seq(Chars) /\ text \in Seq(Chars) /\ n \in 1 .. Len(l)
      /\ \A d \in Clients : pos[d] \in Nat
  BY <1>0 DEF TextTyped, ThreadIds
<1>3. Once(l) /\ Names(l) \subseteq {c}
  BY <1>0 DEF OnceInv, OwnLeft
<1>4. text' = Appended(piece) /\ left'[c] = kept
      /\ \A d \in Clients : d # c => left'[d] = left[d]
  BY <1>0, <1>1 DEF Put, TextTyped, ThreadIds
<1> HIDE DEF l
<1>5. /\ piece \in Seq(Chars) /\ Once(piece) /\ Names(piece) \subseteq Names(l)
      /\ Names(piece) = {l[i] : i \in 1 .. n} \ {NL}
  <2>1. 1 <= n => 1 >= 1 /\ n <= Len(l)
    BY <1>2
  <2>2. Names(piece) = {l[i] : i \in 1 .. n} \ {NL} /\ Once(piece)
    BY <1>2, <1>3, <2>1, NamesOfCut
  <2>3. piece \in Seq(Chars)
    BY <1>2, SplitTyped
  <2>4. \A i \in 1 .. n : i \in 1 .. Len(l)
    BY <1>2
  <2>5. QED
    BY <2>2, <2>3, <2>4 DEF Names
<1>6. /\ kept \in Seq(Chars) /\ Once(kept) /\ Names(kept) \subseteq Names(l)
      /\ Names(kept) = {l[i] : i \in n + 1 .. Len(l)} \ {NL}
  <2>1. /\ n + 1 <= Len(l) => n + 1 >= 1 /\ Len(l) <= Len(l)
        /\ n + 1 \in Int /\ Len(l) \in Int
    BY <1>2
  <2>2. Names(kept) = {l[i] : i \in n + 1 .. Len(l)} \ {NL} /\ Once(kept)
    BY <1>2, <1>3, <2>1, NamesOfCut
  <2>3. kept \in Seq(Chars)
    BY <1>2, SplitTyped
  <2>4. \A i \in n + 1 .. Len(l) : i \in 1 .. Len(l)
    BY <1>2
  <2>5. QED
    BY <2>2, <2>3, <2>4 DEF Names
<1>7. Names(piece) \cap Names(kept) = {}
  <2>1. ASSUME NEW i \in 1 .. n, NEW j \in n + 1 .. Len(l), l[i] = l[j]
        PROVE  l[i] = NL
    <3>1. i \in 1 .. Len(l) /\ j \in 1 .. Len(l) /\ i # j
      BY <1>2
    <3>2. QED
      BY <1>3, <2>1, <3>1 DEF Once
  <2>2. QED
    BY <1>5, <1>6, <2>1
<1> HIDE DEF piece, kept
<1>8. c \in Names(piece) => c \notin Stored
  BY <1>0, <1>3, <1>5 DEF Stored, l
<1>9. Names(piece) \cap Stored = {}
  BY <1>3, <1>5, <1>8
<1>10. Stored \subseteq Stored' /\ Names(piece) \subseteq Stored'
  <2>1. \A d \in Clients : pc'[d] = pc[d]
    BY <1>0
  <2>2. \A x \in Stored : x \in Stored'
    BY <1>4, <1>6, <2>1 DEF Stored, l
  <2>3. c \in Names(piece) => c \in Stored'
    BY <1>0, <1>4, <1>7 DEF Stored, Before, Receiving
  <2>4. QED
    BY <1>3, <1>5, <2>2, <2>3
<1>11. /\ all \in Seq(Chars) /\ Once(all) /\ Names(all) = Names(text) \cup Names(piece)
       /\ Len(all) = Len(text) + Len(piece) /\ Len(piece) \in Nat /\ Len(text) \in Nat
       /\ \A i \in 1 .. Len(text) + Len(piece) :
            all[i] = IF i <= Len(text) THEN text[i] ELSE piece[i - Len(text)]
  <2>1. Once(text) /\ Names(text) \cap Names(piece) = {}
    BY <1>9 DEF OnceInv
  <2>2. QED
    BY <1>2, <1>5, <2>1, NamesJoined, ConcatProperties
<1> HIDE DEF all
<1>12. PICK k \in 0 .. Len(all) : text' = SubSeq(all, 1 + k, Len(all)) /\ (k = 0 \/ ~Regular)
  <2>1. FirstNewline(all) \in 0 .. Len(all)
    <3>1. Len(all) \in Nat
      BY <1>11
    <3>2. QED
      BY <3>1, FirstNewlineIs
  <2>2. all = SubSeq(all, 1 + 0, Len(all))
    BY <1>11
  <2>3. \/ text' = SubSeq(all, 1 + FirstNewline(all), Len(all)) /\ ~Regular
        \/ text' = all
    BY <1>4 DEF Appended, all
  <2>4. 0 \in 0 .. Len(all)
    BY <1>11
  <2>5. CASE text' = all
    BY <2>2, <2>4, <2>5
  <2>6. CASE text' = SubSeq(all, 1 + FirstNewline(all), Len(all)) /\ ~Regular
    BY <2>1, <2>6
  <2>7. QED
    BY <2>3, <2>5, <2>6
<1>13. /\ text' \in Seq(Chars) /\ Len(text') = Len(all) - k /\ Once(text')
       /\ \A i \in 1 .. Len(all) - k : text'[i] = all[i + k]
  <2>1. /\ text' \in Seq(Chars) /\ Len(text') = Len(all) - k
        /\ \A i \in 1 .. Len(all) - k : text'[i] = all[i + k]
    BY <1>11, <1>12, DropIsSeq
  <2>2. 1 + k \in Int /\ Len(all) \in Int /\ (1 + k <= Len(all) => 1 + k >= 1)
    BY <1>11, <1>12
  <2>3. Once(text')
    BY <1>11, <1>12, <2>2, NamesOfCut
  <2>4. QED
    BY <2>1, <2>3
<1>14. Names(text') \subseteq Names(all)
  <2>1. \A i \in 1 .. Len(text') : i + k \in 1 .. Len(all) /\ text'[i] = all[i + k]
    BY <1>11, <1>12, <1>13
  <2>2. QED
    BY <2>1 DEF Names
<1>15. ASSUME NEW d \in Clients
       PROVE  Names(Rest(d)') \subseteq Names(Rest(d)) \cup Names(piece)
  <2>1. Names(Rest(d)') = {text'[i] : i \in pos[d] + 1 .. Len(text')} \ {NL}
    <3>1. /\ pos[d] + 1 \in Int /\ Len(text') \in Int /\ pos[d] + 1 >= 1
          /\ pos'[d] = pos[d]
      BY <1>0, <1>2, <1>13
    <3>2. Rest(d)' = SubSeq(text', pos[d] + 1, Len(text'))
      BY <3>1 DEF Rest
    <3>3. QED
      BY <1>13, <3>1, <3>2, NamesOfCut
  <2>2. Names(Rest(d)) = {text[i] : i \in pos[d] + 1 .. Len(text)} \ {NL}
    <3>1. /\ text \in Seq(Chars)
          /\ pos[d] + 1 \in Int /\ Len(text) \in Int /\ pos[d] + 1 >= 1
      BY <1>2
    <3>2. Names(SubSeq(text, pos[d] + 1, Len(text)))
            = {text[i] : i \in pos[d] + 1 .. Len(text)} \ {NL}
      BY <3>1, NamesOfCut
    <3>3. QED
      BY <3>2 DEF Rest
  <2>3. ASSUME NEW i \in pos[d] + 1 .. Len(text')
        PROVE  \/ \E j \in pos[d] + 1 .. Len(text) : text[j] = text'[i]
               \/ \E j \in 1 .. Len(piece) : piece[j] = text'[i]
    <3>1. /\ i \in 1 .. Len(all) - k /\ i + k \in 1 .. Len(text) + Len(piece)
          /\ i + k >= pos[d] + 1 /\ i + k \in Int
      BY <1>2, <1>11, <1>12, <1>13
    <3>2. text'[i] = all[i + k]
      BY <1>13, <3>1
    <3>3. CASE i + k <= Len(text)
      BY <1>2, <1>11, <3>1, <3>2, <3>3
    <3>4. CASE ~(i + k <= Len(text))
      <4>1. (i + k) - Len(text) \in 1 .. Len(piece)
        BY <1>11, <3>1, <3>4
      <4>2. all[i + k] = piece[(i + k) - Len(text)]
        BY <1>11, <3>1, <3>4
      <4>3. QED
        BY <3>2, <4>1, <4>2
    <3>5. QED
      BY <3>3, <3>4
  <2>4. QED
    BY <2>1, <2>2, <2>3 DEF Names
<1>16. ASSUME NEW d \in Clients
       PROVE  ReadOnce(d)'
  <2>1. InFlight(d)' = InFlight(d)
    <3>1. CASE d = c
      BY <1>0, <3>1 DEF InFlight
    <3>2. CASE d # c
      BY <1>0, <1>4, <3>2 DEF InFlight
    <3>3. QED
      BY <3>1, <3>2
  <2>2. answer'[d] = answer[d] /\ pc'[d] = pc[d]
    BY <1>0
  <2>3. ReadOnce(d)
    BY DEF OnceInv
  <2>4. QED
    BY <1>9, <1>10, <1>15, <2>1, <2>2, <2>3 DEF ReadOnce
<1>17. ASSUME NEW d \in Clients
       PROVE  OwnLeft(d)'
  <2>1. CASE d = c
    BY <1>3, <1>4, <1>6, <2>1 DEF OwnLeft
  <2>2. CASE d # c
    BY <1>0, <1>4, <2>2 DEF OwnLeft, OnceInv
  <2>3. QED
    BY <2>1, <2>2
<1>18. Once(text') /\ Names(text') \subseteq Stored'
  BY <1>10, <1>11, <1>13, <1>14 DEF OnceInv
<1>19. QED
  BY <1>16, <1>17, <1>18 DEF OnceInv

\* A thread reads on: what it gets is behind its position, and new to it.
LEMMA ReadOnceMore ==
  ASSUME Typed, OnceInv, NEW c \in Clients, ReadSome(c)
  PROVE  OnceInv'
<1> DEFINE n       == ReadCount(c)
           chars   == SubSeq(text, pos[c] + 1, pos[c] + n)
           newline == FirstNewline(chars)
           kept    == IF newline = 0 THEN chars ELSE SubSeq(chars, 1, newline)
<1>0. /\ TextTyped /\ PlacesTyped
      /\ \A d \in Clients : pos[d] \in Nat /\ line[d] \in Seq(Chars)
      /\ text \in Seq(Chars)
  BY DEF Typed, TextTyped
<1>1. /\ pos' = Put(pos, c, pos[c] + n)
      /\ line' = Put(line, c, line[c] \o kept)
      /\ UNCHANGED <<text, left, answer, at>> /\ pc[c] = "read" /\ at[c] = "reading"
      /\ \E place \in {"eof", "eol", "read"} : Goto(c, place)
  BY DEF ReadSome, peers, monitor, AtPlace
<1>2. /\ \A d \in Clients : d # c => Stays(d)
      /\ pos'[c] = pos[c] + n /\ line'[c] = line[c] \o kept
      /\ pc'[c] \in {"eof", "eol", "read"}
  BY <1>0, <1>1 DEF Put, TextTyped, PlacesTyped, Goto, Stays
<1>3. n \in Nat /\ (n > 0 => pos[c] + n <= Len(text))
  BY <1>0, ReadCountBound
<1> HIDE DEF n
<1>4. /\ pos[c] + 1 \in Int /\ pos[c] + n \in Int
      /\ (pos[c] + 1 <= pos[c] + n => pos[c] + 1 >= 1 /\ pos[c] + n <= Len(text))
  BY <1>0, <1>3
<1>5. Once(text)
  BY DEF OnceInv
<1>6. /\ chars \in Seq(Chars) /\ Once(chars) /\ Len(chars) \in Nat
      /\ Names(chars) = {text[i] : i \in pos[c] + 1 .. pos[c] + n} \ {NL}
  <2>1. chars \in Seq(Chars)
    BY <1>0, <1>4, CutIsSeq
  <2>2. Once(chars) /\ Names(chars) = {text[i] : i \in pos[c] + 1 .. pos[c] + n} \ {NL}
    BY <1>0, <1>4, <1>5, NamesOfCut
  <2>3. QED
    BY <2>1, <2>2
<1> HIDE DEF chars
<1>7. newline \in Nat /\ newline <= Len(chars)
  BY <1>6, FirstNewlineIs
<1> HIDE DEF newline
<1>8. kept \in Seq(Chars) /\ Once(kept) /\ Names(kept) \subseteq Names(chars)
  <2>1. CASE newline = 0
    BY <1>6, <2>1
  <2>2. CASE newline # 0
    <3>1. newline \in Int /\ 1 \in Int /\ (1 <= newline => 1 >= 1 /\ newline <= Len(chars))
      BY <1>7
    <3>2. /\ Names(SubSeq(chars, 1, newline)) = {chars[i] : i \in 1 .. newline} \ {NL}
          /\ Once(SubSeq(chars, 1, newline))
      BY <1>6, <3>1, NamesOfCut
    <3>3. SubSeq(chars, 1, newline) \in Seq(Chars)
      BY <1>6, <3>1, CutIsSeq
    <3>4. \A i \in 1 .. newline : i \in 1 .. Len(chars)
      BY <1>6, <1>7
    <3>5. QED
      BY <2>2, <3>2, <3>3, <3>4 DEF Names
  <2>3. QED
    BY <2>1, <2>2
<1> HIDE DEF kept
<1>9. Names(Rest(c)) = {text[i] : i \in pos[c] + 1 .. Len(text)} \ {NL}
  <2>1. pos[c] + 1 \in Int /\ Len(text) \in Int /\ pos[c] + 1 >= 1
    BY <1>0
  <2>2. QED
    BY <1>0, <2>1, NamesOfCut DEF Rest
<1>10. Names(Rest(c)') = {text[i] : i \in (pos[c] + n) + 1 .. Len(text)} \ {NL}
  <2> DEFINE a == (pos[c] + n) + 1
  <2>1. a \in Int /\ Len(text) \in Int /\ a >= 1
    BY <1>0, <1>3
  <2>2. Rest(c)' = SubSeq(text, a, Len(text))
    BY <1>1, <1>2 DEF Rest
  <2> HIDE DEF a
  <2>3. Names(SubSeq(text, a, Len(text))) = {text[i] : i \in a .. Len(text)} \ {NL}
    BY <1>0, <2>1, NamesOfCut
  <2>4. QED
    BY <2>2, <2>3 DEF a
<1>11. /\ Names(chars) \subseteq Names(Rest(c))
       /\ Names(Rest(c)') \subseteq Names(Rest(c))
       /\ Names(Rest(c)) \subseteq Names(text)
  <2>1. \A i \in pos[c] + 1 .. pos[c] + n : i \in pos[c] + 1 .. Len(text)
    BY <1>0, <1>3
  <2>2. \A i \in (pos[c] + n) + 1 .. Len(text) : i \in pos[c] + 1 .. Len(text)
    BY <1>0, <1>3
  <2>3. \A i \in pos[c] + 1 .. Len(text) : i \in 1 .. Len(text)
    BY <1>0
  <2>4. QED
    BY <1>6, <1>9, <1>10, <2>1, <2>2, <2>3 DEF Names
<1>12. Names(chars) \cap Names(Rest(c)') = {}
  <2>1. ASSUME NEW i \in pos[c] + 1 .. pos[c] + n,
               NEW j \in (pos[c] + n) + 1 .. Len(text), text[i] = text[j]
        PROVE  text[i] = NL
    <3>1. i \in 1 .. Len(text) /\ j \in 1 .. Len(text) /\ i # j
      BY <1>0, <1>3
    <3>2. QED
      BY <1>5, <2>1, <3>1 DEF Once
  <2>2. QED
    BY <1>6, <1>10, <2>1
<1>13. /\ InFlight(c) = line[c] /\ InFlight(c)' = line[c] \o kept
  BY <1>1, <1>2 DEF InFlight
<1>14. ReadOnce(c)
  BY DEF OnceInv
<1>15. /\ Once(InFlight(c)') /\ Names(InFlight(c)') = Names(InFlight(c)) \cup Names(kept)
  <2>1. Names(line[c]) \cap Names(kept) = {} /\ Once(line[c])
    BY <1>8, <1>11, <1>13, <1>14 DEF ReadOnce
  <2>2. QED
    BY <1>0, <1>8, <1>13, <2>1, NamesJoined
<1>16. Stored' = Stored
  <2>1. \A x \in Clients : x \in Stored' <=> x \in Stored
    <3>1. c \in Stored /\ c \in Stored'
      BY <1>1, <1>2 DEF Stored, Before, Receiving
    <3>2. QED
      BY <1>2, <3>1 DEF Stored, Stays
  <2>2. QED
    BY <2>1 DEF Stored
<1>17. Names(text) \subseteq Stored
  BY DEF OnceInv
<1>18. ReadOnce(c)'
  <2>1. answer'[c] = answer[c] /\ pc'[c] \notin Before \cup {"write"}
    BY <1>1, <1>2 DEF Before, Receiving
  <2>2. QED
    BY <1>8, <1>11, <1>12, <1>14, <1>15, <1>16, <1>17, <2>1 DEF ReadOnce
<1>19. ASSUME NEW d \in Clients, d # c
       PROVE  ReadOnce(d)' /\ OwnLeft(d)'
  <2>1. Moves(d) /\ ReadOnce(d) /\ OwnLeft(d)
    BY <1>2, <1>19, StaysMoves DEF OnceInv
  <2>2. QED
    BY <1>0, <1>1, <1>16, <2>1, ReadOnceKept, OwnLeftKept
<1>20. OwnLeft(c)'
  BY <1>2 DEF OwnLeft
<1>21. QED
  BY <1>1, <1>5, <1>16, <1>17, <1>18, <1>19, <1>20 DEF OnceInv

\* A thread sends a piece of what it has read.
LEMMA SendOnce ==
  ASSUME Typed, OnceInv, NEW c \in Clients, SendSome(c)
  PROVE  OnceInv'
<1> DEFINE l == left[c]
<1>1. PICK n \in 1 .. Len(l) :
        /\ left' = Put(left, c, SubSeq(l, n + 1, Len(l)))
        /\ answer' = IF c \in gone THEN answer
                     ELSE Put(answer, c, answer[c] \o SubSeq(l, 1, n))
  BY DEF SendSome
<1> DEFINE piece == SubSeq(l, 1, n)
           kept == SubSeq(l, n + 1, Len(l))
<1>0. /\ TextTyped /\ UNCHANGED <<pc, at, pos, line, text>>
      /\ pc[c] \in {"send_eol", "send_eof"}
  BY DEF Typed, SendSome, Sending, monitor
<1>2. /\ l \in Seq(Chars) /\ n \in 1 .. Len(l) /\ answer[c] \in Seq(Chars)
      /\ answer \in [Clients -> Seq(Chars)]
  BY <1>0 DEF TextTyped, ThreadIds
<1>3. /\ InFlight(c) = l /\ InFlight(c)' = kept
      /\ answer'[c] \in {answer[c], answer[c] \o piece}
      /\ \A d \in Clients : d # c => Stays(d)
  BY <1>0, <1>1, <1>2 DEF InFlight, Put, TextTyped, ThreadIds, Stays
<1>4. ReadOnce(c) /\ Once(l)
  <2>1. ReadOnce(c)
    BY DEF OnceInv
  <2>2. QED
    BY <1>3, <2>1 DEF ReadOnce
<1> HIDE DEF l
<1>5. /\ piece \in Seq(Chars) /\ Once(piece)
      /\ Names(piece) = {l[i] : i \in 1 .. n} \ {NL}
  <2>1. 1 <= n => 1 >= 1 /\ n <= Len(l)
    BY <1>2
  <2>2. Names(piece) = {l[i] : i \in 1 .. n} \ {NL} /\ Once(piece)
    BY <1>2, <1>4, <2>1, NamesOfCut
  <2>3. QED
    BY <1>2, <2>2, SplitTyped
<1>6. /\ Once(kept) /\ Names(kept) = {l[i] : i \in n + 1 .. Len(l)} \ {NL}
  <2>1. /\ n + 1 <= Len(l) => n + 1 >= 1 /\ Len(l) <= Len(l)
        /\ n + 1 \in Int /\ Len(l) \in Int
    BY <1>2
  <2>2. QED
    BY <1>2, <1>4, <2>1, NamesOfCut
<1>7. /\ Names(piece) \subseteq Names(l) /\ Names(kept) \subseteq Names(l)
      /\ Names(piece) \cap Names(kept) = {}
  <2>1. ASSUME NEW i \in 1 .. n, NEW j \in n + 1 .. Len(l), l[i] = l[j]
        PROVE  l[i] = NL
    <3>1. i \in 1 .. Len(l) /\ j \in 1 .. Len(l) /\ i # j
      BY <1>2
    <3>2. QED
      BY <1>4, <2>1, <3>1 DEF Once
  <2>2. \A i \in 1 .. n : i \in 1 .. Len(l)
    BY <1>2
  <2>3. \A i \in n + 1 .. Len(l) : i \in 1 .. Len(l)
    BY <1>2
  <2>4. QED
    BY <1>5, <1>6, <2>1, <2>2, <2>3 DEF Names
<1> HIDE DEF piece, kept
<1>8. /\ Once(answer'[c]) /\ Names(answer'[c]) \subseteq Names(answer[c]) \cup Names(piece)
  <2>1. Once(answer[c]) /\ Names(answer[c]) \cap Names(piece) = {}
    BY <1>3, <1>4, <1>7 DEF ReadOnce
  <2>2. CASE answer'[c] = answer[c]
    BY <2>1, <2>2
  <2>3. CASE answer'[c] = answer[c] \o piece
    BY <1>2, <1>5, <2>1, <2>3, NamesJoined
  <2>4. QED
    BY <1>3, <2>2, <2>3
<1>9. Stored' = Stored
  <2>1. \A x \in Clients : x \in Stored' <=> x \in Stored
    <3>1. c \in Stored /\ c \in Stored'
      BY <1>0 DEF Stored, Before, Receiving
    <3>2. QED
      BY <1>3, <3>1 DEF Stored, Stays
  <2>2. QED
    BY <2>1 DEF Stored
<1>10. ReadOnce(c)'
  <2>1. Rest(c)' = Rest(c) /\ pc'[c] \notin Before \cup {"write"}
    BY <1>0 DEF Rest, Before, Receiving
  <2>2. QED
    BY <1>3, <1>4, <1>6, <1>7, <1>8, <1>9, <2>1 DEF ReadOnce
<1>11. ASSUME NEW d \in Clients, d # c
       PROVE  ReadOnce(d)' /\ OwnLeft(d)'
  <2>1. Moves(d) /\ ReadOnce(d) /\ OwnLeft(d)
    BY <1>3, <1>11, StaysMoves DEF OnceInv
  <2>2. QED
    BY <1>0, <1>9, <2>1, ReadOnceKept, OwnLeftKept
<1>12. OwnLeft(c)'
  BY <1>0 DEF OwnLeft
<1>13. QED
  BY <1>0, <1>9, <1>10, <1>11, <1>12 DEF OnceInv

LEMMA ThreadStepOnce ==
  ASSUME Typed, PlacesAgree, PlacesAgree', OnceInv, ~termination_flag,
         NEW c \in Clients, LineOf(c), ThreadStep(c)
  PROVE  OnceInv'
<1>0. /\ TextTyped /\ PlacesTyped /\ c \in ThreadIds /\ c # Main
      /\ at[c] \in ClientAt(pc[c]) /\ at'[c] \in ClientAt(pc'[c])
      /\ (pc[c] \in Before \cup {"write"} => answer[c] = <<>>)
  BY MainAssumption DEF Typed, ThreadIds, PlacesAgree, OnceInv, ReadOnce
<1>1. \A place : Goto(c, place) =>
        pc'[c] = place /\ \A d \in Clients : d # c => pc'[d] = pc[d]
  BY <1>0 DEF Goto, PlacesTyped
<1>2. \A v : /\ line' = Put(line, c, v) =>
                  line'[c] = v /\ \A d \in Clients : d # c => line'[d] = line[d]
             /\ left' = Put(left, c, v) =>
                  left'[c] = v /\ \A d \in Clients : d # c => left'[d] = left[d]
             /\ pos' = Put(pos, c, v) =>
                  \A d \in Clients : d # c => pos'[d] = pos[d]
  BY <1>0 DEF Put, TextTyped, ThreadIds
<1>3. ASSUME Moves(c), text' = text, UNCHANGED answer,
             \A d \in Clients : d # c => /\ pc'[d] = pc[d] /\ at'[d] = at[d]
                                         /\ pos'[d] = pos[d] /\ left'[d] = left[d]
                                         /\ line'[d] = line[d]
      PROVE  OnceInv'
  BY <1>0, <1>3, StaysMoves, OnceKept DEF Stays
<1>4. CASE Start(c) \/ TestTermination(c) \/ CallRecv(c) \/ RecvFails(c) \/ Recv(c)
  <2>1. /\ UNCHANGED <<monitor, text, pos, left, answer>> /\ pc[c] \in Receiving
        /\ \E place \in Receiving \cup {"line", "failed"} : Goto(c, place)
        /\ line' = line \/ \E v : line' = Put(line, c, v)
    BY <1>4 DEF Start, TestTermination, CallRecv, RecvFails, Recv, AtPlace, buffers,
       peers, Receiving
  <2>2. pc'[c] \in Receiving \cup {"line", "failed"}
    BY <1>1, <2>1
  <2>3. InFlight(c)' = <<>>
    BY <2>2 DEF InFlight, Receiving
  <2>4. Moves(c)
    BY <1>0, <2>1, <2>2, <2>3 DEF Moves, Before, Receiving
  <2>5. QED
    BY <1>1, <1>2, <1>3, <2>1, <2>4 DEF monitor
<1>5. CASE SeekTo(c) \/ NothingToWrite(c)
  <2>1. /\ UNCHANGED <<monitor, text, left, answer>> /\ pc[c] = "line"
        /\ \E place \in {"read", "failed"} : Goto(c, place)
        /\ line' = line \/ \E v : line' = Put(line, c, v)
        /\ pos' = pos \/ \E v : pos' = Put(pos, c, v)
    BY <1>5 DEF SeekTo, NothingToWrite, AtPlace, peers
  <2>2. pc'[c] \in {"read", "failed"} /\ at'[c] = "outside"
    BY <1>0, <1>1, <2>1 DEF ClientAt, monitor
  <2>3. InFlight(c)' = <<>>
    BY <2>2 DEF InFlight
  <2>4. Moves(c)
    BY <1>0, <2>1, <2>2, <2>3 DEF Moves, Before, Receiving
  <2>5. QED
    BY <1>1, <1>2, <1>3, <2>1, <2>4 DEF monitor
<1>6. CASE StoreLine(c)
  <2>1. /\ UNCHANGED <<monitor, text, pos, line, answer>> /\ pc[c] = "line"
        /\ Goto(c, "write") /\ left' = Put(left, c, line[c]) /\ ~IsSeek(c)
    BY <1>6 DEF StoreLine, AtPlace, peers
  <2>2. line[c] = <<c, NL>>
    BY <2>1 DEF LineOf
  <2>3. pc'[c] = "write" /\ left'[c] = <<c, NL>>
    BY <1>1, <1>2, <2>1, <2>2
  <2>4. InFlight(c)' = <<>>
    BY <2>3 DEF InFlight
  <2>5. Moves(c)
    BY <1>0, <2>1, <2>3, <2>4 DEF Moves, Before, Receiving
  <2>6. QED
    BY <1>1, <1>2, <1>3, <2>1, <2>5 DEF monitor
<1>7. CASE CallWriting(c) \/ BrokenPipe(c)
  <2>1. /\ UNCHANGED <<text, pos, line, left, answer, pc>>
        /\ \A u \in ThreadIds : u # c => at'[u] = at[u]
        /\ pc[c] = "write" \/ at'[c] = at[c]
    <3>1. CASE CallWriting(c)
      BY <1>0, <3>1, MovedFrom
         DEF CallWriting, AtWrite, Mon!Call, buffers, peers, Typed
    <3>2. CASE BrokenPipe(c)
      BY <3>2 DEF BrokenPipe, monitor, buffers, peers
    <3>3. QED
      BY <1>7, <3>1, <3>2
  <2>2. InFlight(c)' = InFlight(c)
    BY <2>1 DEF InFlight
  <2>3. Moves(c)
    BY <2>1, <2>2 DEF Moves
  <2>4. QED
    BY <1>3, <2>1, <2>3 DEF ThreadIds
<1>8. CASE WriteFails(c) \/ ReadFails(c) \/ SendFails(c)
  <2>1. /\ UNCHANGED <<monitor, text, pos, line, left, answer>>
        /\ Goto(c, "failed")
    BY <1>0, <1>8 DEF WriteFails, ReadFails, SendFails, buffers, peers
  <2>2. pc'[c] = "failed"
    BY <1>1, <2>1
  <2>3. InFlight(c)' = <<>>
    BY <2>2 DEF InFlight
  <2>4. Moves(c)
    BY <2>1, <2>2, <2>3 DEF Moves, Before, Receiving
  <2>5. QED
    BY <1>1, <1>3, <2>1, <2>4 DEF monitor
<1>9. CASE Written(c)
  <2>1. /\ UNCHANGED <<text, left, answer>> /\ pc[c] = "write" /\ Mon!StopWriting(c)
        /\ \E place \in {"read", "failed"} : Goto(c, place)
        /\ \E v : line' = Put(line, c, v) /\ \E p : pos' = Put(pos, c, p)
    BY <1>0, <1>9 DEF Written, AtWrite, peers
  <2>2. /\ pc'[c] \in {"read", "failed"} /\ at'[c] = "outside"
        /\ \A u \in ThreadIds : u # c => at'[u] = at[u]
    BY <1>0, <1>1, <2>1, MovedFrom DEF Mon!StopWriting, Typed
  <2>3. InFlight(c)' = <<>>
    BY <2>2 DEF InFlight
  <2>4. Moves(c)
    BY <1>0, <2>1, <2>2, <2>3 DEF Moves, Before, Receiving
  <2>5. QED
    BY <1>1, <1>2, <1>3, <2>1, <2>2, <2>4 DEF ThreadIds
<1>10. CASE CallReading(c)
  <2>1. /\ UNCHANGED <<text, left, answer, pos, pc>> /\ pc[c] = "read"
        /\ Mon!Call(c) /\ line' = Put(line, c, <<>>)
    BY <1>10 DEF CallReading, AtPlace, peers
  <2>2. /\ line'[c] = <<>>
        /\ \A u \in ThreadIds : u # c => at'[u] = at[u]
    BY <1>0, <1>2, <2>1, MovedFrom DEF Mon!Call, Typed
  <2>3. InFlight(c)' = <<>>
    BY <2>1, <2>2 DEF InFlight
  <2>4. Moves(c)
    BY <2>1, <2>3 DEF Moves
  <2>5. QED
    BY <1>2, <1>3, <2>1, <2>2, <2>4 DEF ThreadIds
<1>11. CASE LineRead(c)
  <2>1. /\ UNCHANGED <<text, answer, pos, line>> /\ pc[c] \in {"eol", "eof"}
        /\ Mon!StopReading(c) /\ left' = Put(left, c, line[c])
        /\ \E place \in {"send_eol", "send_eof"} : Goto(c, place)
    BY <1>11 DEF LineRead, peers
  <2>2. /\ left'[c] = line[c] /\ pc'[c] \in {"send_eol", "send_eof"}
        /\ \A u \in ThreadIds : u # c => at'[u] = at[u]
    BY <1>0, <1>1, <1>2, <2>1, MovedFrom DEF Mon!StopReading, Typed
  <2>3. InFlight(c)' = InFlight(c)
    BY <2>1, <2>2 DEF InFlight
  <2>4. Moves(c)
    BY <2>1, <2>2, <2>3 DEF Moves, Before, Receiving
  <2>5. QED
    BY <1>1, <1>2, <1>3, <2>1, <2>2, <2>4 DEF ThreadIds
<1>12. CASE LineSent(c)
  <2>1. /\ UNCHANGED <<monitor, text, answer, pos, line>>
        /\ pc[c] \in {"send_eol", "send_eof"}
        /\ \E v : left' = Put(left, c, v)
        /\ \E place \in {"read", "closed"} : Goto(c, place)
    BY <1>12 DEF LineSent, Sending, peers
  <2>2. pc'[c] \in {"read", "closed"} /\ at'[c] = "outside"
    BY <1>0, <1>1, <2>1 DEF ClientAt, monitor
  <2>3. InFlight(c)' = <<>>
    BY <2>2 DEF InFlight
  <2>4. Moves(c)
    BY <2>1, <2>2, <2>3 DEF Moves, Before, Receiving
  <2>5. QED
    BY <1>1, <1>2, <1>3, <2>1, <2>4 DEF monitor
<1>13. QED
  BY <1>4, <1>5, <1>6, <1>7, <1>8, <1>9, <1>10, <1>11, <1>12, WriteOnce,
     ReadOnceMore, SendOnce DEF ThreadStep

LEMMA MainStepOnce ==
  ASSUME Typed, PlacesAgree, UseTimestamp = FALSE, OnceInv, MainStep
  PROVE  OnceInv'
<1>0. /\ TextTyped /\ PlacesTyped /\ Main \notin Clients
      /\ main # "stamp" /\ ~timestamp_flag
  BY MainAssumption DEF Typed, PlacesAgree, NoStamps, ThreadIds
<1>1. ~(CallWriting(Main) \/ WriteSome(Main) \/ WriteFails(Main) \/ StampWritten)
  BY <1>0 DEF CallWriting, WriteSome, WriteFails, StampWritten, AtWrite
<1>2. /\ UNCHANGED <<at, pos, line, left, answer>>
      /\ text' = text \/ text' = <<>>
      /\ \A d \in Clients : pc'[d] = pc[d] \/ (pc[d] = "backlog" /\ pc'[d] = "start")
  <2>1. CASE \E c \in Clients : Accept(c) \/ EnqueueFails(c)
    BY <1>0, <2>1 DEF Accept, EnqueueFails, Goto, PlacesTyped, monitor, buffers, peers
  <2>2. CASE \/ TestFlags \/ ClearFlag \/ CallAccept \/ Join \/ Exit
             \/ \E c \in Clients : AcceptFails(c)
    BY <1>0, <2>2 DEF TestFlags, ClearFlag, CallAccept, Join, Exit, AcceptFails,
       monitor, buffers, peers
  <2>3. QED
    BY <1>1, <2>1, <2>2 DEF MainStep
<1>3. ASSUME NEW d \in Clients
      PROVE  Moves(d)
  <2>1. CASE pc'[d] = pc[d]
    BY <1>2, <2>1, StaysMoves DEF Stays
  <2>2. CASE pc[d] = "backlog" /\ pc'[d] = "start"
    <3>1. InFlight(d)' = <<>>
      BY <2>2 DEF InFlight
    <3>2. QED
      BY <1>2, <2>2, <3>1 DEF Moves, Before, Receiving
  <2>3. QED
    BY <1>2, <2>1, <2>2
<1>4. QED
  BY <1>0, <1>2, <1>3, OnceKept

LEMMA OtherOnce ==
  ASSUME Typed, PlacesAgree, OnceInv,
         \/ \E c \in Clients : ClientStep(c)
         \/ \E t \in ThreadIds :
              MonitorStep(t) \/ SpuriousWakeup(t) \/ Terminate(t) \/ Alarm(t)
         \/ UNCHANGED vars
  PROVE  OnceInv'
<1>0. TextTyped /\ PlacesTyped /\ AtTyped
  BY DEF Typed
<1>1. ASSUME UNCHANGED <<text, pos, line, left, answer>>,
             \A d \in Clients :
               /\ (at'[d] = "outside") <=> (at[d] = "outside")
               /\ \/ pc'[d] = pc[d]
                  \/ pc[d] = "none" /\ pc'[d] = "backlog"
                  \/ pc[d] = "recv" /\ pc'[d] = "test"
      PROVE  OnceInv'
  <2>1. ASSUME NEW d \in Clients
        PROVE  Moves(d)
    <3>1. CASE pc'[d] = pc[d]
      <4>1. InFlight(d)' = InFlight(d)
        BY <1>1, <3>1 DEF InFlight
      <4>2. QED
        BY <1>1, <3>1, <4>1 DEF Moves
    <3>2. CASE pc[d] \in {"none", "recv"} /\ pc'[d] \in {"backlog", "test"}
      <4>1. InFlight(d)' = <<>>
        BY <3>2 DEF InFlight
      <4>2. QED
        BY <1>1, <3>2, <4>1 DEF Moves, Before, Receiving
    <3>3. QED
      BY <1>1, <3>1, <3>2
  <2>2. QED
    BY <1>0, <1>1, <2>1, OnceKept
<1>2. ASSUME NEW c \in Clients, ClientStep(c)
      PROVE  OnceInv'
  <2>1. /\ UNCHANGED <<at, text, pos, line, left, answer>>
        /\ \A d \in Clients : pc'[d] = pc[d] \/ (pc[d] = "none" /\ pc'[d] = "backlog")
    BY <1>0, <1>2 DEF ClientStep, Connect, SendFirst, SendNewline, Leave, Goto,
       PlacesTyped, monitor, buffers, peers
  <2>2. QED
    BY <1>1, <2>1
<1>3. ASSUME NEW t \in ThreadIds, MonitorStep(t) \/ SpuriousWakeup(t)
      PROVE  OnceInv'
  <2>1. UNCHANGED <<text, pos, line, left, answer, pc>>
    BY <1>3 DEF MonitorStep, SpuriousWakeup, buffers, peers
  <2>2. \A d \in Clients : (at'[d] = "outside") <=> (at[d] = "outside")
    BY <1>0, <1>3, WaitingMoves DEF ThreadIds, Mon!ReaderPlaces, Mon!WriterPlaces
  <2>3. QED
    BY <1>1, <2>1, <2>2
<1>4. ASSUME NEW t \in ThreadIds, Terminate(t) \/ Alarm(t)
      PROVE  OnceInv'
  <2>1. /\ UNCHANGED <<at, text, pos, line, left, answer>>
        /\ \A d \in Clients : pc'[d] = pc[d] \/ (pc[d] = "recv" /\ pc'[d] = "test")
    BY <1>0, <1>4 DEF Terminate, Alarm, Interrupts, Put, PlacesTyped, monitor,
       buffers, peers
  <2>2. QED
    BY <1>1, <2>1
<1>5. CASE UNCHANGED vars
  BY <1>1, <1>5 DEF vars, monitor, buffers, peers
<1>6. QED
  BY <1>2, <1>3, <1>4, <1>5

\* However much the device forgets between two lines of an answer, whatever
\* other threads append meanwhile, whatever fails and whenever the server is told
\* to stop: aesdsocket_serve sends no line twice.  (Without time stamps, which
\* all look the same.)
THEOREM NeverTwice ==
  ASSUME UseTimestamp = FALSE
  PROVE  Spec => []NoLineTwice
<1> DEFINE OwnLines == \A c \in Clients : LineOf(c)
           Answers == \A c \in Clients : Once(answer[c])
           Inv == /\ Typed /\ PlacesAgree /\ Answers
                  /\ ~termination_flag => OwnLines /\ OnceInv
<1>1. Init => Inv
  <2> SUFFICES ASSUME Init PROVE Inv
    OBVIOUS
  <2>1. Typed /\ PlacesAgree
    BY TypesInit
    DEF Init, Mon!Init, PlacesAgree, ClientAt, MainAt, NoStamps, ThreadIds
  <2>2. \A c \in Clients : LineOf(c)
    BY DEF Init, LineOf, Received
  <2>3. ASSUME NEW c \in Clients
        PROVE  ReadOnce(c) /\ OwnLeft(c) /\ Once(answer[c])
    BY NoNames DEF Init, ReadOnce, OwnLeft, InFlight
  <2>4. OnceInv
    BY <2>3, NoNames DEF Init, OnceInv
  <2>5. QED
    BY <2>1, <2>2, <2>3, <2>4
<1>2. Inv /\ [Next]_vars => Inv'
  <2> SUFFICES ASSUME Inv, [Next]_vars PROVE Inv'
    OBVIOUS
  <2>1. Typed' /\ PlacesAgree'
    BY TypesStep, PlacesStep
  <2>2. CASE termination_flag
    BY <2>1, <2>2, StopIsFinal, StopEndsAnswers
  <2>3. CASE ~termination_flag
    <3>1. OwnLines'
      BY <2>3, LinesStep
    <3>2. OnceInv'
      BY <2>1, <2>3, ThreadStepOnce, MainStepOnce, OtherOnce DEF Next
    <3>3. Answers'
      BY <3>2 DEF OnceInv, ReadOnce
    <3>4. QED
      BY <2>1, <3>1, <3>2, <3>3
  <2>4. QED
    BY <2>2, <2>3
<1>3. Inv => NoLineTwice
  BY DEF Once, NoLineTwice
<1>4. QED
  BY <1>1, <1>2, <1>3, PTL DEF Spec

-----------------------------------------------------------------------------
(* Answers are the text *)

\* u is what stands in s behind place p.
StandsAt(s, p, u) ==
  p + Len(u) <= Len(s) /\ \A i \in 1 .. Len(u) : s[p + i] = u[i]

\* The device forgets nothing in this step.
Grows == IsPrefix(text, text')

LEMMA PrefixIs ==
  ASSUME NEW S, NEW s \in Seq(S), NEW t \in Seq(S)
  PROVE  IsPrefix(s, t) <=>
           Len(s) <= Len(t) /\ \A i \in 1 .. Len(s) : s[i] = t[i]
<1> DEFINE a == SubSeq(s, 1, Len(s))
           b == SubSeq(t, 1, Len(s))
<1>1. SUFFICES ASSUME Len(s) <= Len(t)
               PROVE  a = b <=> \A i \in 1 .. Len(s) : s[i] = t[i]
  BY DEF IsPrefix
<1>2. /\ 1 \in Int /\ Len(s) \in Int /\ Len(t) \in Int /\ Len(s) >= 0
      /\ (1 <= Len(s) => 1 >= 1 /\ Len(s) <= Len(s))
      /\ (1 <= Len(s) => 1 >= 1 /\ Len(s) <= Len(t))
      /\ \A i \in Int : 1 + i - 1 = i
      /\ (IF 1 <= Len(s) THEN Len(s) - 1 + 1 ELSE 0) = Len(s)
      /\ Len(s) - 1 + 1 = Len(s)
  BY <1>1
<1>3. a \in Seq(S) /\ Len(a) = Len(s) /\ \A i \in 1 .. Len(s) : a[i] = s[i]
  <2>1. a \in Seq(S) /\ Len(a) = Len(s) /\ \A i \in 1 .. Len(s) : a[i] = s[1 + i - 1]
    BY <1>2, CutIsSeq
  <2>2. QED
    BY <1>2, <2>1
<1>4. b \in Seq(S) /\ Len(b) = Len(s) /\ \A i \in 1 .. Len(s) : b[i] = t[i]
  <2>1. b \in Seq(S) /\ Len(b) = Len(s) /\ \A i \in 1 .. Len(s) : b[i] = t[1 + i - 1]
    BY <1>2, CutIsSeq
  <2>2. QED
    BY <1>2, <2>1
<1> HIDE DEF a, b
<1>5. ASSUME \A i \in 1 .. Len(s) : s[i] = t[i]
      PROVE  a = b
  BY <1>3, <1>4, <1>5, SeqEqual
<1>6. QED
  BY <1>3, <1>4, <1>5

\* What stands in a text stands in what it grows to, ...
LEMMA StillStands ==
  ASSUME Grows, text \in Seq(Chars), text' \in Seq(Chars),
         NEW p \in Nat, NEW u, Len(u) \in Nat, StandsAt(text, p, u)
  PROVE  StandsAt(text', p, u) /\ p \in 0 .. Len(text')
<1>1. Len(text) <= Len(text') /\ \A i \in 1 .. Len(text) : text[i] = text'[i]
  BY PrefixIs DEF Grows
<1>2. p + Len(u) <= Len(text) /\ \A i \in 1 .. Len(u) : text[p + i] = u[i]
  BY DEF StandsAt
<1>3. \A i \in 1 .. Len(u) : p + i \in 1 .. Len(text)
  BY <1>2
<1>4. p + Len(u) <= Len(text') /\ p \in 0 .. Len(text')
  BY <1>1, <1>2
<1>5. QED
  BY <1>1, <1>2, <1>3, <1>4 DEF StandsAt

\* ... so do the two parts of what is cut, ...
LEMMA PartsStand ==
  ASSUME NEW s \in Seq(Chars), NEW p \in Nat, NEW u \in Seq(Chars),
         NEW n \in 1 .. Len(u), StandsAt(s, p, u)
  PROVE  /\ StandsAt(s, p, SubSeq(u, 1, n)) /\ Len(SubSeq(u, 1, n)) = n
         /\ StandsAt(s, p + n, SubSeq(u, n + 1, Len(u)))
         /\ Len(SubSeq(u, n + 1, Len(u))) = Len(u) - n
<1>1. p + Len(u) <= Len(s) /\ \A i \in 1 .. Len(u) : s[p + i] = u[i]
  BY DEF StandsAt
<1> DEFINE a == SubSeq(u, 1, n)
           b == SubSeq(u, 1 + n, Len(u))
<1>2. Len(a) = n /\ \A i \in 1 .. n : a[i] = u[i]
  <2>1. /\ 1 \in Int /\ n \in Int /\ (1 <= n => 1 >= 1 /\ n <= Len(u))
        /\ \A i \in Int : 1 + i - 1 = i
        /\ (IF 1 <= n THEN n - 1 + 1 ELSE 0) = n /\ n - 1 + 1 = n
    OBVIOUS
  <2>2. Len(a) = n /\ \A i \in 1 .. n : a[i] = u[1 + i - 1]
    BY <2>1, CutIsSeq
  <2>3. QED
    BY <2>1, <2>2
<1>3. Len(b) = Len(u) - n /\ \A i \in 1 .. Len(u) - n : b[i] = u[i + n]
  BY DropIsSeq
<1>4. 1 + n = n + 1
  OBVIOUS
<1> HIDE DEF a, b
<1>5. StandsAt(s, p, a)
  <2>1. \A i \in 1 .. n : i \in 1 .. Len(u)
    OBVIOUS
  <2>2. p + n <= Len(s)
    BY <1>1
  <2>3. QED
    BY <1>1, <1>2, <2>1, <2>2 DEF StandsAt
<1>6. StandsAt(s, p + n, b)
  <2>1. \A i \in 1 .. Len(u) - n :
          i + n \in 1 .. Len(u) /\ (p + n) + i = p + (i + n)
    OBVIOUS
  <2>2. (p + n) + (Len(u) - n) <= Len(s)
    BY <1>1
  <2>3. ASSUME NEW i \in 1 .. Len(b)
        PROVE  s[(p + n) + i] = b[i]
    <3>1. i \in 1 .. Len(u) - n
      BY <1>3
    <3>2. s[p + (i + n)] = u[i + n]
      BY <1>1, <2>1, <3>1
    <3>3. QED
      BY <1>3, <2>1, <3>1, <3>2
  <2>4. QED
    BY <1>3, <2>2, <2>3 DEF StandsAt
<1>7. QED
  BY <1>2, <1>3, <1>4, <1>5, <1>6 DEF a, b

\* ... and what is put together from what stands side by side.
LEMMA JoinedStands ==
  ASSUME NEW s \in Seq(Chars), NEW p \in Nat, NEW u \in Seq(Chars),
         NEW v \in Seq(Chars), StandsAt(s, p, u), StandsAt(s, p + Len(u), v)
  PROVE  StandsAt(s, p, u \o v) /\ Len(u \o v) = Len(u) + Len(v)
<1> DEFINE r == u \o v
<1>1. /\ Len(r) = Len(u) + Len(v)
      /\ \A i \in 1 .. Len(u) + Len(v) : r[i] = IF i <= Len(u) THEN u[i] ELSE v[i - Len(u)]
  BY ConcatProperties
<1> HIDE DEF r
<1>2. /\ \A i \in 1 .. Len(u) : s[p + i] = u[i]
      /\ (p + Len(u)) + Len(v) <= Len(s)
      /\ \A i \in 1 .. Len(v) : s[(p + Len(u)) + i] = v[i]
  BY DEF StandsAt
<1>3. p + (Len(u) + Len(v)) <= Len(s)
  BY <1>2
<1>4. ASSUME NEW i \in 1 .. Len(u) + Len(v)
      PROVE  s[p + i] = r[i]
  <2>1. CASE i <= Len(u)
    <3>1. i \in 1 .. Len(u)
      BY <2>1
    <3>2. QED
      BY <1>1, <1>2, <2>1, <3>1
  <2>2. CASE ~(i <= Len(u))
    <3>1. i - Len(u) \in 1 .. Len(v) /\ (p + Len(u)) + (i - Len(u)) = p + i
      BY <2>2
    <3>2. s[(p + Len(u)) + (i - Len(u))] = v[i - Len(u)]
      BY <1>2, <3>1
    <3>3. r[i] = v[i - Len(u)]
      BY <1>1, <2>2
    <3>4. QED
      BY <3>1, <3>2, <3>3
  <2>3. QED
    BY <2>1, <2>2
<1>5. QED
  BY <1>1, <1>3, <1>4 DEF StandsAt, r

\* Threads write under their own name.
OwnPiece(t) ==
  ToWrite(t) => \A i \in 1 .. Len(left[t]) : left[t][i] \in {t, NL}

\* Until its line is written, a connection has read nothing.
Unread(c) ==
  /\ pc[c] \in Before \cup {"write"} => answer[c] = <<>> /\ pos[c] = 0
  /\ pc[c] \in Before => ~Contains(text, c)

Answering(c) ==
  /\ pc[c] \in {"read", "eol", "eof", "send_eol", "send_eof"}
  /\ c \notin gone /\ ~termination_flag

\* What a client has been sent stands in the text behind the place p where its
\* thread began to read, and what the thread has read and not sent behind that;
\* there the thread reads on.
FollowsFrom(c, p) ==
  /\ StandsAt(text, p, answer[c])
  /\ Contains(text, c) => p = 0
  /\ Answering(c) =>
       /\ StandsAt(text, p + Len(answer[c]), InFlight(c))
       /\ pos[c] = p + Len(answer[c]) + Len(InFlight(c))

Follows(c) == \E p \in 0 .. Len(text) : FollowsFrom(c, p)

AnswerInv ==
  /\ \A t \in ThreadIds : OwnPiece(t)
  /\ \A c \in Clients : Unread(c) /\ Follows(c)

\* Steps in which a thread neither begins to read, nor reads, nor sends.
Continues(c) ==
  /\ answer'[c] = answer[c]
  /\ Answering(c)' =>
       Answering(c) /\ pos'[c] = pos[c] /\ InFlight(c)' = InFlight(c)
  /\ pc'[c] \in Before \cup {"write"} =>
       pc[c] \in Before \cup {"write"} /\ pos'[c] = pos[c]
  /\ pc'[c] \in Before => pc[c] \in Before

LEMMA InFlightTyped ==
  ASSUME TextTyped, NEW c \in Clients
  PROVE  InFlight(c) \in Seq(Chars)
<1>1. line[c] \in Seq(Chars) /\ left[c] \in Seq(Chars) /\ <<>> \in Seq(Chars)
  BY DEF TextTyped, ThreadIds
<1>2. QED
  BY <1>1 DEF InFlight

LEMMA ContinuesKept ==
  ASSUME TextTyped, TextTyped', NEW c \in Clients, Grows, Continues(c),
         Unread(c), Follows(c),
         Contains(text', c) => Contains(text, c) \/ pc'[c] = "write"
  PROVE  Unread(c)' /\ Follows(c)'
<1>0. /\ text \in Seq(Chars) /\ text' \in Seq(Chars) /\ answer[c] \in Seq(Chars)
      /\ answer'[c] = answer[c] /\ "write" \notin Before
  BY DEF TextTyped, Continues, Before, Receiving
<1>1. Unread(c)'
  <2>1. (pc[c] \in Before \cup {"write"} => answer[c] = <<>> /\ pos[c] = 0)'
    BY DEF Unread, Continues
  <2>2. (pc[c] \in Before => ~Contains(text, c))'
    BY <1>0 DEF Unread, Continues
  <2>3. QED
    BY <2>1, <2>2 DEF Unread
<1>2. CASE Contains(text', c) /\ ~Contains(text, c)
  <2>1. answer[c] = <<>> /\ ~Answering(c)'
    BY <1>2 DEF Unread, Continues, Answering
  <2>2. StandsAt(text', 0, answer'[c]) /\ 0 \in 0 .. Len(text')
    BY <1>0, <2>1 DEF StandsAt
  <2>3. FollowsFrom(c, 0)'
    BY <2>1, <2>2 DEF FollowsFrom
  <2>4. QED
    BY <1>1, <2>2, <2>3 DEF Follows
<1>3. CASE Contains(text', c) => Contains(text, c)
  <2>1. PICK p \in 0 .. Len(text) : FollowsFrom(c, p)
    BY DEF Follows
  <2>2. /\ p \in Nat /\ Len(answer[c]) \in Nat
        /\ StandsAt(text', p, answer[c]) /\ p \in 0 .. Len(text')
    BY <1>0, <2>1, StillStands DEF FollowsFrom
  <2>3. ASSUME Answering(c)'
        PROVE  /\ StandsAt(text', p + Len(answer[c]), InFlight(c)')
               /\ pos'[c] = p + Len(answer[c]) + Len(InFlight(c)')
    <3>1. /\ Answering(c) /\ pos'[c] = pos[c] /\ InFlight(c)' = InFlight(c)
          /\ InFlight(c) \in Seq(Chars)
      BY <2>3, InFlightTyped DEF Continues
    <3> DEFINE u == InFlight(c)
               q == p + Len(answer[c])
    <3>2. StandsAt(text, q, u) /\ pos[c] = q + Len(u)
      BY <2>1, <3>1 DEF FollowsFrom
    <3>3. q \in Nat /\ Len(u) \in Nat
      BY <2>2, <3>1
    <3> HIDE DEF u, q
    <3>4. StandsAt(text', q, u)
      BY <1>0, <3>2, <3>3, StillStands
    <3>5. QED
      BY <3>1, <3>2, <3>4 DEF u, q
  <2>4. FollowsFrom(c, p)'
    BY <1>0, <1>3, <2>1, <2>2, <2>3 DEF FollowsFrom
  <2>5. QED
    BY <1>1, <2>2, <2>4 DEF Follows
<1>4. QED
  BY <1>2, <1>3

\* A thread begins to read: from the start once its line is written.
LEMMA BeginsToRead ==
  ASSUME TextTyped, NEW c \in Clients, answer'[c] = <<>>, InFlight(c)' = <<>>,
         text' = text, pos'[c] \in 0 .. Len(text),
         Contains(text, c) => pos'[c] = 0, pc'[c] \notin Before \cup {"write"}
  PROVE  Unread(c)' /\ Follows(c)'
<1>1. PICK p \in 0 .. Len(text) : p = pos'[c]
  OBVIOUS
<1>2. p \in Nat /\ p <= Len(text) /\ Len(text) \in Nat /\ Len(<<>>) = 0
  BY DEF TextTyped
<1>3. /\ StandsAt(text', p, answer'[c])
      /\ StandsAt(text', p + Len(answer'[c]), InFlight(c)')
  BY <1>2 DEF StandsAt
<1>4. pos'[c] = p + Len(answer'[c]) + Len(InFlight(c)')
  BY <1>1, <1>2
<1>5. Contains(text', c) => p = 0
  BY <1>1
<1>6. FollowsFrom(c, p)'
  BY <1>3, <1>4, <1>5 DEF FollowsFrom
<1>7. Follows(c)'
  BY <1>6 DEF Follows
<1>8. QED
  BY <1>7 DEF Unread

\* A write puts in the text the names of who wrote it and of nobody else.
LEMMA WritesOwnName ==
  ASSUME TextTyped, NEW t \in ThreadIds, OwnPiece(t), ToWrite(t), WriteSome(t),
         NEW c \in Clients, c # t
  PROVE  Contains(text', c) => Contains(text, c)
<1>1. PICK n \in 1 .. Len(left[t]) : text' = Appended(SubSeq(left[t], 1, n))
  BY DEF WriteSome
<1> DEFINE l == left[t]
           piece == SubSeq(l, 1, n)
           all == text \o piece
<1>2. /\ text \in Seq(Chars) /\ l \in Seq(Chars) /\ c # NL
      /\ \A i \in 1 .. Len(l) : l[i] # c
  BY MainAssumption DEF TextTyped, OwnPiece, ThreadIds
<1>3. text' = Appended(piece) /\ n \in 1 .. Len(l)
  BY <1>1
<1> HIDE DEF l
<1>4. piece \in Seq(Chars) /\ \A i \in 1 .. Len(piece) : piece[i] # c
  <2>1. /\ 1 \in Int /\ n \in Int /\ (1 <= n => 1 >= 1 /\ n <= Len(l))
        /\ \A i \in Int : 1 + i - 1 = i
        /\ (IF 1 <= n THEN n - 1 + 1 ELSE 0) = n /\ n - 1 + 1 = n
        /\ \A i \in 1 .. n : i \in 1 .. Len(l)
    BY <1>2, <1>3
  <2>2. /\ piece \in Seq(Chars) /\ Len(piece) = n
        /\ \A i \in 1 .. n : piece[i] = l[1 + i - 1]
    BY <1>2, <2>1, CutIsSeq
  <2>3. \A i \in 1 .. n : piece[i] = l[i] /\ l[i] # c
    BY <1>2, <2>1, <2>2
  <2>4. QED
    BY <2>2, <2>3
<1> HIDE DEF piece
<1>5. /\ all \in Seq(Chars) /\ Len(all) = Len(text) + Len(piece)
      /\ \A i \in 1 .. Len(text) + Len(piece) :
           all[i] = IF i <= Len(text) THEN text[i] ELSE piece[i - Len(text)]
  BY <1>2, <1>4, ConcatProperties
<1> HIDE DEF all
<1>6. Contains(all, c) => Contains(text, c)
  <2> SUFFICES ASSUME NEW i \in 1 .. Len(all), all[i] = c
               PROVE  \E j \in 1 .. Len(text) : text[j] = c
    BY DEF Contains
  <2>1. CASE i <= Len(text)
    BY <1>2, <1>5, <2>1
  <2>2. CASE ~(i <= Len(text))
    <3>1. i - Len(text) \in 1 .. Len(piece)
      BY <1>2, <1>4, <1>5, <2>2
    <3>2. all[i] = piece[i - Len(text)]
      BY <1>5, <2>2
    <3>3. QED
      BY <1>4, <3>1, <3>2
  <2>3. QED
    BY <2>1, <2>2
<1>7. CASE text' = all
  BY <1>6, <1>7
<1>8. CASE text' = SubSeq(all, 1 + FirstNewline(all), Len(all))
  <2> DEFINE k == FirstNewline(all)
  <2>1. Len(all) \in Nat
    BY <1>5
  <2>2. k \in Nat /\ k <= Len(all)
    BY <2>1, FirstNewlineIs
  <2>3. text' = SubSeq(all, 1 + k, Len(all))
    BY <1>8
  <2> HIDE DEF k
  <2>4. /\ Len(text') = Len(all) - k
        /\ \A i \in 1 .. Len(all) - k : text'[i] = all[i + k]
    BY <1>5, <2>2, <2>3, DropIsSeq
  <2>5. \A i \in 1 .. Len(all) - k : i + k \in 1 .. Len(all)
    BY <2>1, <2>2
  <2>6. Contains(text', c) => Contains(all, c)
    BY <2>4, <2>5 DEF Contains
  <2>7. QED
    BY <1>6, <2>6
<1>9. QED
  BY <1>3, <1>7, <1>8 DEF Appended, all

\* Some characters of a sequence.
LEMMA CutBehind ==
  ASSUME NEW S, NEW s \in Seq(S), NEW k \in Nat, NEW n \in Nat,
         n > 0 => k + n <= Len(s)
  PROVE  /\ SubSeq(s, k + 1, k + n) \in Seq(S) /\ Len(SubSeq(s, k + 1, k + n)) = n
         /\ \A i \in 1 .. n : SubSeq(s, k + 1, k + n)[i] = s[k + i]
<1> DEFINE a == k + 1
           b == k + n
<1>1. /\ a \in Int /\ b \in Int /\ (a <= b => a >= 1 /\ b <= Len(s))
      /\ b - a + 1 = n /\ (~(a <= b) => n = 0)
      /\ \A i \in Int : a + i - 1 = k + i
  OBVIOUS
<1> HIDE DEF a, b
<1>2. /\ SubSeq(s, a, b) \in Seq(S)
      /\ Len(SubSeq(s, a, b)) = IF a <= b THEN b - a + 1 ELSE 0
      /\ \A i \in 1 .. b - a + 1 : SubSeq(s, a, b)[i] = s[a + i - 1]
  BY <1>1, CutIsSeq
<1>3. \A i \in 1 .. n : SubSeq(s, a, b)[i] = s[k + i]
  BY <1>1, <1>2
<1>4. Len(SubSeq(s, a, b)) = n
  BY <1>1, <1>2
<1>5. QED
  BY <1>2, <1>3, <1>4 DEF a, b

\* A read() of the device returns no more than a line: nothing is dropped.
LEMMA DeviceReads ==
  ASSUME ~Regular, text \in Seq(Chars), NEW c, pos[c] \in Nat
  PROVE  LET n       == ReadCount(c)
             chars   == SubSeq(text, pos[c] + 1, pos[c] + n)
             newline == FirstNewline(chars)
         IN  newline # 0 => SubSeq(chars, 1, newline) = chars
<1> DEFINE k       == pos[c]
           n       == ReadCount(c)
           chars   == SubSeq(text, k + 1, k + n)
           newline == FirstNewline(chars)
           rest    == SubSeq(text, k + 1, Len(text))
           m       == FirstNewline(rest)
           T       == {BUFFSIZE, Len(rest)} \cup IF m # 0 THEN {m} ELSE {}
<1> SUFFICES ASSUME newline # 0
             PROVE  SubSeq(chars, 1, newline) = chars
  OBVIOUS
<1>1. k \in Nat /\ n \in Nat /\ (n > 0 => k + n <= Len(text)) /\ Len(text) \in Nat
  BY ReadCountBound
<1>2. n = Min(T)
  BY DEF ReadCount
<1> HIDE DEF k, n
<1>3. /\ chars \in Seq(Chars) /\ Len(chars) = n
      /\ \A i \in 1 .. n : chars[i] = text[k + i]
  BY <1>1, CutBehind
<1> HIDE DEF chars
<1>4. newline \in 1 .. n /\ chars[newline] = NL
  <2>1. Len(chars) \in Nat
    BY <1>1, <1>3
  <2>2. QED
    BY <1>3, <2>1, FirstNewlineIs
<1> HIDE DEF newline
<1>5. /\ Len(rest) = Len(text) - k /\ Len(rest) \in Nat
      /\ \A i \in 1 .. Len(rest) : rest[i] = text[k + i]
  <2> DEFINE N == Len(text) - k
  <2>1. N \in Nat /\ k + N = Len(text)
    BY <1>1, <1>4
  <2>2. N > 0 => k + N <= Len(text)
    BY <1>1, <2>1
  <2> HIDE DEF N
  <2>3. /\ Len(SubSeq(text, k + 1, k + N)) = N
        /\ \A i \in 1 .. N : SubSeq(text, k + 1, k + N)[i] = text[k + i]
    BY <1>1, <2>1, <2>2, CutBehind
  <2>4. Len(rest) = N /\ \A i \in 1 .. N : rest[i] = text[k + i]
    BY <2>1, <2>3
  <2>5. QED
    BY <2>1, <2>4 DEF N
<1> HIDE DEF rest
<1>6. m \in Nat
  BY <1>5, FirstNewlineIs
<1>7. \A i \in 1 .. Len(rest) : rest[i] = NL => m # 0 /\ m <= i
  BY <1>5, FirstNewlineIs
<1> HIDE DEF m
<1>8. T \in SUBSET Nat /\ Len(rest) \in T /\ (m # 0 => m \in T)
  BY <1>5, <1>6, BoundsAssumption
<1> HIDE DEF T
<1>9. n <= Len(rest) /\ (m # 0 => n <= m)
  <2>1. T # {}
    BY <1>8
  <2>2. QED
    BY <1>2, <1>8, <2>1, MinInSet
<1>10. newline = n
  <2>1. newline \in 1 .. Len(rest)
    BY <1>1, <1>4, <1>5, <1>9
  <2>2. rest[newline] = NL
    BY <1>3, <1>4, <1>5, <2>1
  <2>3. n <= newline
    BY <1>1, <1>4, <1>6, <1>7, <1>9, <2>1, <2>2
  <2>4. QED
    BY <1>1, <1>4, <2>3
<1>11. SubSeq(chars, 1, n) = chars
  <2> DEFINE r == SubSeq(chars, 0 + 1, 0 + n)
  <2>1. 0 + n = n /\ 0 + 1 = 1 /\ (n > 0 => 0 + n <= Len(chars))
        /\ \A i \in 1 .. n : 0 + i = i
    BY <1>1, <1>3
  <2>2. r \in Seq(Chars) /\ Len(r) = n /\ \A i \in 1 .. n : r[i] = chars[0 + i]
    BY <1>1, <1>3, <2>1, CutBehind
  <2>3. r = SubSeq(chars, 1, n)
    BY <2>1
  <2> HIDE DEF r
  <2>4. \A i \in 1 .. n : r[i] = chars[i]
    BY <2>1, <2>2
  <2>5. r = chars
    BY <1>3, <2>2, <2>4, SeqEqual
  <2>6. QED
    BY <2>3, <2>5
<1>12. QED
  BY <1>10, <1>11 DEF chars, newline, k, n

\* A thread reads on.
LEMMA ReadFollows ==
  ASSUME ~Regular, Typed, NEW c \in Clients, Follows(c), ReadSome(c)
  PROVE  Unread(c)' /\ Follows(c)'
<1> DEFINE n       == ReadCount(c)
           chars   == SubSeq(text, pos[c] + 1, pos[c] + n)
           newline == FirstNewline(chars)
<1>0. /\ PlacesTyped /\ text \in Seq(Chars) /\ pos[c] \in Nat
      /\ line[c] \in Seq(Chars) /\ answer[c] \in Seq(Chars)
      /\ pos \in [Clients -> Nat] /\ line \in [Clients -> Seq(Chars)]
  BY DEF Typed, TextTyped
<1>1. /\ pos' = Put(pos, c, pos[c] + n)
      /\ line' = Put(line, c, line[c] \o chars)
      /\ UNCHANGED <<text, gone, termination_flag, answer, at>>
      /\ pc[c] = "read" /\ at[c] = "reading"
      /\ \E place \in {"eof", "eol", "read"} : Goto(c, place)
  BY <1>0, DeviceReads DEF ReadSome, peers, flags, monitor, AtPlace
<1>2. /\ pos'[c] = pos[c] + n /\ line'[c] = line[c] \o chars
      /\ pc'[c] \in {"eof", "eol", "read"}
  BY <1>0, <1>1 DEF Put, PlacesTyped, Goto
<1>3. n \in Nat /\ (n > 0 => pos[c] + n <= Len(text))
  BY <1>0, ReadCountBound
<1> HIDE DEF n
<1>4. /\ chars \in Seq(Chars) /\ Len(chars) = n
      /\ \A i \in 1 .. n : chars[i] = text[pos[c] + i]
  BY <1>0, <1>3, CutBehind
<1> HIDE DEF chars
<1>5. InFlight(c) = line[c] /\ InFlight(c)' = line[c] \o chars
  BY <1>1, <1>2 DEF InFlight
<1>6. PICK p \in 0 .. Len(text) : FollowsFrom(c, p)
  BY DEF Follows
<1> DEFINE q == p + Len(answer[c])
<1>7. p \in Nat /\ q \in Nat /\ Len(line[c]) \in Nat /\ Len(text) \in Nat
  BY <1>0
<1>8. ASSUME Answering(c)'
      PROVE  /\ StandsAt(text, q, line[c] \o chars)
             /\ pos'[c] = q + Len(line[c] \o chars)
  <2>1. Answering(c)
    BY <1>1, <1>8 DEF Answering
  <2>2. StandsAt(text, q, line[c]) /\ pos[c] = q + Len(line[c])
    BY <1>5, <1>6, <2>1 DEF FollowsFrom
  <2> HIDE DEF q
  <2>3. StandsAt(text, q + Len(line[c]), chars)
    <3>1. pos[c] <= Len(text)
      BY <1>7, <2>2 DEF StandsAt
    <3>2. pos[c] + n <= Len(text)
      BY <1>0, <1>3, <3>1
    <3>3. QED
      BY <1>4, <2>2, <3>2 DEF StandsAt
  <2>4. /\ StandsAt(text, q, line[c] \o chars)
        /\ Len(line[c] \o chars) = Len(line[c]) + Len(chars)
    <3> DEFINE u == line[c]
    <3>1. /\ text \in Seq(Chars) /\ q \in Nat /\ u \in Seq(Chars)
          /\ chars \in Seq(Chars)
          /\ StandsAt(text, q, u) /\ StandsAt(text, q + Len(u), chars)
      BY <1>0, <1>4, <1>7, <2>2, <2>3
    <3> HIDE DEF u
    <3>2. StandsAt(text, q, u \o chars) /\ Len(u \o chars) = Len(u) + Len(chars)
      BY <3>1, JoinedStands
    <3>3. QED
      BY <3>2 DEF u
  <2>5. pos'[c] = q + (Len(line[c]) + Len(chars))
    BY <1>2, <1>3, <1>4, <1>7, <2>2
  <2>6. QED
    BY <2>4, <2>5
<1>9. FollowsFrom(c, p)'
  BY <1>1, <1>5, <1>6, <1>8 DEF FollowsFrom
<1>10. Follows(c)'
  BY <1>1, <1>9 DEF Follows
<1>11. Unread(c)'
  BY <1>2 DEF Unread, Before, Receiving
<1>12. QED
  BY <1>10, <1>11

\* A thread sends a piece of what it has read.
LEMMA SendFollows ==
  ASSUME Typed, NEW c \in Clients, Follows(c), SendSome(c)
  PROVE  Unread(c)' /\ Follows(c)'
<1> DEFINE l == left[c]
<1>1. PICK n \in 1 .. Len(l) :
        /\ left' = Put(left, c, SubSeq(l, n + 1, Len(l)))
        /\ answer' = IF c \in gone THEN answer
                     ELSE Put(answer, c, answer[c] \o SubSeq(l, 1, n))
  BY DEF SendSome
<1> DEFINE piece == SubSeq(l, 1, n)
           kept == SubSeq(l, n + 1, Len(l))
<1>0. /\ TextTyped /\ UNCHANGED <<pc, at, pos, line, text, gone, termination_flag>>
      /\ pc[c] \in {"send_eol", "send_eof"}
  BY DEF Typed, SendSome, Sending, monitor, flags
<1>2. /\ text \in Seq(Chars) /\ l \in Seq(Chars) /\ n \in 1 .. Len(l)
      /\ answer[c] \in Seq(Chars) /\ answer \in [Clients -> Seq(Chars)]
      /\ left \in [ThreadIds -> Seq(Chars)] /\ c \in ThreadIds
  BY <1>0 DEF TextTyped, ThreadIds
<1>3. /\ InFlight(c) = l /\ InFlight(c)' = kept
      /\ c \in gone => answer'[c] = answer[c]
      /\ c \notin gone => answer'[c] = answer[c] \o piece
  BY <1>0, <1>1, <1>2 DEF InFlight, Put
<1>4. PICK p \in 0 .. Len(text) : FollowsFrom(c, p)
  BY DEF Follows
<1> DEFINE q == p + Len(answer[c])
<1>5. p \in Nat /\ q \in Nat /\ Len(answer[c]) \in Nat /\ Len(l) \in Nat
  BY <1>2
<1> HIDE DEF l
<1>6. piece \in Seq(Chars)
  BY <1>2, SplitTyped
<1>7. CASE ~Answering(c) /\ c \in gone
  <2>1. FollowsFrom(c, p)'
    BY <1>0, <1>3, <1>4, <1>7 DEF FollowsFrom, Answering
  <2>2. QED
    BY <1>0, <2>1 DEF Follows, Unread, Before, Receiving
<1>8. CASE Answering(c)
  <2>1. StandsAt(text, q, l) /\ pos[c] = q + Len(l) /\ c \notin gone
    BY <1>3, <1>4, <1>8 DEF FollowsFrom, Answering
  <2> HIDE DEF q
  <2>2. /\ StandsAt(text, q, piece) /\ Len(piece) = n
        /\ StandsAt(text, q + n, kept) /\ Len(kept) = Len(l) - n
    BY <1>2, <1>5, <2>1, PartsStand
  <2>3. /\ StandsAt(text, p, answer[c] \o piece)
        /\ Len(answer[c] \o piece) = Len(answer[c]) + n
    <3> DEFINE u == answer[c]
    <3>1. StandsAt(text, p, u) /\ StandsAt(text, p + Len(u), piece)
      BY <1>4, <2>2 DEF FollowsFrom, q
    <3>2. /\ text \in Seq(Chars) /\ p \in Nat /\ u \in Seq(Chars)
          /\ piece \in Seq(Chars) /\ Len(piece) = n
      BY <1>2, <1>5, <1>6, <2>2
    <3> HIDE DEF u, piece
    <3>3. StandsAt(text, p, u \o piece) /\ Len(u \o piece) = Len(u) + Len(piece)
      BY <3>1, <3>2, JoinedStands
    <3>4. QED
      BY <3>2, <3>3 DEF u
  <2> HIDE DEF piece, kept
  <2>4. p + Len(answer'[c]) = q + n
    <3>1. Len(answer'[c]) = Len(answer[c]) + n
      BY <1>3, <2>1, <2>3
    <3>2. QED
      BY <1>2, <1>5, <3>1 DEF q
  <2>5. pos'[c] = (q + n) + Len(kept)
    BY <1>0, <1>2, <1>5, <2>1, <2>2
  <2>6. Contains(text, c) => p = 0
    BY <1>4 DEF FollowsFrom
  <2>7. FollowsFrom(c, p)'
    BY <1>0, <1>3, <2>1, <2>2, <2>3, <2>4, <2>5, <2>6 DEF FollowsFrom
  <2>8. QED
    BY <1>0, <2>7 DEF Follows, Unread, Before, Receiving
<1>9. Answering(c) \/ c \in gone
  BY <1>0 DEF Answering, SendSome
<1>10. QED
  BY <1>7, <1>8, <1>9 DEF Answering

LEMMA PieceLeft ==
  ASSUME TextTyped, NEW t \in ThreadIds, OwnPiece(t), ToWrite(t), WriteSome(t)
  PROVE  OwnPiece(t)'
<1>1. PICK n \in 1 .. Len(left[t]) :
        left' = Put(left, t, SubSeq(left[t], n + 1, Len(left[t])))
  BY DEF WriteSome
<1> DEFINE l == left[t]
<1>2. /\ l \in Seq(Chars) /\ n \in 1 .. Len(l)
      /\ \A i \in 1 .. Len(l) : l[i] \in {t, NL}
  BY DEF OwnPiece, TextTyped
<1>3. left'[t] = SubSeq(l, 1 + n, Len(l))
  BY <1>1, <1>2 DEF Put, TextTyped
<1> HIDE DEF l
<1>4. /\ Len(left'[t]) = Len(l) - n
      /\ \A i \in 1 .. Len(l) - n : left'[t][i] = l[i + n]
  BY <1>2, <1>3, DropIsSeq
<1>5. \A i \in 1 .. Len(l) - n : i + n \in 1 .. Len(l)
  BY <1>2
<1>6. \A i \in 1 .. Len(left'[t]) : left'[t][i] \in {t, NL}
  BY <1>2, <1>4, <1>5
<1>7. QED
  BY <1>6 DEF OwnPiece

LEMMA ThreadFollows ==
  ASSUME Typed, Typed', PlacesAgree, PlacesAgree', ~Regular, Grows,
         NEW c \in Clients, LineOf(c), OwnPiece(c), Unread(c), Follows(c),
         ThreadStep(c)
  PROVE  OwnPiece(c)' /\ Unread(c)' /\ Follows(c)'
<1>0. /\ TextTyped /\ TextTyped' /\ PlacesTyped /\ c \in ThreadIds /\ c # Main
      /\ at[c] \in ClientAt(pc[c]) /\ at'[c] \in ClientAt(pc'[c])
      /\ (ToWrite(c) <=> pc[c] = "write") /\ (ToWrite(c)' <=> pc'[c] = "write")
  BY MainAssumption DEF Typed, ThreadIds, PlacesAgree, ToWrite
<1>1. \A place : Goto(c, place) => pc'[c] = place
  BY <1>0 DEF Goto, PlacesTyped
<1>2. \A v : /\ line' = Put(line, c, v) => line'[c] = v
             /\ left' = Put(left, c, v) => left'[c] = v
             /\ pos' = Put(pos, c, v) => pos'[c] = v
  BY <1>0 DEF Put, TextTyped
<1>3. ASSUME Continues(c), text' = text,
             pc'[c] # "write" \/ (pc[c] = "write" /\ left'[c] = left[c])
      PROVE  OwnPiece(c)' /\ Unread(c)' /\ Follows(c)'
  <2>1. OwnPiece(c)'
    BY <1>0, <1>3 DEF OwnPiece
  <2>2. QED
    BY <1>0, <1>3, <2>1, ContinuesKept
<1>4. ASSUME pc[c] \in Before \cup {"write"}, answer'[c] = answer[c], text' = text,
             pc'[c] = "read", at'[c] = "outside", pos'[c] \in 0 .. Len(text),
             Contains(text, c) => pos'[c] = 0
      PROVE  OwnPiece(c)' /\ Unread(c)' /\ Follows(c)'
  <2>1. /\ answer'[c] = <<>> /\ InFlight(c)' = <<>>
        /\ pc'[c] \notin Before \cup {"write"}
    BY <1>4 DEF Unread, InFlight, Before, Receiving
  <2>2. OwnPiece(c)'
    BY <1>0, <1>4 DEF OwnPiece
  <2>3. QED
    BY <1>0, <1>4, <2>1, <2>2, BeginsToRead
<1>5. CASE Start(c) \/ TestTermination(c) \/ CallRecv(c) \/ RecvFails(c) \/ Recv(c)
  <2>1. /\ UNCHANGED <<text, pos, answer>> /\ pc[c] \in Receiving
        /\ \E place \in Receiving \cup {"line", "failed"} : Goto(c, place)
    BY <1>5 DEF Start, TestTermination, CallRecv, RecvFails, Recv, AtPlace, buffers,
       peers, Receiving
  <2>2. pc'[c] \in Receiving \cup {"line", "failed"}
    BY <1>1, <2>1
  <2>3. Continues(c) /\ pc'[c] # "write"
    BY <2>1, <2>2 DEF Continues, Answering, Before, Receiving
  <2>4. QED
    BY <1>3, <2>1, <2>3
<1>6. CASE SeekTo(c) \/ NothingToWrite(c)
  <2>1. /\ UNCHANGED <<monitor, text, answer>> /\ pc[c] = "line"
        /\ \/ Goto(c, "failed")
           \/ Goto(c, "read") /\ pos' = pos
           \/ /\ Goto(c, "read")
              /\ \E p \in 0 .. Len(text) - 1 : pos' = Put(pos, c, p)
    BY <1>6 DEF SeekTo, NothingToWrite, AtPlace, peers, SeekTargets
  <2>2. ~Contains(text, c) /\ pos[c] = 0 /\ pc[c] \in Before
    BY <2>1 DEF Unread, Before
  <2>3. CASE Goto(c, "failed")
    <3>1. pc'[c] = "failed"
      BY <1>1, <2>3
    <3>2. Continues(c) /\ pc'[c] # "write"
      BY <2>1, <3>1 DEF Continues, Answering, Before, Receiving
    <3>3. QED
      BY <1>3, <2>1, <3>2
  <2>4. CASE Goto(c, "read") /\ pos'[c] \in 0 .. Len(text)
    <3>1. pc'[c] = "read"
      BY <1>1, <2>4
    <3>2. at'[c] = "outside"
      BY <1>0, <2>1 DEF ClientAt, monitor
    <3>3. QED
      BY <1>4, <2>1, <2>2, <2>4, <3>1, <3>2
  <2>5. \A p \in 0 .. Len(text) - 1 : p \in 0 .. Len(text)
    BY <1>0 DEF TextTyped
  <2>6. 0 \in 0 .. Len(text)
    BY <1>0 DEF TextTyped
  <2>7. QED
    BY <1>2, <2>1, <2>2, <2>3, <2>4, <2>5, <2>6
<1>7. CASE StoreLine(c)
  <2>1. /\ UNCHANGED <<text, pos, answer>> /\ pc[c] = "line"
        /\ Goto(c, "write") /\ left' = Put(left, c, line[c])
        /\ line[c] # <<>> /\ ~IsSeek(c)
    BY <1>7 DEF StoreLine, AtPlace, peers
  <2>2. line[c] \in {<<c, NL>>, <<c>>}
    BY <2>1 DEF LineOf
  <2>3. pc'[c] = "write" /\ left'[c] \in {<<c, NL>>, <<c>>}
    BY <1>1, <1>2, <2>1, <2>2
  <2>4. OwnPiece(c)'
    <3>1. ASSUME NEW l \in {<<c, NL>>, <<c>>}, NEW i \in 1 .. Len(l)
          PROVE  l[i] \in {c, NL}
      OBVIOUS
    <3>2. QED
      BY <2>3, <3>1 DEF OwnPiece
  <2>5. Continues(c)
    BY <2>1, <2>3 DEF Continues, Answering, Before
  <2>6. Contains(text', c) => Contains(text, c)
    BY <2>1
  <2>7. QED
    BY <1>0, <2>4, <2>5, <2>6, ContinuesKept
<1>8. CASE CallWriting(c) \/ BrokenPipe(c)
  <2>1. /\ UNCHANGED <<text, pos, line, left, answer, pc, gone, termination_flag>>
        /\ pc[c] = "write" \/ at'[c] = at[c]
    BY <1>0, <1>8 DEF CallWriting, BrokenPipe, AtWrite, monitor, flags, buffers, peers
  <2>2. InFlight(c)' = InFlight(c)
    BY <2>1 DEF InFlight
  <2>3. Continues(c)
    BY <2>1, <2>2 DEF Continues, Answering
  <2>4. QED
    BY <1>3, <2>1, <2>3
<1>9. CASE WriteFails(c) \/ ReadFails(c) \/ SendFails(c)
  <2>1. UNCHANGED <<text, pos, answer>> /\ Goto(c, "failed")
    BY <1>0, <1>9 DEF WriteFails, ReadFails, SendFails, buffers, peers
  <2>2. pc'[c] = "failed"
    BY <1>1, <2>1
  <2>3. Continues(c) /\ pc'[c] # "write"
    BY <2>1, <2>2 DEF Continues, Answering, Before, Receiving
  <2>4. QED
    BY <1>3, <2>1, <2>3
<1>10. CASE WriteSome(c)
  <2>1. UNCHANGED <<pc, pos, answer>> /\ pc[c] = "write"
    BY <1>0, <1>10 DEF WriteSome, AtWrite, peers
  <2>2. Continues(c)
    BY <2>1 DEF Continues, Answering
  <2>3. OwnPiece(c)'
    BY <1>0, <1>10, <2>1, PieceLeft
  <2>4. QED
    BY <1>0, <2>1, <2>2, <2>3, ContinuesKept
<1>11. CASE Written(c)
  <2>1. /\ UNCHANGED <<text, answer>> /\ pc[c] = "write"
        /\ \E place \in {"read", "failed"} : Goto(c, place)
        /\ pos' = Put(pos, c, 0) /\ Mon!StopWriting(c)
    BY <1>0, <1>11 DEF Written, AtWrite, peers
  <2>2. /\ pc'[c] \in {"read", "failed"} /\ at'[c] = "outside"
        /\ pos'[c] = 0 /\ 0 \in 0 .. Len(text)
    BY <1>0, <1>1, <1>2, <2>1, MovedFrom DEF Mon!StopWriting, Typed, TextTyped
  <2>3. CASE pc'[c] = "failed"
    <3>1. Continues(c)
      BY <2>1, <2>3 DEF Continues, Answering, Before, Receiving
    <3>2. QED
      BY <1>3, <2>1, <2>3, <3>1
  <2>4. CASE pc'[c] = "read"
    BY <1>4, <2>1, <2>2, <2>4
  <2>5. QED
    BY <2>2, <2>3, <2>4
<1>12. CASE CallReading(c)
  <2>1. /\ UNCHANGED <<text, answer, pos, pc, gone, termination_flag>>
        /\ pc[c] = "read" /\ at[c] = "outside" /\ line' = Put(line, c, <<>>)
    BY <1>12 DEF CallReading, AtPlace, peers, flags
  <2>2. InFlight(c) = <<>> /\ InFlight(c)' = <<>>
    BY <1>2, <2>1 DEF InFlight
  <2>3. Continues(c) /\ pc'[c] # "write"
    BY <2>1, <2>2 DEF Continues, Answering
  <2>4. QED
    BY <1>3, <2>1, <2>3
<1>13. CASE LineRead(c)
  <2>1. /\ UNCHANGED <<text, answer, pos, line, gone, termination_flag>>
        /\ pc[c] \in {"eol", "eof"} /\ left' = Put(left, c, line[c])
        /\ \E place \in {"send_eol", "send_eof"} : Goto(c, place)
    BY <1>13 DEF LineRead, peers, flags
  <2>2. left'[c] = line[c] /\ pc'[c] \in {"send_eol", "send_eof"}
    BY <1>1, <1>2, <2>1
  <2>3. InFlight(c)' = InFlight(c)
    BY <2>1, <2>2 DEF InFlight
  <2>4. Continues(c) /\ pc'[c] # "write"
    BY <2>1, <2>2, <2>3 DEF Continues, Answering, Before, Receiving
  <2>5. QED
    BY <1>3, <2>1, <2>4
<1>14. CASE LineSent(c)
  <2>1. /\ UNCHANGED <<monitor, text, answer, pos, gone, termination_flag>>
        /\ pc[c] \in {"send_eol", "send_eof"} /\ (left[c] = <<>> \/ termination_flag)
        /\ \E place \in {"read", "closed"} : Goto(c, place)
    BY <1>14 DEF LineSent, Sending, peers, flags
  <2>2. pc'[c] \in {"read", "closed"} /\ at'[c] = "outside"
    BY <1>0, <1>1, <2>1 DEF ClientAt, monitor
  <2>3. InFlight(c)' = <<>> /\ (left[c] = <<>> => InFlight(c) = <<>>)
    BY <2>1, <2>2 DEF InFlight
  <2>4. Continues(c) /\ pc'[c] # "write"
    BY <2>1, <2>2, <2>3 DEF Continues, Answering, Before, Receiving
  <2>5. QED
    BY <1>3, <2>1, <2>4
<1>15. CASE ReadSome(c) \/ SendSome(c)
  <2>1. pc[c] # "write" /\ (pc' = pc \/ \E place : place # "write" /\ Goto(c, place))
    BY <1>15 DEF ReadSome, SendSome, Sending, AtPlace
  <2>2. OwnPiece(c)'
    BY <1>0, <1>1, <2>1 DEF OwnPiece
  <2>3. QED
    BY <1>15, <2>2, ReadFollows, SendFollows
<1>16. QED
  BY <1>5, <1>6, <1>7, <1>8, <1>9, <1>10, <1>11, <1>12, <1>13, <1>14, <1>15
     DEF ThreadStep

LEMMA OwnPieceKept ==
  ASSUME NEW t, OwnPiece(t), left'[t] = left[t], ToWrite(t)' => ToWrite(t)
  PROVE  OwnPiece(t)'
BY DEF OwnPiece

\* What a step of a thread leaves to the others.
LEMMA ThreadOthersSame ==
  ASSUME Typed, NEW c \in Clients, OwnPiece(c), ThreadStep(c)
  PROVE  /\ UNCHANGED <<gone, flags>>
         /\ \A d \in Clients \ {c} :
              /\ pc'[d] = pc[d] /\ pos'[d] = pos[d] /\ line'[d] = line[d]
              /\ answer'[d] = answer[d]
              /\ Contains(text', d) => Contains(text, d)
<1>0. /\ TextTyped /\ PlacesTyped /\ c \in ThreadIds /\ c # Main
  BY MainAssumption DEF Typed, ThreadIds
<1>1. /\ UNCHANGED <<gone, flags>>
      /\ pc' = pc \/ \E place : Goto(c, place)
      /\ pos' = pos \/ \E v : pos' = Put(pos, c, v)
      /\ line' = line \/ \E v : line' = Put(line, c, v)
      /\ answer' = answer \/ \E v : answer' = Put(answer, c, v)
  <2>1. CASE \/ Start(c) \/ TestTermination(c) \/ CallRecv(c) \/ Recv(c)
             \/ RecvFails(c) \/ SeekTo(c) \/ NothingToWrite(c) \/ StoreLine(c)
    BY <2>1 DEF Start, TestTermination, CallRecv, Recv, RecvFails, SeekTo,
       NothingToWrite, StoreLine, buffers, peers
  <2>2. CASE \/ CallWriting(c) \/ WriteSome(c) \/ WriteFails(c) \/ Written(c)
             \/ CallReading(c) \/ ReadSome(c) \/ ReadFails(c) \/ LineRead(c)
    BY <1>0, <2>2 DEF CallWriting, WriteSome, WriteFails, Written, CallReading,
       ReadSome, ReadFails, LineRead, buffers, peers
  <2>3. CASE SendSome(c) \/ SendFails(c) \/ BrokenPipe(c) \/ LineSent(c)
    BY <2>3 DEF SendSome, SendFails, BrokenPipe, LineSent, buffers, peers
  <2>4. QED
    BY <2>1, <2>2, <2>3 DEF ThreadStep
<1>2. ASSUME NEW d \in Clients, d # c
      PROVE  /\ pc'[d] = pc[d] /\ pos'[d] = pos[d] /\ line'[d] = line[d]
             /\ answer'[d] = answer[d]
  BY <1>0, <1>1, <1>2 DEF Put, Goto, PlacesTyped, TextTyped
<1>3. ASSUME NEW d \in Clients, d # c
      PROVE  Contains(text', d) => Contains(text, d)
  <2>1. CASE WriteSome(c)
    <3>1. ToWrite(c)
      BY <1>0, <2>1 DEF WriteSome, AtWrite, ToWrite
    <3>2. QED
      BY <1>0, <1>3, <2>1, <3>1, WritesOwnName
  <2>2. CASE UNCHANGED text
    BY <2>2
  <2>3. WriteSome(c) \/ UNCHANGED text
    BY DEF ThreadStep, Start, TestTermination, CallRecv, Recv, RecvFails, SeekTo,
       NothingToWrite, StoreLine, CallWriting, WriteFails, Written, CallReading,
       ReadSome, ReadFails, LineRead, SendSome, SendFails, BrokenPipe, LineSent
  <2>4. QED
    BY <2>1, <2>2, <2>3
<1>4. QED
  BY <1>1, <1>2, <1>3

LEMMA ThreadStepFollows ==
  ASSUME Typed, Typed', PlacesAgree, PlacesAgree', ~Regular, Grows, AnswerInv,
         NEW c \in Clients, LineOf(c), ThreadStep(c)
  PROVE  AnswerInv'
<1>0. /\ TextTyped /\ TextTyped' /\ c \in ThreadIds
      /\ OwnPiece(c) /\ Unread(c) /\ Follows(c)
  BY DEF Typed, ThreadIds, AnswerInv
<1>1. OwnPiece(c)' /\ Unread(c)' /\ Follows(c)'
  BY <1>0, ThreadFollows
<1>2. OthersKeep(c)
  BY ThreadOthersKeep
<1>3. ASSUME NEW t \in ThreadIds, t # c
      PROVE  OwnPiece(t)'
  BY <1>2, <1>3, OwnPieceKept DEF OthersKeep, AnswerInv
<1>4. ASSUME NEW d \in Clients, d # c
      PROVE  Unread(d)' /\ Follows(d)'
  <2>1. /\ pc'[d] = pc[d] /\ pos'[d] = pos[d] /\ line'[d] = line[d]
        /\ answer'[d] = answer[d] /\ UNCHANGED <<gone, flags>>
        /\ Contains(text', d) => Contains(text, d)
    BY <1>0, <1>4, ThreadOthersSame
  <2>2. left'[d] = left[d] /\ at'[d] = at[d] /\ termination_flag' = termination_flag
    BY <1>2, <1>4, <2>1 DEF OthersKeep, ThreadIds, flags
  <2>3. InFlight(d)' = InFlight(d)
    BY <2>1, <2>2 DEF InFlight
  <2>4. Continues(d)
    BY <2>1, <2>2, <2>3 DEF Continues, Answering
  <2>5. QED
    BY <1>0, <2>1, <2>4, ContinuesKept DEF AnswerInv
<1>5. QED
  BY <1>1, <1>3, <1>4 DEF AnswerInv

\* What a step of the main thread leaves to the connections.
LEMMA MainStepSame ==
  ASSUME Typed, OwnPiece(Main), MainStep
  PROVE  /\ UNCHANGED <<pos, line, answer, gone, termination_flag>>
         /\ left' = left \/ \E v : left' = Put(left, Main, v)
         /\ at' = at \/ Mon!Call(Main) \/ Mon!StopWriting(Main)
         /\ \A d \in Clients :
              /\ pc'[d] = pc[d] \/ (pc[d] = "backlog" /\ pc'[d] = "start")
              /\ Contains(text', d) => Contains(text, d)
<1>0. TextTyped /\ PlacesTyped /\ Main \in ThreadIds /\ Main \notin Clients
  BY MainAssumption DEF Typed, ThreadIds
<1>1. /\ UNCHANGED <<pos, line, answer, gone, termination_flag>>
      /\ left' = left \/ \E v : left' = Put(left, Main, v)
      /\ at' = at \/ Mon!Call(Main) \/ Mon!StopWriting(Main)
      /\ \/ pc' = pc
         \/ \E c \in Clients : pc[c] = "backlog" /\ Goto(c, "start")
  <2>1. CASE CallWriting(Main) \/ WriteSome(Main) \/ WriteFails(Main) \/ StampWritten
    BY <1>0, <2>1 DEF CallWriting, WriteSome, WriteFails, StampWritten, monitor,
       flags, server, buffers, peers
  <2>2. CASE TestFlags \/ ClearFlag \/ CallAccept \/ Join \/ Exit
    BY <2>2 DEF TestFlags, ClearFlag, CallAccept, Join, Exit, monitor, flags,
       buffers, peers
  <2>3. CASE \E c \in Clients : Accept(c) \/ AcceptFails(c) \/ EnqueueFails(c)
    BY <2>3 DEF Accept, AcceptFails, EnqueueFails, monitor, flags, buffers, peers
  <2>4. QED
    BY <2>1, <2>2, <2>3 DEF MainStep
<1>2. \A d \in Clients : pc'[d] = pc[d] \/ (pc[d] = "backlog" /\ pc'[d] = "start")
  BY <1>0, <1>1 DEF Goto, PlacesTyped
<1>3. WriteSome(Main) \/ text' = text \/ Exit
  BY DEF MainStep, CallWriting, WriteFails, StampWritten, TestFlags, ClearFlag,
     CallAccept, Join, Accept, AcceptFails, EnqueueFails
<1>4. CASE WriteSome(Main)
  <2>1. ToWrite(Main)
    BY <1>4 DEF WriteSome, AtWrite, ToWrite
  <2>2. \A d \in Clients : Contains(text', d) => Contains(text, d)
    BY <1>0, <1>4, <2>1, WritesOwnName
  <2>3. QED
    BY <1>1, <1>2, <2>2
<1>5. CASE text' = text \/ text' = <<>>
  <2>1. ASSUME NEW d PROVE ~Contains(<<>>, d)
    BY DEF Contains
  <2>2. QED
    BY <1>1, <1>2, <1>5, <2>1
<1>6. QED
  BY <1>3, <1>4, <1>5 DEF Exit

LEMMA MainStepFollows ==
  ASSUME Typed, Typed', Grows, AnswerInv, MainStep
  PROVE  AnswerInv'
<1>0. /\ TextTyped /\ TextTyped' /\ AtTyped /\ Main \in ThreadIds
      /\ Main \notin Clients /\ OwnPiece(Main)
  BY MainAssumption DEF Typed, ThreadIds, AnswerInv
<1>1. /\ UNCHANGED <<pos, line, answer, gone, termination_flag>>
      /\ left' = left \/ \E v : left' = Put(left, Main, v)
      /\ at' = at \/ Mon!Call(Main) \/ Mon!StopWriting(Main)
      /\ \A d \in Clients :
           /\ pc'[d] = pc[d] \/ (pc[d] = "backlog" /\ pc'[d] = "start")
           /\ Contains(text', d) => Contains(text, d)
  BY <1>0, MainStepSame
<1>2. ASSUME NEW d \in Clients
      PROVE  d \in ThreadIds /\ d # Main /\ at'[d] = at[d] /\ left'[d] = left[d]
  <2>1. d \in ThreadIds /\ d # Main
    BY <1>0 DEF ThreadIds
  <2>2. at'[d] = at[d]
    BY <1>0, <1>1, <2>1, MovedFrom DEF Mon!Call, Mon!StopWriting
  <2>3. left'[d] = left[d]
    BY <1>0, <1>1, <2>1 DEF Put, TextTyped
  <2>4. QED
    BY <2>1, <2>2, <2>3
<1>3. ASSUME NEW d \in Clients
      PROVE  Continues(d)
  <2>1. CASE pc'[d] = pc[d]
    <3>1. InFlight(d)' = InFlight(d)
      BY <1>1, <1>2, <2>1 DEF InFlight
    <3>2. QED
      BY <1>1, <2>1, <3>1 DEF Continues, Answering
  <2>2. CASE pc[d] = "backlog" /\ pc'[d] = "start"
    BY <1>1, <2>2 DEF Continues, Answering, Before, Receiving
  <2>3. QED
    BY <1>1, <2>1, <2>2
<1>4. ASSUME NEW d \in Clients
      PROVE  Unread(d)' /\ Follows(d)'
  BY <1>0, <1>1, <1>3, ContinuesKept DEF AnswerInv
<1>5. ASSUME NEW c \in Clients
      PROVE  OwnPiece(c)'
  BY <1>1, <1>2, OwnPieceKept DEF AnswerInv, ToWrite
<1>6. OwnPiece(Main)'
  <2>1. OwnPiece(Main)
    BY <1>0
  <2>2. CASE WriteSome(Main)
    <3>1. ToWrite(Main)
      BY <2>2 DEF WriteSome, AtWrite, ToWrite
    <3>2. QED
      BY <1>0, <2>1, <2>2, <3>1, PieceLeft
  <2>3. CASE main' # "stamp"
    BY <2>3 DEF OwnPiece, ToWrite
  <2>4. CASE left' = left /\ main' = main
    BY <2>1, <2>4, OwnPieceKept DEF ToWrite
  <2>5. CASE left' = Put(left, Main, <<Main, NL>>)
    <3>1. left'[Main] = <<Main, NL>>
      BY <1>0, <2>5 DEF Put, TextTyped
    <3>2. \A i \in 1 .. Len(<<Main, NL>>) : <<Main, NL>>[i] \in {Main, NL}
      OBVIOUS
    <3>3. QED
      BY <3>1, <3>2 DEF OwnPiece
  <2>6. CASE WriteFails(Main) \/ StampWritten \/ ClearFlag \/ CallAccept \/ Exit
    <3>1. main' # "stamp"
      BY <2>6 DEF WriteFails, StampWritten, ClearFlag, CallAccept, Exit
    <3>2. QED
      BY <2>3, <3>1
  <2>7. CASE \E c \in Clients : Accept(c) \/ AcceptFails(c) \/ EnqueueFails(c)
    <3>1. main' # "stamp"
      BY <2>7 DEF Accept, AcceptFails, EnqueueFails
    <3>2. QED
      BY <2>3, <3>1
  <2>8. CASE CallWriting(Main) \/ Join
    BY <2>4, <2>8 DEF CallWriting, Join, server, buffers
  <2>9. CASE TestFlags
    BY <2>3, <2>5, <2>9 DEF TestFlags
  <2>10. QED
    BY <2>2, <2>6, <2>7, <2>8, <2>9 DEF MainStep
<1>7. QED
  BY <1>4, <1>5, <1>6 DEF AnswerInv, ThreadIds

\* What all other steps leave to the connections.
LEMMA OtherStepsSame ==
  ASSUME Typed,
         \/ \E c \in Clients : ClientStep(c)
         \/ \E t \in ThreadIds :
              MonitorStep(t) \/ SpuriousWakeup(t) \/ Terminate(t) \/ Alarm(t)
         \/ UNCHANGED vars
  PROVE  /\ UNCHANGED <<text, pos, line, left, answer>>
         /\ gone \subseteq gone' /\ (gone' # gone => ClientsLeave)
         /\ termination_flag => termination_flag'
         /\ main' \in {main, "test"}
         /\ \A d \in Clients :
              /\ (at'[d] = "outside") <=> (at[d] = "outside")
              /\ \/ pc'[d] = pc[d]
                 \/ pc[d] = "none" /\ pc'[d] = "backlog"
                 \/ pc[d] = "recv" /\ pc'[d] = "test"
<1>0. PlacesTyped /\ AtTyped /\ Main \notin Clients
  BY MainAssumption DEF Typed
<1>1. CASE \E c \in Clients : ClientStep(c)
  <2>1. PICK c \in Clients : ClientStep(c)
    BY <1>1
  <2>2. /\ UNCHANGED <<at, text, pos, line, left, answer, main, termination_flag>>
        /\ gone \subseteq gone' /\ (gone' # gone => ClientsLeave)
        /\ pc' = pc \/ (pc[c] = "none" /\ Goto(c, "backlog"))
    BY <2>1 DEF ClientStep, Connect, SendFirst, SendNewline, Leave, monitor,
       buffers, peers, server, flags
  <2>3. \A d \in Clients : pc'[d] = pc[d] \/ (pc[d] = "none" /\ pc'[d] = "backlog")
    BY <1>0, <2>2 DEF Goto, PlacesTyped
  <2>4. QED
    BY <2>2, <2>3
<1>2. CASE \E t \in ThreadIds : MonitorStep(t) \/ SpuriousWakeup(t)
  <2>1. PICK t \in ThreadIds : MonitorStep(t) \/ SpuriousWakeup(t)
    BY <1>2
  <2>2. UNCHANGED <<text, pos, line, left, answer, pc, gone, main, termination_flag>>
    BY <2>1 DEF MonitorStep, SpuriousWakeup, buffers, peers, server, flags
  <2>3. \A d \in Clients : (at'[d] = "outside") <=> (at[d] = "outside")
    BY <1>0, <2>1, WaitingMoves DEF ThreadIds, Mon!ReaderPlaces, Mon!WriterPlaces
  <2>4. QED
    BY <2>2, <2>3
<1>3. CASE \E t \in ThreadIds : Terminate(t) \/ Alarm(t)
  BY <1>0, <1>3 DEF Terminate, Alarm, Interrupts, Put, PlacesTyped, monitor,
     buffers, peers
<1>4. CASE UNCHANGED vars
  BY <1>4 DEF vars, monitor, buffers, peers, server, flags
<1>5. QED
  BY <1>1, <1>2, <1>3, <1>4

LEMMA OtherFollows ==
  ASSUME Typed, Typed', AnswerInv, Grows,
         \/ \E c \in Clients : ClientStep(c)
         \/ \E t \in ThreadIds :
              MonitorStep(t) \/ SpuriousWakeup(t) \/ Terminate(t) \/ Alarm(t)
         \/ UNCHANGED vars
  PROVE  AnswerInv'
<1>0. TextTyped /\ TextTyped'
  BY DEF Typed
<1>1. /\ UNCHANGED <<text, pos, line, left, answer>>
      /\ gone \subseteq gone' /\ (termination_flag => termination_flag')
      /\ main' \in {main, "test"}
      /\ \A d \in Clients :
           /\ (at'[d] = "outside") <=> (at[d] = "outside")
           /\ \/ pc'[d] = pc[d]
              \/ pc[d] = "none" /\ pc'[d] = "backlog"
              \/ pc[d] = "recv" /\ pc'[d] = "test"
  BY OtherStepsSame
<1>2. ASSUME NEW d \in Clients
      PROVE  Continues(d)
  <2>1. CASE pc'[d] = pc[d]
    <3>1. InFlight(d)' = InFlight(d)
      BY <1>1, <2>1 DEF InFlight
    <3>2. Answering(d)' => Answering(d)
      BY <1>1, <2>1 DEF Answering
    <3>3. QED
      BY <1>1, <2>1, <3>1, <3>2 DEF Continues
  <2>2. CASE pc[d] \in {"none", "recv"} /\ pc'[d] \in {"backlog", "test"}
    BY <1>1, <2>2 DEF Continues, Answering, Before, Receiving
  <2>3. QED
    BY <1>1, <2>1, <2>2
<1>3. ASSUME NEW d \in Clients
      PROVE  Unread(d)' /\ Follows(d)'
  BY <1>0, <1>1, <1>2, ContinuesKept DEF AnswerInv
<1>4. ASSUME NEW t \in ThreadIds
      PROVE  OwnPiece(t)'
  <2>1. ToWrite(t)' => ToWrite(t)
    BY <1>1 DEF ToWrite, ThreadIds
  <2>2. QED
    BY <1>1, <2>1, OwnPieceKept DEF AnswerInv
<1>5. QED
  BY <1>3, <1>4 DEF AnswerInv

LEMMA GrowsOrStays ==
  ASSUME [IsPrefix(text, text')]_text, text \in Seq(Chars)
  PROVE  Grows
<1>1. CASE text' = text
  <2>1. text' \in Seq(Chars) /\ Len(text) <= Len(text')
    BY <1>1
  <2>2. QED
    BY <1>1, <2>1, PrefixIs DEF Grows
<1>2. QED
  BY <1>1 DEF Grows

FollowInv ==
  Typed /\ PlacesAgree /\ AnswerInv /\ \A c \in Clients : LineOf(c)

LEMMA AnswersHold ==
  ASSUME ~Regular
  PROVE  Spec /\ [][IsPrefix(text, text')]_text => []FollowInv
<1> DEFINE OwnLines == \A c \in Clients : LineOf(c)
<1>1. Init => FollowInv
  <2> SUFFICES ASSUME Init PROVE FollowInv
    OBVIOUS
  <2>1. Typed /\ PlacesAgree
    BY TypesInit
    DEF Init, Mon!Init, PlacesAgree, ClientAt, MainAt, NoStamps, ThreadIds
  <2>2. OwnLines
    BY DEF Init, LineOf, Received
  <2>3. \A t \in ThreadIds : OwnPiece(t)
    BY DEF Init, OwnPiece, ToWrite
  <2>4. ASSUME NEW c \in Clients
        PROVE  Unread(c) /\ Follows(c)
    <3>1. /\ answer[c] = <<>> /\ pos[c] = 0 /\ pc[c] = "none"
          /\ text = <<>> /\ Len(<<>>) = 0
      BY DEF Init
    <3>2. ~Contains(text, c) /\ StandsAt(text, 0, answer[c]) /\ 0 \in 0 .. Len(text)
      BY <3>1 DEF Contains, StandsAt
    <3>3. FollowsFrom(c, 0)
      BY <3>1, <3>2 DEF FollowsFrom, Answering
    <3>4. QED
      BY <3>1, <3>2, <3>3 DEF Unread, Follows
  <2>5. QED
    BY <2>1, <2>2, <2>3, <2>4 DEF AnswerInv, FollowInv
<1>2. FollowInv /\ [Next]_vars /\ [IsPrefix(text, text')]_text => FollowInv'
  <2> SUFFICES ASSUME FollowInv, [Next]_vars, [IsPrefix(text, text')]_text
               PROVE  FollowInv'
    OBVIOUS
  <2>0. Typed /\ PlacesAgree /\ OwnLines /\ AnswerInv
    BY DEF FollowInv
  <2>1. Typed' /\ PlacesAgree'
    BY <2>0, TypesStep, PlacesStep
  <2>2. OwnLines'
    BY <2>0, LinesStep
  <2>3. Grows
    BY <2>0, <2>1, GrowsOrStays DEF Typed, TextTyped
  <2>4. AnswerInv'
    BY <2>0, <2>1, <2>3, ThreadStepFollows, MainStepFollows, OtherFollows DEF Next
  <2>5. QED
    BY <2>1, <2>2, <2>4 DEF FollowInv
<1>3. QED
  BY <1>1, <1>2, PTL DEF Spec

\* What aesdsocket_serve sends is the device's text: from its start to a client
\* that has stored its line, from where its seek command pointed to any other,
\* without gaps or repetitions, whatever is appended during the read-back, in how
\* many pieces reads and sends go, and whatever fails.  As long as the device
\* forgets nothing (and not for a regular file, of which the server drops what a
\* read() returned behind a newline).
THEOREM AnswersAreText ==
  ASSUME ~Regular
  PROVE  Spec /\ [][IsPrefix(text, text')]_text => []AnswerIsText
<1>1. FollowInv => AnswerIsText
  <2> SUFFICES ASSUME FollowInv, NEW c \in Clients
               PROVE  IF Contains(text, c)
                      THEN IsPrefix(answer[c], text)
                      ELSE \E p \in 0 .. Len(text) :
                             IsPrefix(answer[c], SubSeq(text, p + 1, Len(text)))
    BY DEF AnswerIsText
  <2>1. PICK p \in 0 .. Len(text) :
          StandsAt(text, p, answer[c]) /\ (Contains(text, c) => p = 0)
    BY DEF FollowInv, AnswerInv, Follows, FollowsFrom
  <2> DEFINE u == answer[c]
             r == SubSeq(text, 1 + p, Len(text))
  <2>2. text \in Seq(Chars) /\ u \in Seq(Chars) /\ p \in Nat /\ p <= Len(text)
    BY <2>1 DEF FollowInv, Typed, TextTyped
  <2>3. p + Len(u) <= Len(text) /\ \A i \in 1 .. Len(u) : text[p + i] = u[i]
    BY <2>1 DEF StandsAt
  <2> HIDE DEF u
  <2>4. CASE Contains(text, c)
    <3>1. p = 0 /\ Len(u) <= Len(text)
      BY <2>1, <2>2, <2>3, <2>4
    <3>2. \A i \in 1 .. Len(u) : 0 + i = i
      BY <2>2
    <3>3. \A i \in 1 .. Len(u) : u[i] = text[i]
      BY <2>3, <3>1, <3>2
    <3>4. IsPrefix(u, text)
      BY <2>2, <3>1, <3>3, PrefixIs
    <3>5. QED
      BY <2>4, <3>4 DEF u
  <2>5. CASE ~Contains(text, c)
    <3>1. /\ r \in Seq(Chars) /\ Len(r) = Len(text) - p
          /\ \A i \in 1 .. Len(text) - p : r[i] = text[i + p]
      BY <2>2, DropIsSeq
    <3>2. 1 + p = p + 1
      BY <2>2
    <3>3. SubSeq(text, p + 1, Len(text)) = r
      BY <3>2
    <3> HIDE DEF r
    <3>4. /\ Len(u) <= Len(r)
          /\ \A i \in 1 .. Len(u) : i \in 1 .. Len(text) - p /\ i + p = p + i
      BY <2>2, <2>3, <3>1
    <3>5. \A i \in 1 .. Len(u) : u[i] = r[i]
      BY <2>3, <3>1, <3>4
    <3>6. IsPrefix(u, r)
      BY <2>2, <3>1, <3>4, <3>5, PrefixIs
    <3>7. QED
      BY <2>5, <3>3, <3>6 DEF u
  <2>6. QED
    BY <2>4, <2>5
<1>2. QED
  BY <1>1, AnswersHold, PTL

-----------------------------------------------------------------------------
(* A client gets its own line back *)

\* The line of c is among the first n characters of s.
HasLine(s, c, n) ==
  \E i \in 1 .. Len(s) - 1 : i + 1 <= n /\ s[i] = c /\ s[i + 1] = NL

\* The places of a thread that reads on, and of one that has read everything.
ReadsOn == {"read", "eol", "send_eol"}
HasRead == {"eof", "send_eof"}

\* The line of a client whose thread reads is in the text, before the position
\* once the thread has met the end of the file, and in the answer in the end.
Met(c) ==
  ~termination_flag /\ Contains(text, c) =>
    /\ pc[c] \in ReadsOn => HasLine(text, c, Len(text))
    /\ pc[c] \in HasRead => HasLine(text, c, pos[c])
    /\ pc[c] = "closed" /\ c \notin gone =>
         HasLine(answer[c], c, Len(answer[c]))

OwnInv == \A c \in Clients : Met(c)

\* Steps in which a thread neither begins to read, nor meets the end of the file,
\* nor closes the connection.
KeepsMeeting(c) ==
  \/ pc'[c] \notin ReadsOn \cup HasRead \cup {"closed"}
  \/ pc[c] \in ReadsOn /\ pc'[c] \in ReadsOn
  \/ pc[c] \in HasRead /\ pc'[c] \in HasRead /\ pos'[c] = pos[c]
  \/ pc[c] = "closed" /\ pc'[c] = "closed" /\ answer'[c] = answer[c]

LEMMA HasLineKept ==
  ASSUME NEW s \in Seq(Chars), NEW t \in Seq(Chars), IsPrefix(s, t), NEW c,
         NEW m \in Int, NEW n \in Int, m <= n, HasLine(s, c, m)
  PROVE  HasLine(t, c, n)
<1>1. PICK i \in 1 .. Len(s) - 1 : i + 1 <= m /\ s[i] = c /\ s[i + 1] = NL
  BY DEF HasLine
<1>2. Len(s) <= Len(t) /\ \A j \in 1 .. Len(s) : s[j] = t[j]
  BY PrefixIs
<1>3. /\ i \in 1 .. Len(s) /\ i + 1 \in 1 .. Len(s) /\ i \in 1 .. Len(t) - 1
      /\ i + 1 <= n
  BY <1>1, <1>2
<1>4. QED
  BY <1>1, <1>2, <1>3 DEF HasLine

LEMMA MetKept ==
  ASSUME TextTyped, TextTyped', Grows, NEW c \in Clients, Met(c),
         termination_flag => termination_flag', gone \subseteq gone',
         Contains(text', c) => Contains(text, c) \/ pc'[c] = "write",
         KeepsMeeting(c)
  PROVE  Met(c)'
<1>1. /\ text \in Seq(Chars) /\ text' \in Seq(Chars) /\ IsPrefix(text, text')
      /\ pos[c] \in Int /\ Len(text) \in Int /\ Len(text') \in Int
      /\ Len(text) <= Len(text')
  <2>1. text \in Seq(Chars) /\ text' \in Seq(Chars) /\ pos[c] \in Int
    BY DEF TextTyped
  <2>2. QED
    BY <2>1, PrefixIs DEF Grows
<1>2. SUFFICES ASSUME ~termination_flag', Contains(text', c),
                      pc'[c] \in ReadsOn \cup HasRead \cup {"closed"}
               PROVE  Met(c)'
  BY DEF Met
<1>3. ~termination_flag /\ Contains(text, c)
  BY <1>2 DEF ReadsOn, HasRead
<1>4. CASE pc[c] \in ReadsOn /\ pc'[c] \in ReadsOn
  <2>1. HasLine(text, c, Len(text))
    BY <1>3, <1>4 DEF Met
  <2>2. HasLine(text', c, Len(text'))
    BY <1>1, <2>1, HasLineKept
  <2>3. QED
    BY <1>4, <2>2 DEF Met, ReadsOn, HasRead
<1>5. CASE pc[c] \in HasRead /\ pc'[c] \in HasRead /\ pos'[c] = pos[c]
  <2>1. HasLine(text, c, pos[c])
    BY <1>3, <1>5 DEF Met
  <2>2. HasLine(text', c, pos[c])
    BY <1>1, <2>1, HasLineKept
  <2>3. QED
    BY <1>5, <2>2 DEF Met, ReadsOn, HasRead
<1>6. CASE pc[c] = "closed" /\ pc'[c] = "closed" /\ answer'[c] = answer[c]
  BY <1>3, <1>6 DEF Met, ReadsOn, HasRead
<1>7. QED
  BY <1>2, <1>4, <1>5, <1>6 DEF KeepsMeeting

\* When read() returns nothing the position is at the end of the file.
LEMMA ReadCountZero ==
  ASSUME text \in Seq(Chars), NEW c, pos[c] \in Nat, ReadCount(c) = 0
  PROVE  Len(text) <= pos[c]
<1> DEFINE rest    == SubSeq(text, pos[c] + 1, Len(text))
           newline == FirstNewline(rest)
           T       == {BUFFSIZE, Len(rest)} \cup
                        IF ~Regular /\ newline # 0 THEN {newline} ELSE {}
<1>1. /\ Len(rest) \in Nat
      /\ Len(rest) = IF pos[c] + 1 <= Len(text) THEN Len(text) - pos[c] ELSE 0
  BY CutIsSeq
<1>2. ReadCount(c) = Min(T)
  BY DEF ReadCount
<1> HIDE DEF rest
<1>3. newline \in Nat
  BY <1>1, FirstNewlineIs
<1> HIDE DEF newline
<1>4. T \in SUBSET Nat /\ T # {}
  BY <1>1, <1>3, BoundsAssumption
<1>5. Min(T) \in T
  BY <1>4, MinInSet
<1>6. Len(rest) = 0
  BY <1>2, <1>5, BoundsAssumption
<1>7. QED
  BY <1>1, <1>6

\* What is written under a client's name is its line.
LEMMA WholeHasLine ==
  ASSUME text \in Seq(Chars), NEW c \in Clients, Whole(text), ~Odd(text),
         Contains(text, c)
  PROVE  HasLine(text, c, Len(text))
<1>1. PICK i \in 1 .. Len(text) : text[i] = c
  BY DEF Contains
<1>2. c # NL /\ Len(text) \in Nat /\ Len(text) % 2 # 1
  BY MainAssumption DEF Odd, ThreadIds
<1>3. i % 2 = 1
  BY <1>1, <1>2 DEF Whole
<1>4. i + 1 \in 1 .. Len(text) /\ (i + 1) % 2 # 1
  BY <1>2, <1>3
<1>5. text[i + 1] = NL
  BY <1>4 DEF Whole
<1>6. i \in 1 .. Len(text) - 1
  BY <1>2, <1>4
<1>7. QED
  BY <1>1, <1>4, <1>5, <1>6 DEF HasLine

\* The thread's own steps.
LEMMA ThreadMeets ==
  ASSUME Typed, Typed', PlacesAgree, LinesInv, Grows, NEW c \in Clients, Unread(c),
         Follows(c), Met(c), ThreadStep(c)
  PROVE  Met(c)'
<1>0. /\ TextTyped /\ TextTyped' /\ PlacesTyped /\ c \in ThreadIds /\ c # Main
      /\ text \in Seq(Chars) /\ pos[c] \in Nat /\ answer[c] \in Seq(Chars)
      /\ left[c] \in Seq(Chars)
  BY MainAssumption DEF Typed, TextTyped, ThreadIds
<1>1. \A place : Goto(c, place) => pc'[c] = place
  BY <1>0 DEF Goto, PlacesTyped
<1>2. termination_flag' = termination_flag /\ gone' = gone
  BY DEF ThreadStep, Start, TestTermination, CallRecv, Recv, RecvFails, SeekTo,
     NothingToWrite, StoreLine, CallWriting, WriteSome, WriteFails, Written,
     CallReading, ReadSome, ReadFails, LineRead, SendSome, SendFails, BrokenPipe,
     LineSent, flags, peers
<1>3. ASSUME text' = text, KeepsMeeting(c)
      PROVE  Met(c)'
  BY <1>0, <1>2, <1>3, MetKept
<1>4. ASSUME text' = text, ~Contains(text, c)
      PROVE  Met(c)'
  BY <1>4 DEF Met
<1>5. CASE \/ Start(c) \/ TestTermination(c) \/ CallRecv(c) \/ RecvFails(c)
           \/ Recv(c) \/ StoreLine(c)
  <2>1. /\ text' = text
        /\ \E place \in Receiving \cup {"line", "failed", "write"} : Goto(c, place)
    BY <1>5 DEF Start, TestTermination, CallRecv, RecvFails, Recv, StoreLine,
       Receiving
  <2>2. KeepsMeeting(c)
    BY <1>1, <2>1 DEF KeepsMeeting, ReadsOn, HasRead, Receiving
  <2>3. QED
    BY <1>3, <2>1, <2>2
<1>6. CASE SeekTo(c) \/ NothingToWrite(c)
  <2>1. text' = text /\ pc[c] = "line"
    BY <1>6 DEF SeekTo, NothingToWrite, AtPlace
  <2>2. QED
    BY <1>4, <2>1 DEF Unread, Before
<1>7. CASE WriteFails(c) \/ ReadFails(c) \/ SendFails(c)
  <2>1. text' = text /\ Goto(c, "failed")
    BY <1>0, <1>7 DEF WriteFails, ReadFails, SendFails
  <2>2. KeepsMeeting(c)
    BY <1>1, <2>1 DEF KeepsMeeting, ReadsOn, HasRead
  <2>3. QED
    BY <1>3, <2>1, <2>2
<1>8. CASE WriteSome(c)
  <2>1. pc'[c] = "write"
    BY <1>0, <1>8 DEF WriteSome, AtWrite
  <2>2. KeepsMeeting(c)
    BY <2>1 DEF KeepsMeeting, ReadsOn, HasRead
  <2>3. QED
    BY <1>0, <1>2, <2>1, <2>2, MetKept
<1>9. CASE CallWriting(c) \/ BrokenPipe(c) \/ CallReading(c) \/ SendSome(c)
  <2>1. UNCHANGED <<text, pc, pos>> /\ pc[c] # "closed"
    BY <1>0, <1>9 DEF CallWriting, BrokenPipe, CallReading, SendSome, AtWrite,
       AtPlace, Sending
  <2>2. KeepsMeeting(c)
    BY <2>1 DEF KeepsMeeting
  <2>3. QED
    BY <1>3, <2>1, <2>2
<1>10. CASE LineRead(c)
  <2>1. /\ UNCHANGED <<text, pos>>
        /\ \/ pc[c] = "eol" /\ Goto(c, "send_eol")
           \/ pc[c] = "eof" /\ Goto(c, "send_eof")
    BY <1>10 DEF LineRead
  <2>2. KeepsMeeting(c)
    BY <1>1, <2>1 DEF KeepsMeeting, ReadsOn, HasRead
  <2>3. QED
    BY <1>3, <2>1, <2>2
<1>11. CASE Written(c)
  <2>1. /\ text' = text /\ pc[c] = "write" /\ left[c] = <<>> /\ Running
        /\ \E place \in {"read", "failed"} : Goto(c, place)
        /\ Mon!StopWriting(c)
    BY <1>0, <1>11 DEF Written, AtWrite
  <2>2. ASSUME ~termination_flag, Contains(text, c)
        PROVE  HasLine(text, c, Len(text))
    <3>1. at[c] = "writing"
      BY <1>0, <2>1, MovedFrom DEF Mon!StopWriting, Typed
    <3>2. TextInv /\ Len(left[c]) # 1
      BY <2>1, <2>2 DEF LinesInv
    <3>3. Whole(text) /\ ~Odd(text)
      BY <1>0, <2>1, <3>1, <3>2 DEF TextInv
    <3>4. QED
      BY <1>0, <2>2, <3>3, WholeHasLine
  <2>3. pc'[c] \in {"read", "failed"}
    BY <1>1, <2>1
  <2>4. QED
    BY <1>2, <2>1, <2>2, <2>3 DEF Met, ReadsOn, HasRead
<1>12. CASE ReadSome(c)
  <2> DEFINE n == ReadCount(c)
  <2>1. /\ text' = text /\ pc[c] = "read" /\ pos' = Put(pos, c, pos[c] + n)
        /\ \/ n = 0 /\ Goto(c, "eof")
           \/ Goto(c, "eol") \/ Goto(c, "read")
    BY <1>12 DEF ReadSome, AtPlace
  <2>2. CASE Goto(c, "eol") \/ Goto(c, "read")
    <3>1. KeepsMeeting(c)
      BY <1>1, <2>1, <2>2 DEF KeepsMeeting, ReadsOn
    <3>2. QED
      BY <1>3, <2>1, <3>1
  <2>3. CASE n = 0 /\ Goto(c, "eof")
    <3>1. pc'[c] = "eof" /\ pos'[c] = pos[c] + n
      BY <1>0, <1>1, <2>1, <2>3 DEF Put, TextTyped
    <3>2. Len(text) <= pos[c]
      BY <1>0, <2>3, ReadCountZero
    <3>3. Len(text) <= pos'[c] /\ pos'[c] \in Int /\ Len(text) \in Int
      BY <1>0, <2>3, <3>1, <3>2
    <3> HIDE DEF n
    <3>4. IsPrefix(text, text)
      BY <1>0, PrefixIs
    <3>5. HasLine(text, c, Len(text)) => HasLine(text, c, pos'[c])
      BY <1>0, <3>3, <3>4, HasLineKept
    <3>6. QED
      BY <1>2, <2>1, <3>1, <3>5 DEF Met, ReadsOn, HasRead
  <2>4. QED
    BY <2>1, <2>2, <2>3
<1>13. CASE LineSent(c)
  <2>1. /\ text' = text /\ answer' = answer /\ (left[c] = <<>> \/ termination_flag)
        /\ \/ pc[c] = "send_eol" /\ Goto(c, "read")
           \/ pc[c] = "send_eof" /\ Goto(c, "closed")
    BY <1>13 DEF LineSent, Sending, peers
  <2>2. CASE pc[c] = "send_eol" /\ Goto(c, "read")
    <3>1. KeepsMeeting(c)
      BY <1>1, <2>2 DEF KeepsMeeting, ReadsOn
    <3>2. QED
      BY <1>3, <2>1, <3>1
  <2>3. CASE pc[c] = "send_eof" /\ Goto(c, "closed")
    <3>1. pc'[c] = "closed"
      BY <1>1, <2>3
    <3>2. ASSUME ~termination_flag, Contains(text, c), c \notin gone
          PROVE  HasLine(answer[c], c, Len(answer[c]))
      <4> DEFINE u == answer[c]
      <4>1. PICK i \in 1 .. Len(text) - 1 :
              i + 1 <= pos[c] /\ text[i] = c /\ text[i + 1] = NL
        BY <2>3, <3>2 DEF Met, HasRead, HasLine
      <4>2. PICK p \in 0 .. Len(text) : FollowsFrom(c, p)
        BY DEF Follows
      <4>3. InFlight(c) = <<>> /\ Answering(c)
        BY <2>1, <2>3, <3>2 DEF InFlight, Answering
      <4>4. p = 0 /\ StandsAt(text, p, u) /\ pos[c] = p + Len(u) + Len(<<>>)
        BY <3>2, <4>2, <4>3 DEF FollowsFrom
      <4>5. /\ Len(u) \in Nat /\ Len(text) \in Nat /\ pos[c] = Len(u)
            /\ \A j \in 1 .. Len(u) : text[0 + j] = u[j]
        BY <1>0, <4>4 DEF StandsAt
      <4> HIDE DEF u
      <4>6. /\ i \in 1 .. Len(u) /\ i + 1 \in 1 .. Len(u) /\ i \in 1 .. Len(u) - 1
            /\ 0 + i = i /\ 0 + (i + 1) = i + 1
        BY <4>1, <4>5
      <4>7. u[i] = c /\ u[i + 1] = NL
        BY <4>1, <4>5, <4>6
      <4>8. QED
        BY <4>1, <4>5, <4>6, <4>7 DEF HasLine, u
    <3>3. QED
      BY <1>2, <2>1, <3>1, <3>2 DEF Met, ReadsOn, HasRead
  <2>4. QED
    BY <2>1, <2>2, <2>3
<1>14. QED
  BY <1>5, <1>6, <1>7, <1>8, <1>9, <1>10, <1>11, <1>12, <1>13 DEF ThreadStep

LEMMA OwnStep ==
  ASSUME Typed, Typed', PlacesAgree, LinesInv, AnswerInv, Grows,
         OwnInv, [Next]_vars
  PROVE  OwnInv'
<1>0. TextTyped /\ TextTyped' /\ \A t \in ThreadIds : OwnPiece(t)
  BY DEF Typed, OwnInv, AnswerInv
<1>1. ASSUME NEW d \in Clients, termination_flag => termination_flag',
             gone \subseteq gone', Contains(text', d) => Contains(text, d),
             pos'[d] = pos[d], answer'[d] = answer[d],
             \/ pc'[d] = pc[d]
             \/ pc'[d] \in {"start", "backlog", "test"}
      PROVE  Met(d)'
  <2>1. KeepsMeeting(d)
    BY <1>1 DEF KeepsMeeting, ReadsOn, HasRead
  <2>2. QED
    BY <1>0, <1>1, <2>1, MetKept DEF OwnInv
<1>2. ASSUME NEW c \in Clients, ThreadStep(c)
      PROVE  OwnInv'
  <2>1. OwnPiece(c)
    BY <1>0 DEF ThreadIds
  <2>2. /\ UNCHANGED <<gone, flags>>
        /\ \A d \in Clients \ {c} :
             /\ pc'[d] = pc[d] /\ pos'[d] = pos[d] /\ line'[d] = line[d]
             /\ answer'[d] = answer[d]
             /\ Contains(text', d) => Contains(text, d)
    BY <1>2, <2>1, ThreadOthersSame
  <2>3. \A d \in Clients \ {c} : Met(d)'
    BY <1>1, <2>2 DEF flags
  <2>4. Met(c)'
    BY <1>0, <1>2, ThreadMeets DEF AnswerInv, OwnInv
  <2>5. QED
    BY <1>0, <2>2, <2>3, <2>4 DEF OwnInv
<1>3. CASE MainStep
  <2>1. OwnPiece(Main)
    BY <1>0 DEF ThreadIds
  <2>2. /\ UNCHANGED <<pos, line, answer, gone, termination_flag>>
        /\ \A d \in Clients :
             /\ pc'[d] = pc[d] \/ (pc[d] = "backlog" /\ pc'[d] = "start")
             /\ Contains(text', d) => Contains(text, d)
    BY <1>3, <2>1, MainStepSame
  <2>3. \A d \in Clients : Met(d)'
    BY <1>1, <2>2
  <2>4. QED
    BY <1>0, <2>2, <2>3 DEF OwnInv
<1>4. CASE \/ \E c \in Clients : ClientStep(c)
           \/ \E t \in ThreadIds :
                MonitorStep(t) \/ SpuriousWakeup(t) \/ Terminate(t) \/ Alarm(t)
           \/ UNCHANGED vars
  <2>1. /\ UNCHANGED <<text, pos, line, left, answer>>
        /\ gone \subseteq gone' /\ (gone' # gone => ClientsLeave)
        /\ termination_flag => termination_flag'
        /\ \A d \in Clients :
             \/ pc'[d] = pc[d]
             \/ pc[d] = "none" /\ pc'[d] = "backlog"
             \/ pc[d] = "recv" /\ pc'[d] = "test"
    BY <1>4, OtherStepsSame
  <2>2. \A d \in Clients : Met(d)'
    BY <1>1, <2>1
  <2>3. QED
    BY <1>0, <2>1, <2>2 DEF OwnInv
<1>5. QED
  BY <1>2, <1>3, <1>4 DEF Next

\* What aesdsocket_serve sends back contains the line it has stored: it opens the
\* file anew behind monitor_stop_writing and reads up to a read() that returns
\* nothing, however the text grows meanwhile and in how many pieces it is read and
\* sent.  For any number of clients, also when others leave or fail, as long as
\* the device forgets nothing and the monitor lets one thread write at a time (as
\* for WholeLines: otherwise another name may come between a client's and its
\* newline).
THEOREM OwnLineComesBack ==
  ASSUME ~Regular
  PROVE  Spec /\ []WritersAlone /\ [][IsPrefix(text, text')]_text
           => []OwnLineAnswered
<1>1. Init => OwnInv
  <2> SUFFICES ASSUME Init PROVE OwnInv
    OBVIOUS
  <2>1. \A c \in Clients : pc[c] = "none"
    BY DEF Init
  <2>2. QED
    BY <2>1 DEF OwnInv, Met, ReadsOn, HasRead
<1>2. /\ SafeInv /\ SafeInv' /\ FollowInv /\ OwnInv
      /\ [Next]_vars /\ [IsPrefix(text, text')]_text
      => OwnInv'
  <2> SUFFICES ASSUME SafeInv, SafeInv', FollowInv, OwnInv, [Next]_vars,
                      [IsPrefix(text, text')]_text
               PROVE  OwnInv'
    OBVIOUS
  <2>1. Typed /\ Typed' /\ PlacesAgree /\ LinesInv /\ AnswerInv
    BY DEF SafeInv, FollowInv
  <2>2. Grows
    BY <2>1, GrowsOrStays DEF Typed, TextTyped
  <2>3. QED
    BY <2>1, <2>2, OwnStep
<1>3. OwnInv => OwnLineAnswered
  <2> SUFFICES ASSUME OwnInv, NEW c \in Clients, pc[c] = "closed",
                      c \notin gone, Contains(text, c), ~termination_flag
               PROVE  \E i \in 1 .. Len(answer[c]) - 1 :
                        answer[c][i] = c /\ answer[c][i + 1] = NL
    BY DEF OwnLineAnswered
  <2>1. HasLine(answer[c], c, Len(answer[c]))
    BY DEF OwnInv, Met
  <2>2. QED
    BY <2>1 DEF HasLine
<1>4. Spec /\ []WritersAlone => []SafeInv
  BY LinesHold
<1>5. Spec /\ [][IsPrefix(text, text')]_text => []FollowInv
  BY AnswersHold
<1>6. QED
  BY <1>1, <1>2, <1>3, <1>4, <1>5, PTL DEF Spec

=============================================================================

------------------------- MODULE ServerProcessProofs -------------------------
(***************************************************************************)
(* Proofs about the server process, for any number of processes started.   *)
(***************************************************************************)
EXTENDS ServerProcess, TLAPS

Types ==
  /\ at \in [Servers -> Places]
  /\ timer \in [Servers -> BOOLEAN]
  /\ termination_flag \in [Servers -> BOOLEAN]
  /\ daemon \in [Servers -> BOOLEAN] /\ ok \in [Servers -> BOOLEAN]
  /\ fd \in [Servers -> [Descriptors ->
                {"closed", "terminal", "null", "socket", "data"}]]
  /\ handled \in [Servers -> SUBSET {"TERM", "INT", "ALRM"}]
  /\ status \in [Servers -> {"none", "success", "failure", "killed"}]
  /\ leftover \in [Servers -> {"nothing", "pointer", "thread"}]
  /\ bound \subseteq Servers /\ listener \in Servers \cup {Nobody}
  /\ file \in BOOLEAN

\* The port: whoever has got past listen() is the listener.
PortInv == \A s \in Servers : at[s] \in Listening => listener = s

Caught(s) == {"TERM", "INT"} \subseteq handled[s]

\* What SIGTERM, SIGINT or SIGALRM could leave behind is only there with their
\* handlers.
HandlersInv(s) ==
  /\ at[s] \in Listening \cup {"socket", "bind", "listen"} => Caught(s)
  /\ s \in bound => Caught(s) /\ at[s] \in Listening \cup {"listen", "close"}
  /\ leftover[s] # "nothing" => Caught(s) /\ at[s] \in CleanUp \cup Ended
  /\ Has(s, "data") =>
       Caught(s) /\ at[s] \in {"serving", "join", "close", "remove", "exit"}
  /\ at[s] = "sigint" => "TERM" \in handled[s]
  /\ at[s] = "settime" => "ALRM" \in handled[s]
  /\ timer[s] => "ALRM" \in handled[s] /\ at[s] \in {"serving", "join"}

\* The data file has a server that will still remove it, or one that never will.
FileInv ==
  Regular /\ file =>
    \E s \in Servers :
      \/ at[s] \in {"serving", "join", "close", "remove"} /\ Caught(s)
      \/ at[s] \in {"broken_pipe", "crashed"}
      \/ leftover[s] = "thread"

\* How the descriptors of a daemon are taken one after the other.
StandardInv(s) ==
  daemon[s] =>
    /\ at[s] \in {"null", "dup1", "dup2"} => fd[s][2] = "closed"
    /\ at[s] \in {"null", "dup1"} => fd[s][1] = "closed"
    /\ at[s] = "null" => fd[s][0] = "closed"
    /\ at[s] = "dup1" => fd[s][0] # "closed"
    /\ at[s] = "dup2" => fd[s][0] # "closed" /\ fd[s][1] # "closed"
    /\ at[s] \in Listening => fd[s][2] = "null"
    /\ leftover[s] # "nothing" /\ at[s] \in CleanUp => fd[s][2] = "null"
    /\ at[s] \in {"sigterm", "sigint", "socket", "bind", "listen"} =>
         fd[s][2] = "null"
    /\ fd[s][2] \notin {"socket", "data"}

\* Success is what a stopped server ends with.
StatusInv(s) ==
  /\ ok[s] => termination_flag[s]
  /\ status[s] = "success" /\ ~daemon[s] =>
       at[s] = "exited" /\ termination_flag[s]
  /\ at[s] = "fork" => daemon[s]
  /\ at[s] = "none" => ~daemon[s]

Handlers == \A s \in Servers : HandlersInv(s)
Standard == \A s \in Servers : StandardInv(s)
Status   == \A s \in Servers : StatusInv(s)

\* The inductive invariant.
ProcessInv == Types /\ PortInv /\ Handlers /\ Standard /\ Status /\ FileInv

-----------------------------------------------------------------------------
(* Every action keeps every part, whatever the process it is a step of. *)

USE DEF Goto, Passes, Reports, process, port, loop, Has

\* What the four ends of a process have in common: it was running; a signal of
\* the three kills it only without a handler, and success is reported only by
\* an orderly end.
EndsRightly(s, how, result) ==
  /\ Alive(s)
  /\ Ends(s, how, result)
  /\ how = "killed" => ~Caught(s)
  /\ how = "exited" => at[s] = "exit"
  /\ result = "success" => how = "exited" /\ ok[s]

\* Each step that ends a process is one of those.
LEMMA EndingSteps ==
  ASSUME ProcessInv, NEW s \in Servers,
         \/ BrokenPipe(s) \/ Crash(s) \/ Exit(s)
         \/ \E g \in {"TERM", "INT", "ALRM"} : Signal(s, g) /\ g \notin handled[s]
  PROVE  \E how \in Ended, result \in {"success", "failure", "killed"} :
           EndsRightly(s, how, result)
<1> USE DEF EndsRightly, Alive, Ended, ProcessInv, Types, Handlers, HandlersInv
<1>1. CASE BrokenPipe(s)
  <2>1. Ends(s, "broken_pipe", "killed") /\ at[s] \notin {"none"} \cup Ended
    BY <1>1 DEF BrokenPipe
  <2>2. EndsRightly(s, "broken_pipe", "killed")
    BY <2>1
  <2>3. QED
    BY <2>2
<1>2. CASE Crash(s)
  <2>1. Ends(s, "crashed", "killed") /\ at[s] \notin {"none"} \cup Ended
    BY <1>2 DEF Crash
  <2>2. EndsRightly(s, "crashed", "killed")
    BY <2>1
  <2>3. QED
    BY <2>2
<1>3. CASE Exit(s)
  <2> DEFINE result == IF ok[s] THEN "success" ELSE "failure"
  <2>1. Ends(s, "exited", result) /\ at[s] = "exit"
    BY <1>3 DEF Exit
  <2>2. EndsRightly(s, "exited", result)
    BY <2>1
  <2>3. QED
    BY <2>2
<1>4. ASSUME NEW g \in {"TERM", "INT", "ALRM"},
             Signal(s, g), g \notin handled[s]
      PROVE  EndsRightly(s, "killed", "killed")
  <2>1. Ends(s, "killed", "killed") /\ Alive(s)
    BY <1>4 DEF Signal
  <2>2. ~Caught(s)
    BY <1>4 DEF Signal, Caught
  <2>3. QED
    BY <2>1, <2>2
<1>5. QED
  BY <1>1, <1>2, <1>3, <1>4

\* Each step leaves the variables in their types.
LEMMA TypesStep ==
  ASSUME ProcessInv, Next
  PROVE  Types'
<1> USE NobodyAssumption, MaxFdAssumption
       DEF ProcessInv, Types,
           Opens, Unused, Closes, Releases, Descriptors,
           StartUp, SignalOf, Places, CleanUp, Ended, Listening
<1>1. ASSUME NEW s \in Servers, Start(s) PROVE Types'
  <2>1. fd' \in [Servers -> [Descriptors ->
                {"closed", "terminal", "null", "socket", "data"}]]
    BY <1>1 DEF Start
  <2>2. at' \in [Servers -> Places]
    <3>1. \E p \in {"fork", "sigterm", "exited"} : at' = [at EXCEPT ![s] = p]
      BY <1>1 DEF Start
    <3>2. QED
      BY <3>1
  <2>3. status' \in [Servers -> {"none", "success", "failure", "killed"}]
    BY <1>1, ZenonT(60) DEF Start
  <2>4. bound' \subseteq Servers /\ listener' \in Servers \cup {Nobody}
    BY <1>1 DEF Start
  <2>5. QED
    BY <1>1, <2>1, <2>2, <2>3, <2>4, ZenonT(60) DEF Start
<1>2. ASSUME NEW s \in Servers, Fork(s) PROVE Types'
  BY <1>2 DEF Fork
<1>3. ASSUME NEW s \in Servers, Detach(s) PROVE Types'
  BY <1>3 DEF Detach
<1>4. ASSUME NEW s \in Servers, OpenNull(s) PROVE Types'
  BY <1>4 DEF OpenNull
<1>5. ASSUME NEW s \in Servers, Sigaction(s) PROVE Types'
  BY <1>5 DEF Sigaction
<1>6. ASSUME NEW s \in Servers, Socket(s) PROVE Types'
  BY <1>6 DEF Socket
<1>7. ASSUME NEW s \in Servers, Bind(s) PROVE Types'
  BY <1>7 DEF Bind
<1>8. ASSUME NEW s \in Servers, Listen(s) PROVE Types'
  BY <1>8 DEF Listen
<1>9. ASSUME NEW s \in Servers, Prepare(s) PROVE Types'
  BY <1>9 DEF Prepare
<1>10. ASSUME NEW s \in Servers, SetTime(s) PROVE Types'
  BY <1>10 DEF SetTime
<1>11. ASSUME NEW s \in Servers, CallFails(s) PROVE Types'
  <2>1. fd' \in [Servers -> [Descriptors ->
                {"closed", "terminal", "null", "socket", "data"}]]
    <3>1. CASE at[s] \in {"bind", "listen"}
      <4>1. Closes(s, "socket")
        <5> HIDE DEF Closes
        <5>1. QED
          BY <1>11, <3>1 DEF CallFails
      <4>2. QED
        BY <4>1
    <3>2. CASE at[s] \notin {"bind", "listen"}
      BY <1>11, <3>2 DEF CallFails
    <3>3. QED
      BY <3>1, <3>2
  <2>2. at' \in [Servers -> Places]
    BY <1>11 DEF CallFails
  <2>3. status' \in [Servers -> {"none", "success", "failure", "killed"}]
    BY <1>11 DEF CallFails
  <2>4. bound' \subseteq Servers /\ listener' \in Servers \cup {Nobody}
    BY <1>11 DEF CallFails
  <2>5. QED
    BY <1>11, <2>1, <2>2, <2>3, <2>4 DEF CallFails
<1>12. ASSUME NEW s \in Servers, OpenData(s) PROVE Types'
  BY <1>12 DEF OpenData
<1>13. ASSUME NEW s \in Servers, CloseData(s) PROVE Types'
  BY <1>13 DEF CloseData
<1>14. ASSUME NEW s \in Servers, LeaveLoop(s) PROVE Types'
  BY <1>14 DEF LeaveLoop
<1>15. ASSUME NEW s \in Servers, JoinThreads(s) PROVE Types'
  BY <1>15 DEF JoinThreads
<1>16. ASSUME NEW s \in Servers, CloseSocket(s) PROVE Types'
  BY <1>16 DEF CloseSocket
<1>17. ASSUME NEW s \in Servers, Remove(s) PROVE Types'
  BY <1>17 DEF Remove
<1>18. ASSUME NEW s \in Servers, NEW g \in {"TERM", "INT", "ALRM"},
             Signal(s, g), g \in handled[s]
       PROVE  Types'
  BY <1>18 DEF Signal
<1>19. ASSUME NEW s \in Servers, NEW how \in Ended,
             NEW result \in {"success", "failure", "killed"},
             EndsRightly(s, how, result)
       PROVE  Types'
  <2>1. fd' \in [Servers -> [Descriptors ->
                {"closed", "terminal", "null", "socket", "data"}]]
    BY <1>19 DEF EndsRightly, Ends
  <2>2. at' \in [Servers -> Places] /\ timer' \in [Servers -> BOOLEAN]
    BY <1>19 DEF EndsRightly, Ends
  <2>3. status' \in [Servers -> {"none", "success", "failure", "killed"}]
    BY <1>19 DEF EndsRightly, Ends
  <2>4. bound' \subseteq Servers /\ listener' \in Servers \cup {Nobody}
    BY <1>19 DEF EndsRightly, Ends
  <2>5. QED
    BY <1>19, <2>1, <2>2, <2>3, <2>4 DEF EndsRightly, Ends
<1>20. ASSUME NEW s \in Servers, BrokenPipe(s) \/ Crash(s) \/ Exit(s)
       PROVE  Types'
  <2> HIDE DEF ProcessInv, Ended, Types
  <2>1. QED
    BY <1>19, <1>20, EndingSteps
<1>21. ASSUME NEW s \in Servers, NEW g \in {"TERM", "INT", "ALRM"},
             Signal(s, g), g \notin handled[s]
       PROVE  Types'
  <2> HIDE DEF ProcessInv, Ended, Types
  <2>1. QED
    BY <1>19, <1>21, EndingSteps
<1>22. QED
  <2> HIDE DEF ProcessInv, Ended, Types
  <2>1. QED
    BY <1>1, <1>2, <1>3, <1>4, <1>5, <1>6, <1>7, <1>8, <1>9, <1>10,
       <1>11, <1>12, <1>13, <1>14, <1>15, <1>16, <1>17, <1>18, <1>20, <1>21
    DEF Next, StartUpStep, LoopStep, CleanUpStep

\* Only listen() makes a listener, and it finds none.
LEMMA PortStep ==
  ASSUME ProcessInv, Next
  PROVE  PortInv'
<1> USE NobodyAssumption, MaxFdAssumption
       DEF ProcessInv, Types, PortInv,
           Opens, Unused, Closes, Releases, Descriptors,
           StartUp, SignalOf, Places, CleanUp, Ended, Listening
<1>1. ASSUME NEW s \in Servers, Start(s) PROVE PortInv'
  BY <1>1 DEF Start
<1>2. ASSUME NEW s \in Servers, Fork(s) PROVE PortInv'
  BY <1>2 DEF Fork
<1>3. ASSUME NEW s \in Servers, Detach(s) PROVE PortInv'
  BY <1>3 DEF Detach
<1>4. ASSUME NEW s \in Servers, OpenNull(s) PROVE PortInv'
  BY <1>4 DEF OpenNull
<1>5. ASSUME NEW s \in Servers, Sigaction(s) PROVE PortInv'
  BY <1>5 DEF Sigaction
<1>6. ASSUME NEW s \in Servers, Socket(s) PROVE PortInv'
  BY <1>6 DEF Socket
<1>7. ASSUME NEW s \in Servers, Bind(s) PROVE PortInv'
  BY <1>7 DEF Bind
<1>8. ASSUME NEW s \in Servers, Listen(s) PROVE PortInv'
  BY <1>8 DEF Listen
<1>9. ASSUME NEW s \in Servers, Prepare(s) PROVE PortInv'
  BY <1>9 DEF Prepare
<1>10. ASSUME NEW s \in Servers, SetTime(s) PROVE PortInv'
  BY <1>10 DEF SetTime
<1>11. ASSUME NEW s \in Servers, CallFails(s) PROVE PortInv'
  BY <1>11 DEF CallFails
<1>12. ASSUME NEW s \in Servers, OpenData(s) PROVE PortInv'
  BY <1>12 DEF OpenData
<1>13. ASSUME NEW s \in Servers, CloseData(s) PROVE PortInv'
  BY <1>13 DEF CloseData
<1>14. ASSUME NEW s \in Servers, LeaveLoop(s) PROVE PortInv'
  BY <1>14 DEF LeaveLoop
<1>15. ASSUME NEW s \in Servers, JoinThreads(s) PROVE PortInv'
  BY <1>15 DEF JoinThreads
<1>16. ASSUME NEW s \in Servers, CloseSocket(s) PROVE PortInv'
  BY <1>16 DEF CloseSocket
<1>17. ASSUME NEW s \in Servers, Remove(s) PROVE PortInv'
  BY <1>17 DEF Remove
<1>18. ASSUME NEW s \in Servers, NEW g \in {"TERM", "INT", "ALRM"},
             Signal(s, g), g \in handled[s]
       PROVE  PortInv'
  BY <1>18 DEF Signal
<1>19. ASSUME NEW s \in Servers, NEW how \in Ended,
             NEW result \in {"success", "failure", "killed"},
             EndsRightly(s, how, result)
       PROVE  PortInv'
  BY <1>19 DEF EndsRightly, Ends
<1>20. ASSUME NEW s \in Servers, BrokenPipe(s) \/ Crash(s) \/ Exit(s)
       PROVE  PortInv'
  <2> HIDE DEF ProcessInv, Ended, Types, PortInv
  <2>1. QED
    BY <1>19, <1>20, EndingSteps
<1>21. ASSUME NEW s \in Servers, NEW g \in {"TERM", "INT", "ALRM"},
             Signal(s, g), g \notin handled[s]
       PROVE  PortInv'
  <2> HIDE DEF ProcessInv, Ended, Types, PortInv
  <2>1. QED
    BY <1>19, <1>21, EndingSteps
<1>22. QED
  <2> HIDE DEF ProcessInv, Ended, Types, PortInv
  <2>1. QED
    BY <1>1, <1>2, <1>3, <1>4, <1>5, <1>6, <1>7, <1>8, <1>9, <1>10,
       <1>11, <1>12, <1>13, <1>14, <1>15, <1>16, <1>17, <1>18, <1>20, <1>21
    DEF Next, StartUpStep, LoopStep, CleanUpStep

\* Nothing a signal could leave behind exists before its handler does.
LEMMA HandlersStep ==
  ASSUME ProcessInv, Next
  PROVE  Handlers'
<1> USE NobodyAssumption, MaxFdAssumption
       DEF ProcessInv, Types, Handlers, HandlersInv, Caught, HasThreads,
           Opens, Unused, Closes, Releases, Descriptors,
           StartUp, SignalOf, Places, CleanUp, Ended, Listening
<1>1. ASSUME NEW s \in Servers, Start(s) PROVE Handlers'
  BY <1>1 DEF Start
<1>2. ASSUME NEW s \in Servers, Fork(s) PROVE Handlers'
  BY <1>2 DEF Fork
<1>3. ASSUME NEW s \in Servers, Detach(s) PROVE Handlers'
  BY <1>3 DEF Detach
<1>4. ASSUME NEW s \in Servers, OpenNull(s) PROVE Handlers'
  BY <1>4 DEF OpenNull
<1>5. ASSUME NEW s \in Servers, Sigaction(s) PROVE Handlers'
  <2>1. CASE at[s] = "sigterm"
    BY <1>5, <2>1 DEF Sigaction
  <2>2. CASE at[s] = "sigint"
    BY <1>5, <2>2 DEF Sigaction
  <2>3. CASE at[s] = "sigalrm"
    BY <1>5, <2>3 DEF Sigaction
  <2>4. QED
    BY <1>5, <2>1, <2>2, <2>3 DEF Sigaction
<1>6. ASSUME NEW s \in Servers, Socket(s) PROVE Handlers'
  BY <1>6 DEF Socket
<1>7. ASSUME NEW s \in Servers, Bind(s) PROVE Handlers'
  BY <1>7 DEF Bind
<1>8. ASSUME NEW s \in Servers, Listen(s) PROVE Handlers'
  BY <1>8 DEF Listen
<1>9. ASSUME NEW s \in Servers, Prepare(s) PROVE Handlers'
  BY <1>9 DEF Prepare
<1>10. ASSUME NEW s \in Servers, SetTime(s) PROVE Handlers'
  BY <1>10 DEF SetTime
<1>11. ASSUME NEW s \in Servers, CallFails(s) PROVE Handlers'
  BY <1>11 DEF CallFails
<1>12. ASSUME NEW s \in Servers, OpenData(s) PROVE Handlers'
  BY <1>12 DEF OpenData
<1>13. ASSUME NEW s \in Servers, CloseData(s) PROVE Handlers'
  BY <1>13 DEF CloseData
<1>14. ASSUME NEW s \in Servers, LeaveLoop(s) PROVE Handlers'
  BY <1>14 DEF LeaveLoop
<1>15. ASSUME NEW s \in Servers, JoinThreads(s) PROVE Handlers'
  BY <1>15 DEF JoinThreads
<1>16. ASSUME NEW s \in Servers, CloseSocket(s) PROVE Handlers'
  BY <1>16 DEF CloseSocket
<1>17. ASSUME NEW s \in Servers, Remove(s) PROVE Handlers'
  BY <1>17 DEF Remove
<1>18. ASSUME NEW s \in Servers, NEW g \in {"TERM", "INT", "ALRM"},
             Signal(s, g), g \in handled[s]
       PROVE  Handlers'
  <2>1. UNCHANGED <<at, fd, handled, timer, bound, leftover>>
    BY <1>18 DEF Signal
  <2>2. QED
    BY <2>1
<1>19. ASSUME NEW s \in Servers, NEW how \in Ended,
             NEW result \in {"success", "failure", "killed"},
             EndsRightly(s, how, result)
       PROVE  Handlers'
  <2>1. at'[s] \in Ended /\ ~timer'[s] /\ s \notin bound'
    BY <1>19 DEF EndsRightly, Ends
  <2>2. \A d \in Descriptors : fd'[s][d] = "closed"
    BY <1>19 DEF EndsRightly, Ends
  <2>3. UNCHANGED <<handled, leftover>>
    BY <1>19 DEF EndsRightly, Ends
  <2>4. HandlersInv(s)'
    BY <2>1, <2>2, <2>3
  <2>5. ASSUME NEW r \in Servers, r # s PROVE HandlersInv(r)'
    BY <1>19, <2>5 DEF EndsRightly, Ends
  <2>6. QED
    BY <2>4, <2>5
<1>20. ASSUME NEW s \in Servers, BrokenPipe(s) \/ Crash(s) \/ Exit(s)
       PROVE  Handlers'
  <2> HIDE DEF ProcessInv, Ended, Types, Handlers
  <2>1. QED
    BY <1>19, <1>20, EndingSteps
<1>21. ASSUME NEW s \in Servers, NEW g \in {"TERM", "INT", "ALRM"},
             Signal(s, g), g \notin handled[s]
       PROVE  Handlers'
  <2> HIDE DEF ProcessInv, Ended, Types, Handlers
  <2>1. QED
    BY <1>19, <1>21, EndingSteps
<1>22. QED
  <2> HIDE DEF ProcessInv, Ended, Types, Handlers
  <2>1. QED
    BY <1>1, <1>2, <1>3, <1>4, <1>5, <1>6, <1>7, <1>8, <1>9, <1>10,
       <1>11, <1>12, <1>13, <1>14, <1>15, <1>16, <1>17, <1>18, <1>20, <1>21
    DEF Next, StartUpStep, LoopStep, CleanUpStep

\* The descriptors 0 to 2 are taken in turn, and only other descriptors become
\* the socket and the data file.
LEMMA StandardStep ==
  ASSUME ProcessInv, Next
  PROVE  Standard'
<1> USE NobodyAssumption, MaxFdAssumption
       DEF ProcessInv, Types, Standard, StandardInv, HasThreads,
           Opens, Unused, Closes, Releases, Descriptors,
           StartUp, SignalOf, Places, CleanUp, Ended, Listening
<1>1. ASSUME NEW s \in Servers, Start(s) PROVE Standard'
  <2>1. StandardInv(s)'
    BY <1>1 DEF Start, Status, StatusInv
  <2>2. ASSUME NEW r \in Servers, r # s PROVE StandardInv(r)'
    BY <1>1, <2>2 DEF Start
  <2>3. QED
    BY <2>1, <2>2
<1>2. ASSUME NEW s \in Servers, Fork(s) PROVE Standard'
  BY <1>2 DEF Fork
<1>3. ASSUME NEW s \in Servers, Detach(s) PROVE Standard'
  BY <1>3 DEF Detach
<1>4. ASSUME NEW s \in Servers, OpenNull(s) PROVE Standard'
  BY <1>4 DEF OpenNull
<1>5. ASSUME NEW s \in Servers, Sigaction(s) PROVE Standard'
  BY <1>5 DEF Sigaction
<1>6. ASSUME NEW s \in Servers, Socket(s) PROVE Standard'
  BY <1>6 DEF Socket
<1>7. ASSUME NEW s \in Servers, Bind(s) PROVE Standard'
  BY <1>7 DEF Bind
<1>8. ASSUME NEW s \in Servers, Listen(s) PROVE Standard'
  BY <1>8 DEF Listen
<1>9. ASSUME NEW s \in Servers, Prepare(s) PROVE Standard'
  BY <1>9 DEF Prepare
<1>10. ASSUME NEW s \in Servers, SetTime(s) PROVE Standard'
  BY <1>10 DEF SetTime
<1>11. ASSUME NEW s \in Servers, CallFails(s) PROVE Standard'
  <2>1. leftover[s] = "nothing"
    BY <1>11 DEF CallFails, Handlers, HandlersInv
  <2>2. QED
    BY <1>11, <2>1 DEF CallFails
<1>12. ASSUME NEW s \in Servers, OpenData(s) PROVE Standard'
  BY <1>12 DEF OpenData
<1>13. ASSUME NEW s \in Servers, CloseData(s) PROVE Standard'
  <2>1. at[s] \in {"serving", "join", "close", "remove", "exit"}
    BY <1>13 DEF CloseData, Handlers, HandlersInv
  <2>2. QED
    BY <1>13, <2>1 DEF CloseData
<1>14. ASSUME NEW s \in Servers, LeaveLoop(s) PROVE Standard'
  BY <1>14 DEF LeaveLoop
<1>15. ASSUME NEW s \in Servers, JoinThreads(s) PROVE Standard'
  BY <1>15 DEF JoinThreads
<1>16. ASSUME NEW s \in Servers, CloseSocket(s) PROVE Standard'
  BY <1>16 DEF CloseSocket
<1>17. ASSUME NEW s \in Servers, Remove(s) PROVE Standard'
  BY <1>17 DEF Remove
<1>18. ASSUME NEW s \in Servers, NEW g \in {"TERM", "INT", "ALRM"},
             Signal(s, g), g \in handled[s]
       PROVE  Standard'
  BY <1>18 DEF Signal
<1>19. ASSUME NEW s \in Servers, NEW how \in Ended,
             NEW result \in {"success", "failure", "killed"},
             EndsRightly(s, how, result)
       PROVE  Standard'
  BY <1>19 DEF EndsRightly, Ends
<1>20. ASSUME NEW s \in Servers, BrokenPipe(s) \/ Crash(s) \/ Exit(s)
       PROVE  Standard'
  <2> HIDE DEF ProcessInv, Ended, Types, Standard
  <2>1. QED
    BY <1>19, <1>20, EndingSteps
<1>21. ASSUME NEW s \in Servers, NEW g \in {"TERM", "INT", "ALRM"},
             Signal(s, g), g \notin handled[s]
       PROVE  Standard'
  <2> HIDE DEF ProcessInv, Ended, Types, Standard
  <2>1. QED
    BY <1>19, <1>21, EndingSteps
<1>22. QED
  <2> HIDE DEF ProcessInv, Ended, Types, Standard
  <2>1. QED
    BY <1>1, <1>2, <1>3, <1>4, <1>5, <1>6, <1>7, <1>8, <1>9, <1>10,
       <1>11, <1>12, <1>13, <1>14, <1>15, <1>16, <1>17, <1>18, <1>20, <1>21
    DEF Next, StartUpStep, LoopStep, CleanUpStep

\* ok is only set behind termination_flag, which is never reset.
LEMMA StatusStep ==
  ASSUME ProcessInv, Next
  PROVE  Status'
<1> USE NobodyAssumption, MaxFdAssumption
       DEF ProcessInv, Types, Status, StatusInv,
           Opens, Unused, Closes, Releases, Descriptors,
           StartUp, SignalOf, Places, CleanUp, Ended, Listening
<1>1. ASSUME NEW s \in Servers, Start(s) PROVE Status'
  BY <1>1 DEF Start
<1>2. ASSUME NEW s \in Servers, Fork(s) PROVE Status'
  BY <1>2 DEF Fork
<1>3. ASSUME NEW s \in Servers, Detach(s) PROVE Status'
  BY <1>3 DEF Detach
<1>4. ASSUME NEW s \in Servers, OpenNull(s) PROVE Status'
  BY <1>4 DEF OpenNull
<1>5. ASSUME NEW s \in Servers, Sigaction(s) PROVE Status'
  BY <1>5 DEF Sigaction
<1>6. ASSUME NEW s \in Servers, Socket(s) PROVE Status'
  BY <1>6 DEF Socket
<1>7. ASSUME NEW s \in Servers, Bind(s) PROVE Status'
  BY <1>7 DEF Bind
<1>8. ASSUME NEW s \in Servers, Listen(s) PROVE Status'
  BY <1>8 DEF Listen
<1>9. ASSUME NEW s \in Servers, Prepare(s) PROVE Status'
  BY <1>9 DEF Prepare
<1>10. ASSUME NEW s \in Servers, SetTime(s) PROVE Status'
  BY <1>10 DEF SetTime
<1>11. ASSUME NEW s \in Servers, CallFails(s) PROVE Status'
  BY <1>11 DEF CallFails
<1>12. ASSUME NEW s \in Servers, OpenData(s) PROVE Status'
  BY <1>12 DEF OpenData
<1>13. ASSUME NEW s \in Servers, CloseData(s) PROVE Status'
  BY <1>13 DEF CloseData
<1>14. ASSUME NEW s \in Servers, LeaveLoop(s) PROVE Status'
  BY <1>14 DEF LeaveLoop
<1>15. ASSUME NEW s \in Servers, JoinThreads(s) PROVE Status'
  BY <1>15 DEF JoinThreads
<1>16. ASSUME NEW s \in Servers, CloseSocket(s) PROVE Status'
  BY <1>16 DEF CloseSocket
<1>17. ASSUME NEW s \in Servers, Remove(s) PROVE Status'
  BY <1>17 DEF Remove
<1>18. ASSUME NEW s \in Servers, NEW g \in {"TERM", "INT", "ALRM"},
             Signal(s, g), g \in handled[s]
       PROVE  Status'
  <2>1. ASSUME NEW r \in Servers, termination_flag[r]
        PROVE  termination_flag'[r]
    BY <1>18, <2>1 DEF Signal
  <2>2. UNCHANGED <<at, daemon, ok, status>>
    BY <1>18 DEF Signal
  <2>3. QED
    BY <2>1, <2>2
<1>19. ASSUME NEW s \in Servers, NEW how \in Ended,
             NEW result \in {"success", "failure", "killed"},
             EndsRightly(s, how, result)
       PROVE  Status'
  <2>1. UNCHANGED <<daemon, ok, termination_flag>>
    BY <1>19 DEF EndsRightly, Ends
  <2>2. at' = [at EXCEPT ![s] = how] /\ at[s] # "exited"
    BY <1>19 DEF EndsRightly, Ends, Alive
  <2>3. \A r \in Servers : status'[r] = "success" =>
          \/ status[r] = "success"
          \/ r = s /\ how = "exited" /\ ok[s]
    BY <1>19 DEF EndsRightly, Ends
  <2>4. QED
    BY <2>1, <2>2, <2>3
<1>20. ASSUME NEW s \in Servers, BrokenPipe(s) \/ Crash(s) \/ Exit(s)
       PROVE  Status'
  <2> HIDE DEF ProcessInv, Ended, Types, Status
  <2>1. QED
    BY <1>19, <1>20, EndingSteps
<1>21. ASSUME NEW s \in Servers, NEW g \in {"TERM", "INT", "ALRM"},
             Signal(s, g), g \notin handled[s]
       PROVE  Status'
  <2> HIDE DEF ProcessInv, Ended, Types, Status
  <2>1. QED
    BY <1>19, <1>21, EndingSteps
<1>22. QED
  <2> HIDE DEF ProcessInv, Ended, Types, Status
  <2>1. QED
    BY <1>1, <1>2, <1>3, <1>4, <1>5, <1>6, <1>7, <1>8, <1>9, <1>10,
       <1>11, <1>12, <1>13, <1>14, <1>15, <1>16, <1>17, <1>18, <1>20, <1>21
    DEF Next, StartUpStep, LoopStep, CleanUpStep

\* The file has a server that removes it later, as it cannot be killed.
LEMMA FileStep ==
  ASSUME ProcessInv, Next
  PROVE  FileInv'
<1> USE NobodyAssumption, MaxFdAssumption
       DEF ProcessInv, Types, FileInv, Handlers, HandlersInv, Caught, HasThreads,
           Opens, Unused, Closes, Releases, Descriptors,
           StartUp, SignalOf, Places, CleanUp, Ended, Listening
<1>1. ASSUME NEW s \in Servers, Start(s) PROVE FileInv'
  BY <1>1 DEF Start
<1>2. ASSUME NEW s \in Servers, Fork(s) PROVE FileInv'
  BY <1>2 DEF Fork
<1>3. ASSUME NEW s \in Servers, Detach(s) PROVE FileInv'
  BY <1>3 DEF Detach
<1>4. ASSUME NEW s \in Servers, OpenNull(s) PROVE FileInv'
  BY <1>4 DEF OpenNull
<1>5. ASSUME NEW s \in Servers, Sigaction(s) PROVE FileInv'
  BY <1>5 DEF Sigaction
<1>6. ASSUME NEW s \in Servers, Socket(s) PROVE FileInv'
  BY <1>6 DEF Socket
<1>7. ASSUME NEW s \in Servers, Bind(s) PROVE FileInv'
  BY <1>7 DEF Bind
<1>8. ASSUME NEW s \in Servers, Listen(s) PROVE FileInv'
  BY <1>8 DEF Listen
<1>9. ASSUME NEW s \in Servers, Prepare(s) PROVE FileInv'
  BY <1>9 DEF Prepare
<1>10. ASSUME NEW s \in Servers, SetTime(s) PROVE FileInv'
  BY <1>10 DEF SetTime
<1>11. ASSUME NEW s \in Servers, CallFails(s) PROVE FileInv'
  BY <1>11 DEF CallFails
<1>12. ASSUME NEW s \in Servers, OpenData(s) PROVE FileInv'
  BY <1>12 DEF OpenData
<1>13. ASSUME NEW s \in Servers, CloseData(s) PROVE FileInv'
  BY <1>13 DEF CloseData
<1>14. ASSUME NEW s \in Servers, LeaveLoop(s) PROVE FileInv'
  BY <1>14 DEF LeaveLoop
<1>15. ASSUME NEW s \in Servers, JoinThreads(s) PROVE FileInv'
  BY <1>15 DEF JoinThreads
<1>16. ASSUME NEW s \in Servers, CloseSocket(s) PROVE FileInv'
  BY <1>16 DEF CloseSocket
<1>17. ASSUME NEW s \in Servers, Remove(s) PROVE FileInv'
  BY <1>17 DEF Remove
<1>18. ASSUME NEW s \in Servers, NEW g \in {"TERM", "INT", "ALRM"},
             Signal(s, g), g \in handled[s]
       PROVE  FileInv'
  <2>1. UNCHANGED <<at, handled, leftover, file>>
    BY <1>18 DEF Signal
  <2>2. QED
    BY <2>1
<1>19. ASSUME NEW s \in Servers, NEW how \in Ended,
             NEW result \in {"success", "failure", "killed"},
             EndsRightly(s, how, result)
       PROVE  FileInv'
  <2>1. UNCHANGED <<handled, leftover, file>> /\ at' = [at EXCEPT ![s] = how]
    BY <1>19 DEF EndsRightly, Ends
  <2>2. how = "killed" => ~Caught(s)
    BY <1>19 DEF EndsRightly
  <2>3. how = "exited" => at[s] = "exit"
    BY <1>19 DEF EndsRightly
  <2>4. at[s] \notin {"broken_pipe", "crashed"}
    BY <1>19 DEF EndsRightly, Alive
  <2>5. QED
    BY <2>1, <2>2, <2>3, <2>4
<1>20. ASSUME NEW s \in Servers, BrokenPipe(s) \/ Crash(s) \/ Exit(s)
       PROVE  FileInv'
  <2> HIDE DEF ProcessInv, Ended, Types, FileInv, Handlers
  <2>1. QED
    BY <1>19, <1>20, EndingSteps
<1>21. ASSUME NEW s \in Servers, NEW g \in {"TERM", "INT", "ALRM"},
             Signal(s, g), g \notin handled[s]
       PROVE  FileInv'
  <2> HIDE DEF ProcessInv, Ended, Types, FileInv, Handlers
  <2>1. QED
    BY <1>19, <1>21, EndingSteps
<1>22. QED
  <2> HIDE DEF ProcessInv, Ended, Types, FileInv, Handlers
  <2>1. QED
    BY <1>1, <1>2, <1>3, <1>4, <1>5, <1>6, <1>7, <1>8, <1>9, <1>10,
       <1>11, <1>12, <1>13, <1>14, <1>15, <1>16, <1>17, <1>18, <1>20, <1>21
    DEF Next, StartUpStep, LoopStep, CleanUpStep

-----------------------------------------------------------------------------
\* The invariant holds before any process is started.
LEMMA ProcessInit ==
  ASSUME Init
  PROVE  ProcessInv
<1> USE NobodyAssumption, MaxFdAssumption
       DEF Init, Places, Listening, Descriptors
<1>1. Types
  BY DEF Types
<1>2. PortInv
  BY DEF PortInv
<1>3. Handlers
  BY DEF Handlers, HandlersInv, Has
<1>4. Standard /\ Status /\ FileInv
  BY DEF Standard, StandardInv, Status, StatusInv, FileInv
<1>5. QED
  BY <1>1, <1>2, <1>3, <1>4 DEF ProcessInv

\* The invariant of the server processes: it holds in every state.
THEOREM ProcessInvariant == Spec => []ProcessInv
<1>1. Init => ProcessInv
  BY ProcessInit
<1>2. ProcessInv /\ [Next]_vars => ProcessInv'
  <2>1. CASE Next
    BY <2>1, TypesStep, PortStep, HandlersStep, StandardStep, StatusStep,
       FileStep DEF ProcessInv
  <2>2. CASE UNCHANGED vars
    <3>1. UNCHANGED <<at, daemon, fd, handled, timer, termination_flag, ok,
                      leftover, status, bound, listener, file>>
      BY <2>2 DEF vars
    <3>2. QED
      BY <3>1 DEF ProcessInv, Types, PortInv, Handlers, HandlersInv, Standard,
                  StandardInv, Status, StatusInv, FileInv, Caught, Has
  <2>3. QED
    BY <2>1, <2>2
<1>3. QED
  BY <1>1, <1>2, PTL DEF Spec

\* However many times the program is started, at most one server serves: bind()
\* and listen() let a second one through only before the first listens.
THEOREM OneServer == Spec => []OneServes
<1>1. ProcessInv => OneServes
  BY DEF ProcessInv, PortInv, Listening, OneServes
<1>2. QED
  BY <1>1, ProcessInvariant, PTL

\* What syslog writes to the standard error of a daemon gets neither into the
\* data file nor to a client: /dev/null is duplicated before they are opened.
THEOREM LogKeptOut == Spec => []LogStaysOut
<1>1. ProcessInv => LogStaysOut
  BY DEF ProcessInv, Standard, StandardInv, LogStaysOut
<1>2. QED
  BY <1>1, ProcessInvariant, PTL

\* When all processes have ended, the port is given up, and so is the data file
\* unless SIGPIPE or the clean-up killed a server before its remove(), or one had
\* a thread it could not join: any other server with either has its handlers,
\* and so gets to the end of mainloop.
THEOREM NothingStays == Spec => []NothingLeft
<1>1. ProcessInv => NothingLeft
  BY DEF ProcessInv, Types, FileInv, Handlers, HandlersInv, NothingLeft, Alive,
         Ended, Listening
<1>2. QED
  BY <1>1, ProcessInvariant, PTL

\* In the foreground success means an orderly stop after a signal.
THEOREM SuccessMeansStopped == Spec => []SuccessIsAStop
<1>1. ProcessInv => SuccessIsAStop
  BY DEF ProcessInv, Status, StatusInv, SuccessIsAStop
<1>2. QED
  BY <1>1, ProcessInvariant, PTL

\* SIGTERM, SIGINT and SIGALRM kill only a process without port, data file and
\* timer: mainloop installs their handlers first.
THEOREM SignalsAreCaught == Spec => SignalsCaught
<1> DEFINE Clean ==
      \A s \in Servers :
        at[s] # "killed" /\ at'[s] = "killed" =>
          s \notin bound /\ ~Has(s, "data") /\ ~timer[s]
<1>1. ProcessInv /\ [Next]_vars => [Clean]_vars
  <2> SUFFICES ASSUME ProcessInv, Next PROVE Clean
    OBVIOUS
  <2> SUFFICES ASSUME NEW s \in Servers, at[s] # "killed", at'[s] = "killed"
               PROVE  s \notin bound /\ ~Has(s, "data") /\ ~timer[s]
    OBVIOUS
  <2>1. \E g \in {"TERM", "INT", "ALRM"} : Signal(s, g) /\ g \notin handled[s]
    <3>1. PICK r \in Servers :
            \/ Start(r) \/ StartUpStep(r) \/ LoopStep(r) \/ CleanUpStep(r)
            \/ \E g \in {"TERM", "INT", "ALRM"} : Signal(r, g)
      BY DEF Next
    <3> USE DEF ProcessInv, Types
    <3>2. CASE Start(r)
      BY <3>2 DEF Start
    <3>3. CASE StartUpStep(r)
      BY <3>3 DEF StartUpStep, Fork, Detach, OpenNull, Sigaction, SignalOf,
                  Socket, Bind, Listen, Prepare, SetTime, CallFails, StartUp
    <3>4. CASE LoopStep(r)
      BY <3>4 DEF LoopStep, OpenData, CloseData, BrokenPipe, Ends, LeaveLoop
    <3>5. CASE CleanUpStep(r)
      BY <3>5 DEF CleanUpStep, JoinThreads, CloseSocket, Remove, Exit, Crash, Ends
    <3>6. CASE \E g \in {"TERM", "INT", "ALRM"} : Signal(r, g)
      BY <3>6 DEF Signal, Ends
    <3>7. QED
      BY <3>1, <3>2, <3>3, <3>4, <3>5, <3>6
  <2>2. HandlersInv(s)
    BY DEF ProcessInv, Handlers
  <2>3. ~Caught(s)
    BY <2>1, <2>2 DEF HandlersInv, Caught, Signal
  <2>4. QED
    BY <2>2, <2>3 DEF HandlersInv, Listening
<1>2. QED
  BY <1>1, ProcessInvariant, PTL DEF Spec, SignalsCaught

=============================================================================

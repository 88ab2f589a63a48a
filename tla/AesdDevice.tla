----------------------------- MODULE AesdDevice -----------------------------
(***************************************************************************)
(* What the aesdchar device promises the programs that open it, without    *)
(* the ring, the heap and the pointers of the driver: it remembers the     *)
(* last Depth newline-terminated commands and the command being written,   *)
(* and shows them as one text.  A character other than the terminator is   *)
(* the file that wrote it, so that one can see whose characters are where. *)
(***************************************************************************)
EXTENDS Integers, SequencesExt

CONSTANTS
  Files,        \* open files
  Depth,        \* commands remembered
  Terminator,   \* the newline
  Errnos,       \* how a call may fail
  MaxRequest    \* longest read or write (the length of a request is finite)

VARIABLES
  log,        \* the finished commands, oldest first
  partial,    \* the command being written, not terminated yet
  open,       \* the files in use
  f_pos,      \* where each file reads
  reply       \* what the last call returned, with the bytes if it was a read

devVars == <<log, partial, open, f_pos, reply>>

Ok(n)             == [ret |-> n]
Error(code)       == [ret |-> -code]
Characters(bytes) == [ret |-> Len(bytes), data |-> bytes]

Commands == FlattenSeq(log)
Text     == Commands \o partial

Remembered(commands) ==
  IF Len(commands) > Depth THEN Tail(commands) ELSE commands

Init ==
  /\ log = <<>> /\ partial = <<>>
  /\ open = {} /\ f_pos = [f \in Files |-> 0]
  /\ reply = Ok(0)

Open(f) ==
  /\ f \notin open
  /\ open' = open \cup {f}
  /\ f_pos' = [f_pos EXCEPT ![f] = 0]
  /\ reply' = Ok(0)
  /\ UNCHANGED <<log, partial>>

Close(f) ==
  /\ f \in open
  /\ open' = open \ {f}
  /\ f_pos' = [f_pos EXCEPT ![f] = 0]
  /\ reply' = Ok(0)
  /\ UNCHANGED <<log, partial>>

Written(f, n) == [i \in 1 .. n |-> f]

\* Characters without the terminator are added to the unfinished command.
WriteSome(f, n) ==
  /\ f \in open
  /\ f_pos' = [f_pos EXCEPT ![f] = @ + n]
  /\ reply' = Ok(n)
  /\ partial' = partial \o Written(f, n)
  /\ UNCHANGED <<log, open>>

\* The terminator finishes the command: it is now one entry, made of what all
\* the writers wrote since the last terminator.
WriteEnd(f, n) ==
  /\ f \in open
  /\ f_pos' = [f_pos EXCEPT ![f] = @ + n]
  /\ reply' = Ok(n)
  /\ partial' = <<>>
  /\ log' = Remembered(Append(log,
                partial \o Append(Written(f, n - 1), Terminator)))
  /\ UNCHANGED open

\* A read returns the text at the file's position: at least one byte when there
\* is one to return, and never a byte that is not the text's.
Read(f, count) ==
  /\ f \in open
  /\ IF f_pos[f] >= Len(Text)
     THEN reply' = Characters(<<>>) /\ UNCHANGED f_pos
     ELSE \E n \in 1 .. count :
            /\ f_pos' = [f_pos EXCEPT ![f] = @ + n]
            /\ f_pos[f] + n <= Len(Text)
            /\ reply' = Characters(SubSeq(Text, f_pos[f] + 1, f_pos[f] + n))
  /\ UNCHANGED <<log, partial, open>>

\* A seek lands inside the finished commands or at their end; a seek by zero
\* from the current position stays wherever the file is.
Seek(f) ==
  /\ f \in open
  /\ reply' = Ok(f_pos'[f])
  /\ \E target \in (0 .. Len(Commands)) \cup {f_pos[f]} :
       f_pos' = [f_pos EXCEPT ![f] = target]
  /\ UNCHANGED <<log, partial, open>>

\* A call that fails changes nothing.
Fail(f, code) ==
  /\ f \in open
  /\ reply' = Error(code)
  /\ UNCHANGED <<log, partial, open, f_pos>>

\* Unloading the module, possible only when no file is open, forgets all.
Unload ==
  /\ open = {}
  /\ log' = <<>> /\ partial' = <<>>
  /\ UNCHANGED <<open, f_pos, reply>>

Next ==
  \/ \E f \in Files :
       \/ Open(f) \/ Close(f)
       \/ \E n \in 1 .. MaxRequest : WriteSome(f, n) \/ WriteEnd(f, n)
       \/ \E count \in 1 .. MaxRequest : Read(f, count)
       \/ Seek(f)
       \/ \E code \in Errnos : Fail(f, code)
  \/ Unload

Spec == Init /\ [][Next]_devVars

=============================================================================

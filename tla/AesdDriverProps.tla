-------------------------- MODULE AesdDriverProps ---------------------------
(***************************************************************************)
(* What the aesdchar driver guarantees: to its callers (AesdDevice), and   *)
(* to the kernel whose memory it uses.                                     *)
(***************************************************************************)
EXTENDS AesdDriver

Entries == [buffptr : Blocks, size : Nat]

\* The driver's state has its type, and the ring is in order.
TypeOK ==
  /\ {loaded, wedged} \subseteq BOOLEAN
  /\ InOrder(buffer, Entries)
  /\ unterminated_buffptr \in Blocks \cup {NULL}
  /\ unterminated_size \in Nat
  /\ heap \in [Blocks -> {Free} \cup Seq(Bytes)]
  /\ open \subseteq Files
  /\ f_pos \in [Files -> Nat]
  /\ reply \in [ret : Int] \cup [ret : Nat, data : Seq(Bytes)]

\* The entries by age, each with its own block.
DeviceLog == Log(buffer)
BlocksInUse == {DeviceLog[k].buffptr : k \in DOMAIN DeviceLog}
                 \cup ({unterminated_buffptr} \ {NULL})

\* Every block belongs to one owner: the ring's entries and the unterminated
\* buffer point to different, allocated blocks of the sizes they record.  So
\* the kfree of a replaced entry and those of aesd_cleanup_module never free a
\* block twice and never free one that is still read.
BlocksOwned ==
  loaded =>
    /\ \A k \in DOMAIN DeviceLog :
         /\ heap[DeviceLog[k].buffptr] # Free
         /\ Len(heap[DeviceLog[k].buffptr]) = DeviceLog[k].size
         /\ DeviceLog[k].buffptr # unterminated_buffptr
    /\ \A j, k \in DOMAIN DeviceLog :
         j # k => DeviceLog[j].buffptr # DeviceLog[k].buffptr
    /\ unterminated_buffptr # NULL =>
         /\ heap[unterminated_buffptr] # Free
         /\ Len(heap[unterminated_buffptr]) = unterminated_size

\* No block is lost: what is allocated is what the device still points to, and
\* nothing is left after the module is unloaded.
NoLeak ==
  \A b \in Blocks : heap[b] # Free => loaded /\ b \in BlocksInUse

-----------------------------------------------------------------------------
EntryText(entry) == SubSeq(heap[entry.buffptr], 1, entry.size)

\* What the driver keeps of the commands, as texts.
DeviceCommands ==
  IF loaded THEN [k \in DOMAIN DeviceLog |-> EntryText(DeviceLog[k])]
  ELSE <<>>
DevicePart ==
  IF loaded /\ unterminated_buffptr # NULL THEN heap[unterminated_buffptr]
  ELSE <<>>

Device == INSTANCE AesdDevice
  WITH Depth   <- Capacity,
       Errnos  <- {ENOMEM, EFAULT, EINVAL, ENOTTY, ERESTARTSYS},
       log     <- DeviceCommands,
       partial <- DevicePart

\* Seen through the mapping the driver is the device of AesdDevice: whatever
\* the writers interleave, a command is all that was written since the last
\* newline, readers get the text at their position and nothing else, seeks land
\* inside it, and a call that fails changes nothing.
ImplementsDevice == Device!Spec

\* AESDCHAR_IOCSEEKTO moves to the given offset of the given "zero referenced
\* write command" if that exists, and otherwise moves nowhere.
SeekToCommand ==
  [][\A f \in Files, k \in SeekCommands, j \in 0 .. MaxRequest :
       SeekTo(f, k, j) =>
         IF k < Len(DeviceLog) /\ j < DeviceLog[k + 1].size
         THEN f_pos'[f] = SizeOfFirst(buffer, k) + j
         ELSE UNCHANGED f_pos]_vars

\* Every entry is one finished command: its last character is the terminator,
\* no other is, and the unterminated buffer holds none.
OneCommandPerEntry ==
  loaded =>
    /\ \A k \in DOMAIN DeviceLog :
         LET text == EntryText(DeviceLog[k])
         IN  \A i \in 1 .. Len(text) : text[i] = Terminator <=> i = Len(text)
    /\ unterminated_buffptr # NULL =>
         ~Contains(heap[unterminated_buffptr], Terminator)

\* An entry of size n holds n characters that were written to the device
\* ("Number of bytes stored in buffptr").
EntriesWritten ==
  loaded => \A k \in DOMAIN DeviceLog :
              ~Contains(EntryText(DeviceLog[k]), Garbage)

=============================================================================

----------------------------- MODULE AesdDriver -----------------------------
(***************************************************************************)
(* The aesdchar driver (aesd-char-driver/main.c): the file operations on   *)
(* struct aesd_dev, with the kernel heap they allocate from.               *)
(*                                                                         *)
(* Every file operation takes dev->lock first and keeps it to its end, so  *)
(* one call is one step.  What another call can see between two of them is *)
(* the device: the ring of finished entries, the unterminated buffer, the  *)
(* blocks both point to, and the f_pos of each open file.                  *)
(*                                                                         *)
(* A character is the file that wrote it, the terminator, or garbage: what *)
(* a fresh block holds.  A block is kept as the characters the driver      *)
(* counts in it (an entry's size, or unterminated_size); the rest of a     *)
(* kmalloc block is never read before it is overwritten.  krealloc moving  *)
(* a block is not told from its growing in place: no other pointer to the  *)
(* block exists.  Requests are shorter than MSG_MAX_LEN, the length of the *)
(* debug copies msg_buffer.                                                *)
(***************************************************************************)
EXTENDS CircularBuffer, SequencesExt

CONSTANTS
  Files,             \* struct file objects
  Blocks,            \* addresses krealloc may return
  Free,              \* the content of a block not allocated
  Terminator, Garbage,
  SeekCommands,      \* the write_cmd arguments of AESDCHAR_IOCSEEKTO
  SeekOffsets,       \* the offset arguments of llseek
  MaxRequest,        \* bound: the longest read or write
  MaxUnterminated,   \* bound: the longest unterminated buffer
  MaxPos,            \* bound: the largest f_pos a write leaves
  KreallocMayFail,   \* may krealloc return NULL
  CopyMayFault,      \* may copy_from_user, copy_to_user and get_user fail
  Interruptible      \* may a signal end the wait for dev->lock

ASSUME BoundsAssumption ==
  /\ MaxRequest \in Nat /\ MaxUnterminated \in Nat /\ MaxPos \in Nat
  /\ SeekCommands \subseteq Nat /\ SeekOffsets \subseteq Int
ASSUME FailuresAssumption ==
  {KreallocMayFail, CopyMayFault, Interruptible} \subseteq BOOLEAN

\* The characters of the model are told apart, an address is not NULL, and the
\* content of a free block is no text.
Bytes == Files \cup {Terminator, Garbage}
ASSUME ValuesAssumption ==
  /\ Terminator \notin Files \cup {Garbage} /\ Garbage \notin Files
  /\ NULL \notin Blocks
  /\ Free \notin Seq(Bytes)

VARIABLES
  loaded,                 \* between aesd_init_module and aesd_cleanup_module
  buffer,                 \* the fields of struct aesd_dev
  unterminated_buffptr,
  unterminated_size,
  wedged,                 \* dev->lock is held by a task that died holding it
  heap,                   \* what each block holds, or Free
  open,                   \* the files between aesd_open and aesd_release
  f_pos,                  \* filp->f_pos
  reply                   \* what the last call returned, and a read copied out

device == <<buffer, unterminated_buffptr, unterminated_size, heap>>
vars == <<loaded, device, wedged, open, f_pos, reply>>

Ok(n)            == [ret |-> n]
Error(code)      == [ret |-> -code]
Characters(data) == [ret |-> Len(data), data |-> data]

\* The error numbers of Linux.
ENOMEM == 12
EFAULT == 14
EINVAL == 22
ENOTTY == 25
ERESTARTSYS == 512

\* A file operation gets as far as its critical section.
Locks(f) == f \in open /\ ~wedged

-----------------------------------------------------------------------------
(* Module and file life cycle *)

\* The module is loaded with an empty device: memset and
\* aesd_circular_buffer_init.
Init ==
  /\ loaded = TRUE
  /\ buffer = InitBuffer
  /\ unterminated_buffptr = NULL /\ unterminated_size = 0
  /\ wedged = FALSE
  /\ heap = [b \in Blocks |-> Free]
  /\ open = {} /\ f_pos = [f \in Files |-> 0]
  /\ reply = Ok(0)

\* aesd_init_module, on a module loaded again.  (When registering the device
\* fails the module is not loaded: no step.)
Load ==
  /\ ~loaded
  /\ loaded' = TRUE
  /\ buffer' = InitBuffer
  /\ unterminated_buffptr' = NULL /\ unterminated_size' = 0
  /\ wedged' = FALSE
  /\ UNCHANGED <<heap, open, f_pos, reply>>

EntryPointers ==
  {buffer.entry[i].buffptr : i \in Offsets} \ {NULL}

\* Mutant: the unterminated buffer is forgotten.
CleanupEntries ==
  /\ loaded /\ open = {}
  /\ loaded' = FALSE
  /\ heap' = [b \in Blocks |-> IF b \in EntryPointers THEN Free ELSE heap[b]]
  /\ UNCHANGED <<buffer, unterminated_buffptr, unterminated_size, wedged,
                 open, f_pos, reply>>

\* aesd_cleanup_module: free the unterminated buffer and every entry.  The
\* module (.owner) cannot be unloaded while a file is open.
Cleanup ==
  /\ loaded /\ open = {}
  /\ loaded' = FALSE
  /\ heap' = [b \in Blocks |->
                IF b \in EntryPointers \cup {unterminated_buffptr}
                THEN Free ELSE heap[b]]
  /\ UNCHANGED <<buffer, unterminated_buffptr, unterminated_size, wedged,
                 open, f_pos, reply>>

\* aesd_open
Open(f) ==
  /\ loaded /\ f \notin open
  /\ open' = open \cup {f}
  /\ f_pos' = [f_pos EXCEPT ![f] = 0]
  /\ reply' = Ok(0)
  /\ UNCHANGED <<loaded, device, wedged>>

\* aesd_release; also how the files of a task that died are closed.  f_pos goes
\* with the struct file.
Release(f) ==
  /\ f \in open
  /\ open' = open \ {f}
  /\ f_pos' = [f_pos EXCEPT ![f] = 0]
  /\ reply' = Ok(0)
  /\ UNCHANGED <<loaded, device, wedged>>

\* mutex_lock_interruptible returns early, in any of the file operations; it
\* does so also when dev->lock will never be released.
Interrupted(f) ==
  /\ Interruptible
  /\ f \in open
  /\ reply' = Error(ERESTARTSYS)
  /\ UNCHANGED <<loaded, device, wedged, open, f_pos>>

-----------------------------------------------------------------------------
(* aesd_read *)

\* Copy at most count characters, and at least one (a read of none is left out),
\* from the given byte of a block.  A NULL block is dereferenced: the task dies
\* in the kernel and never unlocks dev->lock.  The strncpy of the characters into
\* msg_buffer, for a log line, is left out: it is bounded by the request and not
\* by MSG_MAX_LEN (100), so the model is that of shorter requests.
CopyOut(f, block, byte, size, count) ==
  LET final_count == Min({count, size - byte})
  IN  \/ /\ block # NULL
         /\ f_pos' = [f_pos EXCEPT ![f] = @ + final_count]
         /\ reply' =
              Characters(SubSeq(heap[block], byte + 1, byte + final_count))
         /\ UNCHANGED wedged
      \/ /\ block # NULL /\ CopyMayFault
         /\ reply' = Error(EFAULT)
         /\ UNCHANGED <<f_pos, wedged>>
      \/ /\ block = NULL
         /\ wedged' = TRUE
         /\ UNCHANGED <<f_pos, reply>>

\* Mutant: the position is looked for in the ring only.
ReadEntriesOnly(f, count) ==
  LET found == FindEntryOffsetForFpos(buffer, f_pos[f])
      entry == buffer.entry[found.offset]
  IN  /\ Locks(f)
      /\ \/ /\ found.found
            /\ CopyOut(f, entry.buffptr, found.byte, entry.size, count)
         \/ /\ ~found.found
            /\ reply' = Characters(<<>>)
            /\ UNCHANGED <<f_pos, wedged>>
      /\ UNCHANGED <<loaded, device, open>>

\* The position is looked for in the ring, and past the ring in the
\* unterminated buffer; past that there is nothing to read.
Read(f, count) ==
  LET found  == FindEntryOffsetForFpos(buffer, f_pos[f])
      entry  == buffer.entry[found.offset]
      beyond == f_pos[f] - BufferSize(buffer)
  IN  /\ Locks(f)
      /\ \/ /\ found.found
            /\ CopyOut(f, entry.buffptr, found.byte, entry.size, count)
         \/ /\ ~found.found /\ beyond < unterminated_size
            /\ CopyOut(f, unterminated_buffptr, beyond,
                       unterminated_size, count)
         \/ /\ ~found.found /\ beyond >= unterminated_size
            /\ reply' = Characters(<<>>)
            /\ UNCHANGED <<f_pos, wedged>>
      /\ UNCHANGED <<loaded, device, open>>

-----------------------------------------------------------------------------
(* aesd_write *)

\* krealloc: the block the unterminated characters are in afterwards.
FreeBlocks == {b \in Blocks : heap[b] = Free}
Reallocated ==
  IF unterminated_buffptr = NULL THEN CHOOSE b \in FreeBlocks : TRUE
                                 ELSE unterminated_buffptr
CanReallocate == unterminated_buffptr # NULL \/ FreeBlocks # {}

\* What it holds in its first unterminated_size characters.
Kept ==
  IF unterminated_buffptr = NULL
  THEN [i \in 1 .. unterminated_size |-> Garbage]
  ELSE heap[unterminated_buffptr]

\* The first count characters of the user's buffer, the terminator (if any) at
\* terminator_position.
UserData(f, count, terminator_position) ==
  [i \in 1 .. count |-> IF i - 1 = terminator_position THEN Terminator ELSE f]

\* An empty request is refused with the initial -ENOMEM.
WriteNothing(f) ==
  /\ Locks(f)
  /\ reply' = Error(ENOMEM)
  /\ UNCHANGED <<loaded, device, wedged, open, f_pos>>

\* Mutant: the block is freed when krealloc fails, and still pointed to.
WriteNoMemoryDangling(f) ==
  /\ Locks(f) /\ KreallocMayFail
  /\ heap' = [b \in Blocks |-> IF b = unterminated_buffptr THEN Free
                                                          ELSE heap[b]]
  /\ reply' = Error(ENOMEM)
  /\ UNCHANGED <<loaded, buffer, unterminated_buffptr, unterminated_size,
                 wedged, open, f_pos>>

\* krealloc fails: its NULL replaces the pointer to the block, which is still
\* allocated; unterminated_size stays.
WriteNoMemory(f) ==
  /\ Locks(f) /\ KreallocMayFail
  /\ unterminated_buffptr' = NULL
  /\ reply' = Error(ENOMEM)
  /\ UNCHANGED <<loaded, buffer, unterminated_size, heap, wedged, open, f_pos>>

\* copy_from_user fails after krealloc: the block is freed when it holds no
\* earlier characters, and kept for the next write when it does.
WriteFault(f) ==
  /\ Locks(f) /\ CopyMayFault /\ CanReallocate
  /\ unterminated_buffptr' = IF unterminated_size = 0 THEN NULL
                                                      ELSE Reallocated
  /\ heap' = [heap EXCEPT ![Reallocated] =
                IF unterminated_size = 0 THEN Free ELSE Kept]
  /\ reply' = Error(EFAULT)
  /\ UNCHANGED <<loaded, buffer, unterminated_size, wedged, open, f_pos>>

\* No terminator: the characters join the unterminated buffer.  Their strncpy
\* into msg_buffer is left out, as in CopyOut.
WriteSome(f, count) ==
  /\ Locks(f) /\ CanReallocate
  /\ unterminated_size + count <= MaxUnterminated
  /\ f_pos[f] + count <= MaxPos
  /\ unterminated_buffptr' = Reallocated
  /\ unterminated_size' = unterminated_size + count
  /\ heap' = [heap EXCEPT ![Reallocated] = Kept \o UserData(f, count, -1)]
  /\ f_pos' = [f_pos EXCEPT ![f] = @ + count]
  /\ reply' = Ok(count)
  /\ UNCHANGED <<loaded, buffer, wedged, open>>

\* The device after final_count characters have become an entry: the entry
\* takes over the block, and the block of an entry it replaces in the ring is
\* freed.
EndCommand(f, final_count, terminator_position) ==
  LET entry == [buffptr |-> Reallocated,
                size |-> unterminated_size + final_count]
      text  == Kept \o UserData(f, final_count, terminator_position)
  IN  /\ buffer' = AddEntry(buffer, entry)
      /\ heap' = [b \in Blocks |-> CASE b = Reallocated      -> text
                                     [] b = Replaced(buffer) -> Free
                                     [] OTHER                -> heap[b]]
      /\ unterminated_buffptr' = NULL
      /\ unterminated_size' = 0

\* Mutant: the characters behind the terminator go into the entry too.
WriteCommandAll(f, count, terminator_position) ==
  /\ Locks(f) /\ CanReallocate
  /\ f_pos[f] + count <= MaxPos
  /\ EndCommand(f, count, terminator_position)
  /\ f_pos' = [f_pos EXCEPT ![f] = @ + count]
  /\ reply' = Ok(count)
  /\ UNCHANGED <<loaded, wedged, open>>

\* Characters behind the first terminator are left to the caller to write
\* again (a short count is returned).
WriteCommand(f, count, terminator_position) ==
  LET final_count == terminator_position + 1
  IN  /\ Locks(f) /\ CanReallocate
      /\ f_pos[f] + final_count <= MaxPos
      /\ EndCommand(f, final_count, terminator_position)
      /\ f_pos' = [f_pos EXCEPT ![f] = @ + final_count]
      /\ reply' = Ok(final_count)
      /\ UNCHANGED <<loaded, wedged, open>>

Write(f) ==
  \/ WriteNothing(f)
  \/ WriteNoMemory(f)
  \/ WriteFault(f)
  \/ \E count \in 1 .. MaxRequest :
       \/ WriteSome(f, count)
       \/ \E terminator_position \in 0 .. count - 1 :
            WriteCommand(f, count, terminator_position)

-----------------------------------------------------------------------------
(* aesd_llseek and aesd_ioctl *)

\* fixed_size_llseek (Linux): the target must lie in 0 .. size.
SetPosition(f, target, size) ==
  IF target \in 0 .. size
  THEN /\ f_pos' = [f_pos EXCEPT ![f] = target]
       /\ reply' = Ok(target)
  ELSE /\ reply' = Error(EINVAL)
       /\ UNCHANGED f_pos

\* The size seeks are measured against excludes the unterminated characters.
Llseek(f, offset, whence) ==
  LET size == BufferSize(buffer)
  IN  /\ Locks(f)
      /\ \/ whence = "SEEK_SET" /\ SetPosition(f, offset, size)
         \/ whence = "SEEK_END" /\ SetPosition(f, size + offset, size)
         \/ /\ whence = "SEEK_CUR" /\ offset # 0
            /\ SetPosition(f, f_pos[f] + offset, size)
         \/ /\ whence = "SEEK_CUR" /\ offset = 0
            /\ reply' = Ok(f_pos[f])
            /\ UNCHANGED f_pos
      /\ UNCHANGED <<loaded, device, wedged, open>>

\* Mutant: the offset within the command is not added.
SeekToStart(f, write_cmd, write_cmd_offset) ==
  LET pos == FindFposForEntryOffset(buffer, write_cmd % 256, write_cmd_offset)
  IN  /\ Locks(f) /\ UNCHANGED <<loaded, device, wedged, open>>
      /\ IF pos >= 0
         THEN SetPosition(f, pos - write_cmd_offset, BufferSize(buffer))
         ELSE /\ reply' = Error(EINVAL)
              /\ UNCHANGED f_pos

\* aesd_iocseekto.  write_cmd is a uint32_t, and the uint8_t parameter of
\* aesd_circular_buffer_find_fpos_for_entry_offset takes its last byte.
SeekTo(f, write_cmd, write_cmd_offset) ==
  LET pos == FindFposForEntryOffset(buffer, write_cmd % 256, write_cmd_offset)
  IN  /\ Locks(f) /\ UNCHANGED <<loaded, device, wedged, open>>
      /\ IF pos >= 0
         THEN SetPosition(f, pos, BufferSize(buffer))
         ELSE /\ reply' = Error(EINVAL)
              /\ UNCHANGED f_pos

\* An ioctl that ends before the lock: an unknown command, or a get_user fault.
IoctlRefused(f) ==
  /\ f \in open
  /\ \/ reply' = Error(ENOTTY)
     \/ CopyMayFault /\ reply' = Error(EFAULT)
  /\ UNCHANGED <<loaded, device, wedged, open, f_pos>>

-----------------------------------------------------------------------------
FileOperation(f) ==
  \/ \E count \in 1 .. MaxRequest : Read(f, count)
  \/ Write(f)
  \/ \E offset \in SeekOffsets,
        whence \in {"SEEK_SET", "SEEK_CUR", "SEEK_END"} :
       Llseek(f, offset, whence)
  \/ \E write_cmd \in SeekCommands, write_cmd_offset \in 0 .. MaxRequest :
       SeekTo(f, write_cmd, write_cmd_offset)
  \/ IoctlRefused(f)
  \/ Interrupted(f)

Next ==
  \/ Load \/ Cleanup
  \/ \E f \in Files : Open(f) \/ Release(f) \/ FileOperation(f)

Spec == Init /\ [][Next]_vars

=============================================================================

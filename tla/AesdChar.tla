------------------------------ MODULE AesdChar ------------------------------
(***************************************************************************)
(* The character driver of aesd-char-driver/main.c.                        *)
(*                                                                         *)
(* The tasks are threads in system calls on /dev/aesdchar, each on a file  *)
(* of its own.  They share struct aesd_dev (buffer, partial_entry and      *)
(* buffer_mutex) and the kernel heap.  A task is between two of the places *)
(* where another one can get in: taking the mutex, kmalloc and             *)
(* copy_from_user (which sleep), and every turn of the loop of aesd_ioctl, *)
(* which takes no lock.                                                    *)
(*                                                                         *)
(* allocated and mem are the heap: the addresses kmalloc has handed out and*)
(* kfree has not taken back, and the bytes there.  A byte string is a      *)
(* sequence of bytes; only the newline NL means something to the driver.   *)
(***************************************************************************)
EXTENDS CircularBuffer, Sequences, FiniteSets

CONSTANTS Task,       \* threads that use the device
          Ptr,        \* addresses the heap can hand out
          Byte,       \* byte values
          NL,         \* '\n'
          Payload,    \* what a task may write
          SeekArg,    \* struct aesd_seekto values a task may pass to ioctl
          Offset,     \* offsets a task may pass to llseek
          MaxPos,     \* bound: tasks write and seek from positions up to this
          MaxPartial, \* bound: tasks write while at most this many bytes wait
          MaxUnloads  \* bound: how often the module is removed

ASSUME PtrAssumption  == NULL \notin Ptr
ASSUME TaskAssumption == NULL \notin Task
ASSUME PayloadAssumption == Payload \subseteq Seq(Byte)
ASSUME ArgAssumption ==
  /\ SeekArg \subseteq [write_cmd : Nat, write_cmd_offset : Nat]
  /\ Offset \subseteq Int
ASSUME BoundAssumption == MaxPos \in Nat /\ MaxPartial \in Nat /\ MaxUnloads \in Nat

VARIABLES loaded,        \* the module is in the kernel
          unloads,       \* number of times it was removed
          buffer,        \* aesd_device.buffer
          partial_entry, \* aesd_device.partial_entry
          buffer_mutex,  \* the task that holds aesd_device.buffer_mutex, or NULL
          allocated,     \* heap: addresses in use
          mem,           \* heap: bytes at each address
          pc,            \* where each task is
          f_pos,         \* filp->f_pos
          data,          \* the bytes a write was called with
          buffptr,       \* aesd_write's local: what kmalloc returned
          seekto_arg,    \* aesd_ioctl's local
          index,         \* aesd_ioctl's local: loop index
          offset,        \* aesd_ioctl's local: sum so far
          got,           \* the bytes the last call copied to its caller
          retval         \* how the last call ended

dev    == <<buffer, partial_entry>>
heap   == <<allocated, mem>>
module == <<loaded, unloads>>
scan   == <<seekto_arg, index, offset>>
result == <<got, retval>>
vars   == <<module, dev, heap, buffer_mutex, pc, f_pos, data, buffptr, scan, result>>

PCs == {"closed", "user", "w_lock", "w_alloc", "w_copy", "r_lock", "r_body",
        "out", "io_scan", "oops"}

ZeroArg == [write_cmd |-> 0, write_cmd_offset |-> 0]

Init == /\ loaded = FALSE
        /\ unloads = 0
        /\ buffer = aesd_circular_buffer_init
        /\ partial_entry = NullEntry
        /\ buffer_mutex = NULL
        /\ allocated = {}
        /\ mem = [p \in Ptr |-> << >>]
        /\ pc = [t \in Task |-> "closed"]
        /\ f_pos = [t \in Task |-> 0]
        /\ data = [t \in Task |-> << >>]
        /\ buffptr = [t \in Task |-> NULL]
        /\ seekto_arg = [t \in Task |-> ZeroArg]
        /\ index = [t \in Task |-> 0]
        /\ offset = [t \in Task |-> 0]
        /\ got = [t \in Task |-> << >>]
        /\ retval = [t \in Task |-> "none"]

-----------------------------------------------------------------------------
(* Loading and removing the module, opening and closing files.             *)

\* memset of aesd_device and aesd_circular_buffer_init.
Memset == buffer' = aesd_circular_buffer_init /\ partial_entry' = NullEntry

\* alloc_chrdev_region and cdev_add may fail; then the module is not loaded.
aesd_init_module ==
  /\ ~loaded
  /\ loaded' \in BOOLEAN
  /\ Memset
  /\ buffer_mutex' = NULL
  /\ UNCHANGED <<unloads, heap, pc, f_pos, data, buffptr, scan, result>>

\* The heap after kfree of every address in S.
Freed(S) == /\ allocated' = allocated \ S
            /\ mem' = [p \in Ptr |-> IF p \in S THEN << >> ELSE mem[p]]

EntryPtrs == {buffer.entry[i].buffptr : i \in Slots} \ {NULL}

\* The kernel removes a module only when none of its files is open (.owner), so
\* the mutex is free (or a task has died with it, see write_oops, and the loop
\* that takes it never ends).  The entries are freed, a partial entry is not.
\* aesd_device goes away with the module, and the next one finds it zeroed; dev
\* keeps its last value in between, when no action and no property looks at it.
aesd_cleanup_module ==
  /\ loaded
  /\ \A t \in Task : pc[t] = "closed"
  /\ unloads < MaxUnloads
  /\ loaded' = FALSE
  /\ unloads' = unloads + 1
  /\ Freed(EntryPtrs)
  /\ UNCHANGED <<dev, buffer_mutex, pc, f_pos, data, buffptr, scan, result>>

\* A new file is at position 0.
aesd_open(t) ==
  /\ loaded
  /\ pc[t] = "closed"
  /\ pc' = [pc EXCEPT ![t] = "user"]
  /\ UNCHANGED <<module, dev, heap, buffer_mutex, f_pos, data, buffptr, scan, result>>

\* The file goes away, and its position with it.
aesd_release(t) ==
  /\ pc[t] = "user"
  /\ pc' = [pc EXCEPT ![t] = "closed"]
  /\ f_pos' = [f_pos EXCEPT ![t] = 0]
  /\ got' = [got EXCEPT ![t] = << >>]
  /\ retval' = [retval EXCEPT ![t] = "none"]
  /\ UNCHANGED <<module, dev, heap, buffer_mutex, data, buffptr, scan>>

-----------------------------------------------------------------------------
(* Entering and leaving a system call.                                     *)

Enter(t, place) ==
  /\ pc[t] = "user"
  /\ pc' = [pc EXCEPT ![t] = place]
  /\ got' = [got EXCEPT ![t] = << >>]
  /\ retval' = [retval EXCEPT ![t] = "none"]

Returns(t, place, val) ==
  /\ pc' = [pc EXCEPT ![t] = place]
  /\ retval' = [retval EXCEPT ![t] = val]

call_write(t) ==
  /\ Enter(t, "w_lock")
  /\ f_pos[t] <= MaxPos
  /\ partial_entry.size <= MaxPartial
  /\ \E d \in Payload : data' = [data EXCEPT ![t] = d]
  /\ UNCHANGED <<module, dev, heap, buffer_mutex, f_pos, buffptr, scan>>

call_read(t) ==
  /\ Enter(t, "r_lock")
  /\ UNCHANGED <<module, dev, heap, buffer_mutex, f_pos, data, buffptr, scan>>

\* mutex_lock_interruptible succeeds.
lock(t) ==
  /\ pc[t] \in {"w_lock", "r_lock"}
  /\ buffer_mutex = NULL
  /\ buffer_mutex' = t
  /\ pc' = [pc EXCEPT ![t] = IF @ = "w_lock" THEN "w_alloc" ELSE "r_body"]
  /\ UNCHANGED <<module, dev, heap, f_pos, data, buffptr, scan, result>>

\* A signal ends the wait for the mutex: -EINTR, without it.
lock_interrupted(t) ==
  /\ pc[t] \in {"w_lock", "r_lock"}
  /\ Returns(t, "user", "EINTR")
  /\ data' = [data EXCEPT ![t] = << >>]
  /\ UNCHANGED <<module, dev, heap, buffer_mutex, f_pos, buffptr, scan, got>>

\* out: mutex_unlock and return.
out(t) ==
  /\ pc[t] = "out"
  /\ buffer_mutex' = NULL
  /\ pc' = [pc EXCEPT ![t] = "user"]
  /\ data' = [data EXCEPT ![t] = << >>]
  /\ buffptr' = [buffptr EXCEPT ![t] = NULL]
  /\ UNCHANGED <<module, dev, heap, f_pos, scan, result>>

-----------------------------------------------------------------------------
(* aesd_write, with the mutex held.                                        *)

\* buffer_size of aesd_write.
NewSize(t) == Len(data[t]) + partial_entry.size

write_kmalloc(t) ==
  /\ pc[t] = "w_alloc" /\ NewSize(t) > 0
  /\ \E p \in Ptr \ allocated :
       /\ allocated' = allocated \cup {p}
       /\ buffptr' = [buffptr EXCEPT ![t] = p]
  /\ pc' = [pc EXCEPT ![t] = "w_copy"]
  /\ UNCHANGED <<module, dev, mem, buffer_mutex, f_pos, data, scan, result>>

write_enomem(t) ==
  /\ pc[t] = "w_alloc" /\ NewSize(t) > 0
  /\ Returns(t, "out", "ENOMEM")
  /\ UNCHANGED <<module, dev, heap, buffer_mutex, f_pos, data, buffptr, scan, got>>

\* No bytes to write and none waiting: kmalloc(0) returns ZERO_SIZE_PTR, and
\* buffptr[buffer_size - 1] is the byte before it.  The task dies of the fault,
\* with the mutex.
write_oops(t) ==
  /\ pc[t] = "w_alloc" /\ NewSize(t) = 0
  /\ pc' = [pc EXCEPT ![t] = "oops"]
  /\ UNCHANGED <<module, dev, heap, buffer_mutex, f_pos, data, buffptr, scan, result>>

FaultFrees_Nothing(t) == {}
FaultFrees(t) == {buffptr[t]}

FaultGoto_Return == "user"
FaultGoto == "out"

\* copy_from_user fails, which it cannot with nothing to copy: kfree, goto out.
write_efault(t) ==
  /\ pc[t] = "w_copy" /\ data[t] # << >>
  /\ Freed(FaultFrees(t))
  /\ Returns(t, FaultGoto, "EFAULT")
  /\ UNCHANGED <<module, dev, buffer_mutex, f_pos, data, buffptr, scan, got>>

PartialBytes == IF partial_entry.buffptr = NULL THEN << >>
                ELSE mem[partial_entry.buffptr]

NewBytes_Swapped(t) == data[t] \o PartialBytes

\* What the new allocation holds once user data and partial entry are copied.
NewBytes(t) == PartialBytes \o data[t]

NewEntry(t) == [buffptr |-> buffptr[t], size |-> NewSize(t)]

\* kfree of the addresses in S (NULL among them does nothing) and the bytes of
\* the new entry written.
FreedAndWritten(S, t) ==
  /\ allocated' = allocated \ S
  /\ mem' = [p \in Ptr |-> IF p = buffptr[t] THEN NewBytes(t)
                           ELSE IF p \in S THEN << >> ELSE mem[p]]

EndsCommand_Always(t) == TRUE
EndsCommand(t) == NewBytes(t)[NewEntry(t).size] = NL

PartialReset_Not == partial_entry
PartialReset == NullEntry

\* The entry ends in a newline: it goes into the buffer, and the entry it
\* replaces there is freed.
commit(t) ==
  /\ EndsCommand(t)
  /\ buffer' = aesd_circular_buffer_add_entry(buffer, NewEntry(t))
  /\ partial_entry' = PartialReset
  /\ FreedAndWritten({partial_entry.buffptr, Overwritten(buffer).buffptr}, t)

\* Otherwise it becomes the partial entry.
keep_partial(t) ==
  /\ ~EndsCommand(t)
  /\ partial_entry' = NewEntry(t)
  /\ FreedAndWritten({partial_entry.buffptr}, t)
  /\ UNCHANGED buffer

write_store(t) ==
  /\ pc[t] = "w_copy"
  /\ commit(t) \/ keep_partial(t)
  /\ f_pos' = [f_pos EXCEPT ![t] = @ + NewEntry(t).size]
  /\ Returns(t, "out", "ok")
  /\ UNCHANGED <<module, buffer_mutex, data, buffptr, scan, got>>

-----------------------------------------------------------------------------
(* aesd_read, with the mutex held.  It returns the rest of one entry,      *)
(* however many bytes were asked for.                                      *)

Found_FromSlot0(t) ==
  aesd_circular_buffer_find_entry_offset_for_fpos([buffer EXCEPT !.out_offs = 0],
                                                  f_pos[t])
Found(t) == aesd_circular_buffer_find_entry_offset_for_fpos(buffer, f_pos[t])

read_eof(t) ==
  /\ pc[t] = "r_body"
  /\ Found(t) = NULL
  /\ Returns(t, "out", "eof")
  /\ UNCHANGED <<module, dev, heap, buffer_mutex, f_pos, data, buffptr, scan, got>>

read_efault(t) ==
  /\ pc[t] = "r_body"
  /\ Found(t) # NULL
  /\ Returns(t, "out", "EFAULT")
  /\ UNCHANGED <<module, dev, heap, buffer_mutex, f_pos, data, buffptr, scan, got>>

read_copy(t) ==
  /\ pc[t] = "r_body"
  /\ Found(t) # NULL
  /\ LET entry == buffer.entry[Found(t).index]
     IN  /\ got' = [got EXCEPT ![t] =
                      SubSeq(mem[entry.buffptr], Found(t).entry_offset + 1, entry.size)]
         /\ f_pos' = [f_pos EXCEPT ![t] = @ + (entry.size - Found(t).entry_offset)]
  /\ Returns(t, "out", "ok")
  /\ UNCHANGED <<module, dev, heap, buffer_mutex, data, buffptr, scan>>

-----------------------------------------------------------------------------
(* aesd_llseek and aesd_ioctl; neither takes the mutex.                    *)

EINVAL(newpos) == newpos < 0

\* newpos of aesd_llseek; SEEK_END and unknown values return -EINVAL whatever
\* it is.
NewPos(pos, off, whence) ==
  CASE whence = "SEEK_SET" -> off
    [] whence = "SEEK_CUR" -> pos + off
    [] OTHER -> -1

\* What aesd_llseek does to the file and returns.
Seeks(t, off, whence) ==
  \/ /\ ~EINVAL(NewPos(f_pos[t], off, whence))
     /\ f_pos' = [f_pos EXCEPT ![t] = NewPos(f_pos[t], off, whence)]
     /\ retval' = [retval EXCEPT ![t] = "ok"]
  \/ /\ EINVAL(NewPos(f_pos[t], off, whence))
     /\ f_pos' = f_pos
     /\ retval' = [retval EXCEPT ![t] = "EINVAL"]

aesd_llseek(t) ==
  /\ pc[t] = "user"
  /\ f_pos[t] <= MaxPos
  /\ \E off \in Offset, whence \in {"SEEK_SET", "SEEK_CUR", "SEEK_END"} :
       Seeks(t, off, whence)
  /\ got' = [got EXCEPT ![t] = << >>]
  /\ UNCHANGED <<module, dev, heap, buffer_mutex, pc, data, buffptr, scan>>

ioctl_enotty(t) ==
  /\ pc[t] = "user"
  /\ got' = [got EXCEPT ![t] = << >>]
  /\ retval' = [retval EXCEPT ![t] = "ENOTTY"]
  /\ UNCHANGED <<module, dev, heap, buffer_mutex, pc, f_pos, data, buffptr, scan>>

\* AESDCHAR_IOCSEEKTO: the result of copy_from_user is ignored; when it fails
\* the kernel has filled the structure with zeros.
ioctl_seekto(t) ==
  /\ Enter(t, "io_scan")
  /\ f_pos[t] <= MaxPos
  /\ \E arg \in SeekArg \cup {ZeroArg} : seekto_arg' = [seekto_arg EXCEPT ![t] = arg]
  /\ index' = [index EXCEPT ![t] = 0]
  /\ offset' = [offset EXCEPT ![t] = 0]
  /\ UNCHANGED <<module, dev, heap, buffer_mutex, f_pos, data, buffptr>>

ScanEnds_OneLate(t) ==
  index[t] = MAX \/ index[t] = seekto_arg[t].write_cmd + 1

\* The loop of AESD_CIRCULAR_BUFFER_FOREACH is over, by its test or its break.
ScanEnds(t) == index[t] = MAX \/ index[t] = seekto_arg[t].write_cmd

ioctl_turn(t) ==
  /\ pc[t] = "io_scan"
  /\ ~ScanEnds(t)
  /\ offset' = [offset EXCEPT ![t] = @ + buffer.entry[index[t]].size]
  /\ index' = [index EXCEPT ![t] = @ + 1]
  /\ UNCHANGED <<module, dev, heap, buffer_mutex, pc, f_pos, data, buffptr,
                 seekto_arg, result>>

ioctl_seek(t) ==
  /\ pc[t] = "io_scan"
  /\ ScanEnds(t)
  /\ Seeks(t, offset[t] + seekto_arg[t].write_cmd_offset, "SEEK_CUR")
  /\ pc' = [pc EXCEPT ![t] = "user"]
  /\ seekto_arg' = [seekto_arg EXCEPT ![t] = ZeroArg]
  /\ index' = [index EXCEPT ![t] = 0]
  /\ offset' = [offset EXCEPT ![t] = 0]
  /\ UNCHANGED <<module, dev, heap, buffer_mutex, data, buffptr, got>>

-----------------------------------------------------------------------------

\* A step of a call that is under way, other than getting the mutex.
Step(t) ==
  \/ out(t)
  \/ write_kmalloc(t) \/ write_enomem(t) \/ write_oops(t)
  \/ write_efault(t) \/ write_store(t)
  \/ read_eof(t) \/ read_efault(t) \/ read_copy(t)
  \/ ioctl_turn(t) \/ ioctl_seek(t)

\* A task opens, closes or starts a call.
Starts(t) ==
  \/ aesd_open(t) \/ aesd_release(t)
  \/ call_write(t) \/ call_read(t)
  \/ aesd_llseek(t) \/ ioctl_enotty(t) \/ ioctl_seekto(t)

Next == \/ aesd_init_module \/ aesd_cleanup_module
        \/ \E t \in Task : Starts(t) \/ lock(t) \/ lock_interrupted(t) \/ Step(t)

\* Kernel threads are scheduled, and a kernel mutex is handed to its waiters in
\* turn.  Nobody has to load the module or start a call.
Fairness == \A t \in Task : WF_vars(Step(t)) /\ SF_vars(lock(t))

Spec == Init /\ [][Next]_vars

FairSpec == Spec /\ Fairness
-----------------------------------------------------------------------------
\* The device, the heap and what a call has of them.
DeviceTypeOK ==
  /\ loaded \in BOOLEAN
  /\ unloads \in 0 .. MaxUnloads
  /\ buffer \in BufferOf(Ptr)
  /\ partial_entry \in EntryOf(Ptr)
  /\ buffer_mutex \in Task \cup {NULL}
  /\ allocated \subseteq Ptr
  /\ mem \in [Ptr -> Seq(Byte)]
  /\ pc \in [Task -> PCs]
  /\ data \in [Task -> Seq(Byte)]
  /\ buffptr \in [Task -> Ptr \cup {NULL}]

\* Every variable has its type; a position and the result of a lookup are
\* never negative.
TypeOK ==
  /\ DeviceTypeOK
  /\ f_pos \in [Task -> Nat]
  /\ seekto_arg \in [Task -> [write_cmd : Nat, write_cmd_offset : Nat]]
  /\ index \in [Task -> 0 .. MAX]
  /\ offset \in [Task -> Nat]
  /\ got \in [Task -> Seq(Byte)]
  /\ retval \in [Task -> {"none", "ok", "eof", "EINTR", "ENOMEM", "EFAULT",
                          "EINVAL", "ENOTTY"}]

\* An entry's pointer is live and the entry has the size of its allocation.
Live(e) == e.buffptr # NULL => /\ e.buffptr \in allocated
                               /\ e.size = Len(mem[e.buffptr])

\* While the module is loaded, no entry of the buffer, no partial entry and no
\* write in progress refers to memory that kfree has taken back, each of them
\* owns its allocation alone (so nothing is freed twice), and an entry's size
\* never exceeds what was allocated, however writes, failures and overwrites
\* interleave.
MemorySafe ==
  loaded =>
    /\ \A i \in Slots : Live(buffer.entry[i])
    /\ Live(partial_entry)
    /\ \A i, j \in Slots :
         i # j /\ buffer.entry[i].buffptr = buffer.entry[j].buffptr
           => buffer.entry[i].buffptr = NULL
    /\ \A i \in Slots :
         buffer.entry[i].buffptr = partial_entry.buffptr
           => partial_entry.buffptr = NULL
    /\ \A t \in Task : pc[t] = "w_copy" =>
         /\ buffptr[t] \in allocated
         /\ buffptr[t] # partial_entry.buffptr
         /\ \A i \in Slots : buffptr[t] # buffer.entry[i].buffptr

\* What the driver can still reach of the heap.
Reachable ==
  (IF loaded THEN EntryPtrs \cup ({partial_entry.buffptr} \ {NULL}) ELSE {})
     \cup {buffptr[t] : t \in {u \in Task : pc[u] = "w_copy"}}

\* Nothing leaks while the module runs: the heap is what the driver reaches,
\* plus at most one partial entry for every time the module was removed (the
\* one aesd_cleanup_module does not free).
LeakBound == Cardinality(allocated \ Reachable) <= unloads

\* The buffer holds commands that end in a newline, and the partial entry is
\* empty or lacks its newline, whoever wrote the pieces.
CommandsTerminated ==
  loaded =>
    /\ \A i \in Slots :
         LET e == buffer.entry[i]
         IN  e.buffptr # NULL => /\ e.size > 0
                                 /\ mem[e.buffptr][e.size] = NL
    /\ partial_entry.buffptr = NULL => partial_entry.size = 0
    /\ partial_entry.buffptr # NULL =>
         /\ partial_entry.size > 0
         /\ mem[partial_entry.buffptr][partial_entry.size] # NL

\* The commands in the buffer, oldest first.
Commands == [i \in 1 .. Count(buffer) |-> mem[Log(buffer)[i].buffptr]]

\* The driver implements the command log: writes and reads take effect at once,
\* in the order in which they hold the mutex, and a call that returns an error
\* has changed nothing.
CL == INSTANCE CommandLog WITH
        Cap <- MAX, Data <- Payload, pos <- f_pos,
        log <- IF loaded THEN Commands ELSE << >>,
        partial <- IF loaded THEN PartialBytes ELSE << >>
ImplementsCommandLog == CL!Spec

\* Every system call returns: no failure path keeps the mutex and no task
\* waits for it for ever, until a task dies of an empty write with the mutex.
CallsReturn ==
  \A t \in Task : pc[t] \notin {"closed", "user"} ~>
    pc[t] = "user" \/ \E u \in Task : pc[u] = "oops"

\* Where command number n of the buffer begins, counted from its oldest byte.
StartOf(n) ==
  LET start[i \in 0 .. Count(buffer)] ==
        IF i = 0 THEN 0 ELSE start[i - 1] + Log(buffer)[i].size
  IN  start[n]

SeeksTo(t, n) ==
  ioctl_seek(t) /\ seekto_arg[t].write_cmd = n /\ n < Count(buffer)

\* "The zero referenced write command to seek into": AESDCHAR_IOCSEEKTO moves a
\* file to the given offset of that command, wherever it was before.
SeekFindsCommand ==
  [][\A t \in Task : \A n \in Slots :
       SeeksTo(t, n) =>
         f_pos'[t] = StartOf(n) + seekto_arg[t].write_cmd_offset]_vars
=============================================================================

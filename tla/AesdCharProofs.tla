--------------------------- MODULE AesdCharProofs ---------------------------
(***************************************************************************)
(* Theorems about the driver, for every number of tasks, every number of   *)
(* slots and every heap.                                                   *)
(***************************************************************************)
EXTENDS AesdChar, CircularBufferLemmas, FiniteSetTheorems

\* Only the task that owns the mutex is between lock and out.
LockInv == \A t \in Task :
             pc[t] \in {"w_alloc", "w_copy", "r_body", "out", "oops"} => buffer_mutex = t

\* A file that is open keeps the module in the kernel.
OpenInv == ~loaded => \A t \in Task : pc[t] = "closed"

\* A write in progress has its bytes, and there is something to store.
DataInv == \A t \in Task :
             /\ pc[t] \in {"w_lock", "w_alloc", "w_copy"} => data[t] \in Payload
             /\ pc[t] = "w_copy" => NewSize(t) > 0

\* The inductive invariant.  MemorySafe alone is not inductive: write_store frees
\* the old partial entry and the overwritten entry, which is safe only because
\* no other task is in the same place (LockInv); the sizes add up only because
\* an absent partial entry has size 0 (CommandsTerminated); and loading the
\* module clears the buffer under nobody's feet (OpenInv).
DriverInv == /\ DeviceTypeOK
             /\ LockInv
             /\ OpenInv
             /\ DataInv
             /\ loaded => WellFormed(buffer)
             /\ MemorySafe
             /\ CommandsTerminated
-----------------------------------------------------------------------------
(* Steps that touch neither the device nor the heap.                       *)

QuietStep ==
  /\ UNCHANGED <<loaded, unloads, buffer, partial_entry, allocated, mem>>
  /\ buffer_mutex' \in Task \cup {NULL}
  /\ pc' \in [Task -> PCs]
  /\ data' \in [Task -> Seq(Byte)]
  /\ buffptr' \in [Task -> Ptr \cup {NULL}]
  /\ LockInv' /\ OpenInv' /\ DataInv'
  /\ \A t \in Task :
       /\ pc'[t] = "w_copy" <=> pc[t] = "w_copy"
       /\ pc[t] = "w_copy" => buffptr'[t] = buffptr[t]

LEMMA UnchangedIsQuiet == DriverInv /\ UNCHANGED vars => QuietStep
BY DEF QuietStep, vars, module, dev, heap, DriverInv, DeviceTypeOK,
       LockInv, OpenInv, DataInv, NewSize

LEMMA QuietKeepsInv == DriverInv /\ QuietStep => DriverInv'
<1> SUFFICES ASSUME DriverInv, QuietStep PROVE DriverInv'
  OBVIOUS
<1>1. DeviceTypeOK'
  BY DEF DriverInv, QuietStep, DeviceTypeOK
<1>2. MemorySafe'
  BY DEF DriverInv, QuietStep, MemorySafe, Live
<1>3. CommandsTerminated'
  BY DEF DriverInv, QuietStep, CommandsTerminated
<1>4. (loaded => WellFormed(buffer))'
  BY DEF DriverInv, QuietStep
<1> QED
  BY <1>1, <1>2, <1>3, <1>4 DEF DriverInv, QuietStep

\* The calls' bookkeeping, reads and seeks are such steps.
LEMMA QuietActions ==
  ASSUME DriverInv, NEW t \in Task,
         \/ aesd_open(t) \/ aesd_release(t) \/ call_write(t) \/ call_read(t)
         \/ lock(t) \/ lock_interrupted(t) \/ out(t) \/ write_enomem(t) \/ write_oops(t)
         \/ read_eof(t) \/ read_efault(t) \/ read_copy(t) \/ aesd_llseek(t)
         \/ ioctl_enotty(t) \/ ioctl_seekto(t) \/ ioctl_turn(t) \/ ioctl_seek(t)
  PROVE  QuietStep
<1>1. CASE aesd_open(t)
  BY <1>1, TaskAssumption, PayloadAssumption
  DEF QuietStep, aesd_open, DriverInv, DeviceTypeOK, LockInv, OpenInv, DataInv, NewSize, PCs, module, dev, heap
<1>2. CASE aesd_release(t)
  BY <1>2, TaskAssumption, PayloadAssumption
  DEF QuietStep, aesd_release, DriverInv, DeviceTypeOK, LockInv, OpenInv, DataInv, NewSize, PCs, module, dev, heap
<1>3. CASE call_write(t)
  BY <1>3, TaskAssumption, PayloadAssumption
  DEF QuietStep, call_write, Enter, DriverInv, DeviceTypeOK, LockInv, OpenInv, DataInv, NewSize, PCs, module, dev, heap
<1>4. CASE call_read(t)
  BY <1>4, TaskAssumption, PayloadAssumption
  DEF QuietStep, call_read, Enter, DriverInv, DeviceTypeOK, LockInv, OpenInv, DataInv, NewSize, PCs, module, dev, heap
<1>5. CASE lock(t)
  BY <1>5, TaskAssumption, PayloadAssumption
  DEF QuietStep, lock, DriverInv, DeviceTypeOK, LockInv, OpenInv, DataInv, NewSize, PCs, module, dev, heap
<1>6. CASE lock_interrupted(t)
  BY <1>6, TaskAssumption, PayloadAssumption
  DEF QuietStep, lock_interrupted, Returns, DriverInv, DeviceTypeOK, LockInv, OpenInv, DataInv, NewSize, PCs, module, dev, heap
<1>7. CASE out(t)
  BY <1>7, TaskAssumption, PayloadAssumption
  DEF QuietStep, out, DriverInv, DeviceTypeOK, LockInv, OpenInv, DataInv, NewSize, PCs, module, dev, heap
<1>8. CASE write_enomem(t)
  BY <1>8, TaskAssumption, PayloadAssumption
  DEF QuietStep, write_enomem, Returns, DriverInv, DeviceTypeOK, LockInv, OpenInv, DataInv, NewSize, PCs, module, dev, heap
<1>9. CASE read_eof(t)
  BY <1>9, TaskAssumption, PayloadAssumption
  DEF QuietStep, read_eof, Returns, DriverInv, DeviceTypeOK, LockInv, OpenInv, DataInv, NewSize, PCs, module, dev, heap
<1>10. CASE read_efault(t)
  BY <1>10, TaskAssumption, PayloadAssumption
  DEF QuietStep, read_efault, Returns, DriverInv, DeviceTypeOK, LockInv, OpenInv, DataInv, NewSize, PCs, module, dev, heap
<1>11. CASE read_copy(t)
  BY <1>11, TaskAssumption, PayloadAssumption
  DEF QuietStep, read_copy, Returns, DriverInv, DeviceTypeOK, LockInv, OpenInv, DataInv, NewSize, PCs, module, dev, heap
<1>12. CASE aesd_llseek(t)
  BY <1>12, TaskAssumption, PayloadAssumption
  DEF QuietStep, aesd_llseek, DriverInv, DeviceTypeOK, LockInv, OpenInv, DataInv, NewSize, PCs, module, dev, heap
<1>13. CASE ioctl_enotty(t)
  BY <1>13, TaskAssumption, PayloadAssumption
  DEF QuietStep, ioctl_enotty, DriverInv, DeviceTypeOK, LockInv, OpenInv, DataInv, NewSize, PCs, module, dev, heap
<1>14. CASE ioctl_seekto(t)
  BY <1>14, TaskAssumption, PayloadAssumption
  DEF QuietStep, ioctl_seekto, Enter, DriverInv, DeviceTypeOK, LockInv, OpenInv, DataInv, NewSize, PCs, module, dev, heap
<1>15. CASE ioctl_turn(t)
  BY <1>15, TaskAssumption, PayloadAssumption
  DEF QuietStep, ioctl_turn, DriverInv, DeviceTypeOK, LockInv, OpenInv, DataInv, NewSize, PCs, module, dev, heap
<1>16. CASE ioctl_seek(t)
  BY <1>16, TaskAssumption, PayloadAssumption
  DEF QuietStep, ioctl_seek, DriverInv, DeviceTypeOK, LockInv, OpenInv, DataInv, NewSize, PCs, module, dev, heap
<1>17. CASE write_oops(t)
  BY <1>17, TaskAssumption, PayloadAssumption
  DEF QuietStep, write_oops, DriverInv, DeviceTypeOK, LockInv, OpenInv, DataInv, NewSize, PCs, module, dev, heap
<1> QED
  BY <1>1, <1>2, <1>3, <1>4, <1>5, <1>6, <1>7, <1>8, <1>9, <1>10, <1>11,
     <1>12, <1>13, <1>14, <1>15, <1>16, <1>17
-----------------------------------------------------------------------------
(* The other steps, one lemma for each.                                    *)

LEMMA InitInv == Init => DriverInv
<1> SUFFICES ASSUME Init PROVE DriverInv
  OBVIOUS
<1>1. buffer \in BufferOf(Ptr)
  BY InitWellFormed DEF Init
<1>2. DeviceTypeOK
  <2>1. partial_entry \in EntryOf(Ptr)
    BY DEF Init, EntryOf, NullEntry
  <2>2. unloads \in 0 .. MaxUnloads
    BY BoundAssumption DEF Init
  <2>3. /\ mem \in [Ptr -> Seq(Byte)] /\ data \in [Task -> Seq(Byte)]
        /\ buffptr \in [Task -> Ptr \cup {NULL}] /\ pc \in [Task -> PCs]
    BY DEF Init, PCs
  <2> QED
    BY <1>1, <2>1, <2>2, <2>3 DEF Init, DeviceTypeOK
<1> QED
  BY <1>2
  DEF Init, DriverInv, LockInv, OpenInv, DataInv, MemorySafe, CommandsTerminated

LEMMA InitModuleInv == DriverInv /\ aesd_init_module => DriverInv'
<1> SUFFICES ASSUME DriverInv, aesd_init_module PROVE DriverInv'
  OBVIOUS
<1>1. /\ buffer' \in BufferOf(Ptr) /\ WellFormed(buffer')
      /\ \A i \in Slots : buffer'.entry[i] = NullEntry
  BY InitWellFormed DEF aesd_init_module, Memset, aesd_circular_buffer_init
<1>2. \A t \in Task : pc'[t] = "closed"
  BY DEF aesd_init_module, DriverInv, OpenInv
<1>3. DeviceTypeOK'
  BY <1>1 DEF aesd_init_module, Memset, heap, DriverInv, DeviceTypeOK, EntryOf, NullEntry
<1>4. MemorySafe' /\ CommandsTerminated'
  BY <1>1, <1>2
  DEF aesd_init_module, Memset, MemorySafe, CommandsTerminated, Live, NullEntry
<1>5. LockInv' /\ OpenInv' /\ DataInv'
  BY <1>2 DEF LockInv, OpenInv, DataInv
<1> QED
  BY <1>1, <1>3, <1>4, <1>5 DEF DriverInv

LEMMA CleanupModuleInv == DriverInv /\ aesd_cleanup_module => DriverInv'
<1> SUFFICES ASSUME DriverInv, aesd_cleanup_module PROVE DriverInv'
  OBVIOUS
<1>1. DeviceTypeOK'
  <2>1. mem' \in [Ptr -> Seq(Byte)] /\ allocated' \subseteq Ptr
    BY DEF aesd_cleanup_module, Freed, DriverInv, DeviceTypeOK
  <2>2. unloads' \in 0 .. MaxUnloads
    BY BoundAssumption DEF aesd_cleanup_module, DriverInv, DeviceTypeOK
  <2> QED
    BY <2>1, <2>2 DEF aesd_cleanup_module, dev, DriverInv, DeviceTypeOK
<1>2. LockInv' /\ OpenInv' /\ DataInv'
  BY DEF aesd_cleanup_module, LockInv, OpenInv, DataInv
<1>3. MemorySafe' /\ CommandsTerminated'
  BY DEF aesd_cleanup_module, MemorySafe, CommandsTerminated
<1>4. ~loaded'
  BY DEF aesd_cleanup_module
<1> QED
  BY <1>1, <1>2, <1>3, <1>4 DEF DriverInv

LEMMA KmallocInv ==
  ASSUME DriverInv, NEW t \in Task, write_kmalloc(t)
  PROVE  DriverInv'
<1>1. PICK p \in Ptr \ allocated :
        /\ allocated' = allocated \cup {p}
        /\ buffptr' = [buffptr EXCEPT ![t] = p]
  BY DEF write_kmalloc
<1>2. /\ UNCHANGED <<loaded, unloads, buffer, partial_entry, mem, buffer_mutex, data>>
      /\ pc[t] = "w_alloc" /\ NewSize(t) > 0
      /\ pc' = [pc EXCEPT ![t] = "w_copy"]
  BY DEF write_kmalloc, module, dev
<1>3. DeviceTypeOK'
  BY <1>1, <1>2 DEF DriverInv, DeviceTypeOK, PCs
<1>4. LockInv' /\ OpenInv' /\ DataInv'
  BY <1>1, <1>2 DEF DriverInv, DeviceTypeOK, LockInv, OpenInv, DataInv, NewSize
<1>5. ASSUME NEW u \in Task, pc'[u] = "w_copy"
      PROVE  u = t
  BY <1>2, <1>5, TaskAssumption DEF DriverInv, DeviceTypeOK, LockInv
<1>6. MemorySafe'
  <2>1. p # NULL /\ buffptr'[t] = p
    BY <1>1, PtrAssumption DEF DriverInv, DeviceTypeOK
  <2> QED
    BY <1>1, <1>2, <1>5, <2>1
    DEF DriverInv, MemorySafe, Live, DeviceTypeOK, BufferOf, EntryOf
<1>7. CommandsTerminated'
  BY <1>2 DEF DriverInv, CommandsTerminated
<1> QED
  BY <1>2, <1>3, <1>4, <1>6, <1>7 DEF DriverInv

LEMMA EfaultInv ==
  ASSUME DriverInv, NEW t \in Task, write_efault(t)
  PROVE  DriverInv'
<1>1. /\ UNCHANGED <<loaded, unloads, buffer, partial_entry, buffer_mutex, data, buffptr>>
      /\ pc[t] = "w_copy"
      /\ pc' = [pc EXCEPT ![t] = "out"]
      /\ allocated' = allocated \ {buffptr[t]}
      /\ mem' = [p \in Ptr |-> IF p \in {buffptr[t]} THEN << >> ELSE mem[p]]
  BY DEF write_efault, FaultFrees, FaultGoto, Freed, Returns, module, dev
<1>2. DeviceTypeOK'
  BY <1>1 DEF DriverInv, DeviceTypeOK, PCs
<1>3. LockInv' /\ OpenInv' /\ DataInv'
  BY <1>1 DEF DriverInv, DeviceTypeOK, LockInv, OpenInv, DataInv, NewSize
<1>4. ASSUME NEW u \in Task
      PROVE  pc'[u] # "w_copy"
  BY <1>1, TaskAssumption DEF DriverInv, DeviceTypeOK, LockInv
<1>5. loaded
  BY <1>1 DEF DriverInv, OpenInv
<1>6. /\ buffptr[t] \in allocated
      /\ buffptr[t] # partial_entry.buffptr
      /\ \A i \in Slots : buffptr[t] # buffer.entry[i].buffptr
  BY <1>1, <1>5 DEF DriverInv, MemorySafe
<1>7. /\ \A i \in Slots : buffer.entry[i].buffptr \in Ptr \cup {NULL}
      /\ partial_entry.buffptr \in Ptr \cup {NULL}
  BY DEF DriverInv, DeviceTypeOK, BufferOf, EntryOf
<1>8. MemorySafe'
  BY <1>1, <1>4, <1>6, <1>7 DEF DriverInv, MemorySafe, Live
<1>9. CommandsTerminated'
  BY <1>1, <1>6, <1>7 DEF DriverInv, CommandsTerminated
<1> QED
  BY <1>1, <1>2, <1>3, <1>8, <1>9 DEF DriverInv
\* What write_store finds: the mutex is its own, the new allocation is nobody
\* else's and the bytes to store are a non-empty string of the entry's size.
LEMMA StoreFacts ==
  ASSUME DriverInv, NEW t \in Task, pc[t] = "w_copy"
  PROVE  /\ loaded
         /\ \A u \in Task : pc[u] = "w_copy" => u = t
         /\ buffptr[t] \in allocated /\ buffptr[t] \in Ptr
         /\ buffptr[t] # partial_entry.buffptr
         /\ \A i \in Slots : buffptr[t] # buffer.entry[i].buffptr
         /\ NewBytes(t) \in Seq(Byte)
         /\ NewEntry(t) \in EntryOf(Ptr)
         /\ NewEntry(t).buffptr = buffptr[t]
         /\ NewEntry(t).size = Len(NewBytes(t))
         /\ NewEntry(t).size > 0
<1>1. loaded
  BY DEF DriverInv, OpenInv
<1>2. \A u \in Task : pc[u] = "w_copy" => u = t
  BY TaskAssumption DEF DriverInv, LockInv
<1>3. /\ buffptr[t] \in allocated
      /\ buffptr[t] # partial_entry.buffptr
      /\ \A i \in Slots : buffptr[t] # buffer.entry[i].buffptr
  BY <1>1 DEF DriverInv, MemorySafe
<1>4. buffptr[t] \in Ptr
  BY <1>3 DEF DriverInv, DeviceTypeOK
<1>5. data[t] \in Seq(Byte) /\ Len(data[t]) \in Nat
  BY PayloadAssumption DEF DriverInv, DataInv
<1>6. /\ PartialBytes \in Seq(Byte)
      /\ partial_entry.size \in Nat
      /\ partial_entry.size = Len(PartialBytes)
  <2>1. partial_entry.buffptr \in Ptr \cup {NULL} /\ partial_entry.size \in Nat
    BY DEF DriverInv, DeviceTypeOK, EntryOf
  <2>2. CASE partial_entry.buffptr = NULL
    BY <1>1, <2>1, <2>2 DEF PartialBytes, DriverInv, CommandsTerminated
  <2>3. CASE partial_entry.buffptr # NULL
    BY <1>1, <2>1, <2>3
    DEF PartialBytes, DriverInv, DeviceTypeOK, MemorySafe, Live
  <2> QED
    BY <2>2, <2>3
<1>7. /\ NewBytes(t) \in Seq(Byte)
      /\ Len(NewBytes(t)) = Len(PartialBytes) + Len(data[t])
  BY <1>5, <1>6, ConcatProperties DEF NewBytes
<1>8. /\ NewEntry(t).buffptr = buffptr[t]
      /\ NewEntry(t).size = Len(data[t]) + partial_entry.size
      /\ NewEntry(t) \in EntryOf(Ptr)
  BY <1>4, <1>5, <1>6 DEF NewEntry, NewSize, EntryOf
<1>9. NewEntry(t).size = Len(NewBytes(t))
  BY <1>5, <1>6, <1>7, <1>8
<1>10. NewEntry(t).size > 0
  BY DEF NewEntry, DriverInv, DataInv
<1> QED
  BY <1>1, <1>2, <1>3, <1>4, <1>7, <1>8, <1>9, <1>10

\* The heap after write_store: addresses that were not freed keep their bytes.
LEMMA StoreHeap ==
  ASSUME DriverInv, NEW t \in Task, pc[t] = "w_copy", NEW S,
         buffptr[t] \notin S, FreedAndWritten(S, t)
  PROVE  /\ allocated' \subseteq Ptr
         /\ mem' \in [Ptr -> Seq(Byte)]
         /\ buffptr[t] \in allocated' /\ mem'[buffptr[t]] = NewBytes(t)
         /\ \A p \in allocated : p # buffptr[t] /\ p \notin S =>
              p \in allocated' /\ mem'[p] = mem[p]
<1>1. NewBytes(t) \in Seq(Byte) /\ buffptr[t] \in allocated /\ buffptr[t] \in Ptr
  BY StoreFacts
<1>2. allocated \subseteq Ptr /\ mem \in [Ptr -> Seq(Byte)]
  BY DEF DriverInv, DeviceTypeOK
<1> QED
  BY <1>1, <1>2 DEF FreedAndWritten

LEMMA KeepPartialInv ==
  ASSUME DriverInv, NEW t \in Task, write_store(t), keep_partial(t)
  PROVE  DriverInv'
<1> DEFINE S == {partial_entry.buffptr}
           n == NewEntry(t)
<1>1. /\ UNCHANGED <<loaded, unloads, buffer, buffer_mutex, data, buffptr>>
      /\ pc[t] = "w_copy"
      /\ pc' = [pc EXCEPT ![t] = "out"]
      /\ partial_entry' = n
      /\ NewBytes(t)[n.size] # NL
      /\ FreedAndWritten(S, t)
  BY DEF write_store, keep_partial, EndsCommand, Returns, module
<1>2. /\ loaded
      /\ \A u \in Task : pc[u] = "w_copy" => u = t
      /\ buffptr[t] \in Ptr /\ buffptr[t] # NULL
      /\ buffptr[t] # partial_entry.buffptr
      /\ \A i \in Slots : buffptr[t] # buffer.entry[i].buffptr
      /\ n \in EntryOf(Ptr) /\ n.buffptr = buffptr[t]
      /\ n.size = Len(NewBytes(t)) /\ n.size > 0
  BY <1>1, StoreFacts, PtrAssumption
<1>3. /\ allocated' \subseteq Ptr
      /\ mem' \in [Ptr -> Seq(Byte)]
      /\ buffptr[t] \in allocated' /\ mem'[buffptr[t]] = NewBytes(t)
      /\ \A p \in allocated : p # buffptr[t] /\ p \notin S =>
           p \in allocated' /\ mem'[p] = mem[p]
  BY <1>1, <1>2, StoreHeap
<1> HIDE DEF n
<1>4. DeviceTypeOK'
  BY <1>1, <1>2, <1>3 DEF DriverInv, DeviceTypeOK, PCs
<1>5. ASSUME NEW u \in Task
      PROVE  pc'[u] # "w_copy"
  BY <1>1, <1>2 DEF DriverInv, DeviceTypeOK
<1>6. LockInv' /\ OpenInv' /\ DataInv'
  BY <1>1, <1>5 DEF DriverInv, DeviceTypeOK, LockInv, OpenInv, DataInv
<1>7. ASSUME NEW i \in Slots, buffer.entry[i].buffptr # NULL
      PROVE  LET e == buffer.entry[i]
             IN  /\ e.buffptr \in allocated' /\ mem'[e.buffptr] = mem[e.buffptr]
                 /\ e.size = Len(mem'[e.buffptr])
  BY <1>2, <1>3, <1>7 DEF DriverInv, MemorySafe, Live
<1>8. MemorySafe'
  BY <1>1, <1>2, <1>3, <1>5, <1>7 DEF DriverInv, MemorySafe, Live
<1>9. CommandsTerminated'
  BY <1>1, <1>2, <1>3, <1>7 DEF DriverInv, CommandsTerminated
<1> QED
  BY <1>1, <1>4, <1>6, <1>8, <1>9 DEF DriverInv

LEMMA CommitInv ==
  ASSUME DriverInv, NEW t \in Task, write_store(t), commit(t)
  PROVE  DriverInv'
<1> DEFINE n   == NewEntry(t)
           old == Overwritten(buffer)
           S   == {partial_entry.buffptr, old.buffptr}
           in  == buffer.in_offs
<1>1. /\ UNCHANGED <<loaded, unloads, buffer_mutex, data, buffptr>>
      /\ pc[t] = "w_copy"
      /\ pc' = [pc EXCEPT ![t] = "out"]
      /\ partial_entry' = NullEntry
      /\ buffer' = aesd_circular_buffer_add_entry(buffer, n)
      /\ NewBytes(t)[n.size] = NL
      /\ FreedAndWritten(S, t)
  BY DEF write_store, commit, EndsCommand, PartialReset, Returns, module
<1>2. /\ loaded
      /\ \A u \in Task : pc[u] = "w_copy" => u = t
      /\ buffptr[t] \in Ptr /\ buffptr[t] # NULL
      /\ buffptr[t] # partial_entry.buffptr
      /\ \A i \in Slots : buffptr[t] # buffer.entry[i].buffptr
      /\ n \in EntryOf(Ptr) /\ n.buffptr = buffptr[t]
      /\ n.size = Len(NewBytes(t)) /\ n.size > 0
  BY <1>1, StoreFacts, PtrAssumption
<1>3. /\ in \in Slots /\ old = buffer.entry[in]
      /\ buffer.entry \in [Slots -> EntryOf(Ptr)]
      /\ buffer \in BufferOf(Ptr)
  BY DEF DriverInv, DeviceTypeOK, BufferOf, Overwritten
<1>4. /\ allocated' \subseteq Ptr
      /\ mem' \in [Ptr -> Seq(Byte)]
      /\ buffptr[t] \in allocated' /\ mem'[buffptr[t]] = NewBytes(t)
      /\ \A p \in allocated : p # buffptr[t] /\ p \notin S =>
           p \in allocated' /\ mem'[p] = mem[p]
  BY <1>1, <1>2, <1>3, StoreHeap
<1>5. /\ buffer' \in BufferOf(Ptr)
      /\ buffer'.entry = [buffer.entry EXCEPT ![in] = n]
  BY <1>1, <1>2, <1>3, AddEntryFields
<1>6. WellFormed(buffer')
  BY <1>1, <1>2, <1>3, AddEntryWellFormed, PtrAssumption DEF DriverInv
<1> HIDE DEF n, in, old
<1>7. /\ buffer'.entry[in] = n
      /\ \A i \in Slots : i # in => buffer'.entry[i] = buffer.entry[i]
  BY <1>3, <1>5
<1>8. DeviceTypeOK'
  BY <1>1, <1>2, <1>4, <1>5
  DEF DriverInv, DeviceTypeOK, PCs, EntryOf, NullEntry
<1>9. ASSUME NEW u \in Task
      PROVE  pc'[u] # "w_copy"
  BY <1>1, <1>2 DEF DriverInv, DeviceTypeOK
<1>10. LockInv' /\ OpenInv' /\ DataInv'
  BY <1>1, <1>9 DEF DriverInv, DeviceTypeOK, LockInv, OpenInv, DataInv
<1>11. ASSUME NEW i \in Slots, i # in, buffer.entry[i].buffptr # NULL
       PROVE  LET e == buffer.entry[i]
              IN  /\ e.buffptr \in allocated' /\ mem'[e.buffptr] = mem[e.buffptr]
                  /\ e.size = Len(mem'[e.buffptr])
  <2> DEFINE p == buffer.entry[i].buffptr
  <2>1. p \in allocated /\ buffer.entry[i].size = Len(mem[p])
    BY <1>2, <1>11 DEF DriverInv, MemorySafe, Live
  <2>2. p # partial_entry.buffptr /\ p # old.buffptr /\ p # buffptr[t]
    BY <1>2, <1>3, <1>11 DEF DriverInv, MemorySafe
  <2> QED
    BY <1>4, <2>1, <2>2
<1>12. ASSUME NEW i \in Slots
       PROVE  Live(buffer.entry[i])'
  <2>1. CASE i = in
    BY <1>2, <1>4, <1>7, <2>1 DEF Live
  <2>2. CASE i # in
    BY <1>7, <1>11, <2>2 DEF Live
  <2> QED
    BY <2>1, <2>2
<1>13. ASSUME NEW i \in Slots, NEW j \in Slots, i # j,
              buffer'.entry[i].buffptr = buffer'.entry[j].buffptr
       PROVE  buffer'.entry[i].buffptr = NULL
  BY <1>2, <1>7, <1>13 DEF DriverInv, MemorySafe
<1>14. MemorySafe'
  BY <1>1, <1>9, <1>12, <1>13 DEF MemorySafe, Live, NullEntry
<1>15. ASSUME NEW i \in Slots, buffer'.entry[i].buffptr # NULL
       PROVE  LET e == buffer'.entry[i]
              IN  e.size > 0 /\ mem'[e.buffptr][e.size] = NL
  <2>1. CASE i = in
    BY <1>1, <1>2, <1>4, <1>7, <2>1
  <2>2. CASE i # in
    BY <1>2, <1>7, <1>11, <1>15, <2>2 DEF DriverInv, CommandsTerminated
  <2> QED
    BY <2>1, <2>2
<1>16. CommandsTerminated'
  BY <1>1, <1>15 DEF CommandsTerminated, NullEntry
<1> QED
  BY <1>6, <1>8, <1>10, <1>14, <1>16 DEF DriverInv

-----------------------------------------------------------------------------

LEMMA NextInv == DriverInv /\ [Next]_vars => DriverInv'
<1> SUFFICES ASSUME DriverInv, [Next]_vars PROVE DriverInv'
  OBVIOUS
<1>1. CASE aesd_init_module
  BY <1>1, InitModuleInv
<1>2. CASE aesd_cleanup_module
  BY <1>2, CleanupModuleInv
<1>3. ASSUME NEW t \in Task,
             Starts(t) \/ lock(t) \/ lock_interrupted(t) \/ Step(t)
      PROVE  DriverInv'
  <2>1. CASE write_kmalloc(t)
    BY <2>1, KmallocInv
  <2>2. CASE write_efault(t)
    BY <2>2, EfaultInv
  <2>3. CASE write_store(t)
    <3>1. commit(t) \/ keep_partial(t)
      BY <2>3 DEF write_store
    <3> QED
      BY <2>3, <3>1, CommitInv, KeepPartialInv
  <2>4. CASE ~(write_kmalloc(t) \/ write_efault(t) \/ write_store(t))
    <3>1. QuietStep
      BY <1>3, <2>4, QuietActions DEF Starts, Step
    <3> QED
      BY <3>1, QuietKeepsInv
  <2> QED
    BY <2>1, <2>2, <2>3, <2>4
<1>4. CASE UNCHANGED vars
  BY <1>4, UnchangedIsQuiet, QuietKeepsInv
<1> QED
  BY <1>1, <1>2, <1>3, <1>4 DEF Next

\* The invariant holds in every reachable state.
THEOREM DriverInvariant == Spec => []DriverInv
BY InitInv, NextInv, PTL DEF Spec

\* The device, the heap and the calls in progress keep their types.
THEOREM DeviceTyped == Spec => []DeviceTypeOK
<1>1. DriverInv => DeviceTypeOK
  BY DEF DriverInv
<1> QED
  BY <1>1, DriverInvariant, PTL

\* No pointer the driver keeps is ever dangling or shared: aesd_write never
\* frees twice and neither aesd_read nor a later write touches freed memory.
THEOREM DriverMemorySafe == Spec => []MemorySafe
<1>1. DriverInv => MemorySafe
  BY DEF DriverInv
<1> QED
  BY <1>1, DriverInvariant, PTL

\* The buffer only ever holds complete commands, and the partial entry never
\* does.
THEOREM DriverCommandsTerminated == Spec => []CommandsTerminated
<1>1. DriverInv => CommandsTerminated
  BY DEF DriverInv
<1> QED
  BY <1>1, DriverInvariant, PTL
-----------------------------------------------------------------------------
(* The heap is what the driver reaches and what the removals have lost.    *)

Lost == allocated \ Reachable

\* A set may have a small cardinality to TLAPS only if it is finite.
LeakInv == IsFiniteSet(Lost) /\ Cardinality(Lost) <= unloads

\* A step that loses nothing.
LEMMA NothingLost ==
  ASSUME DriverInv, LeakInv, Lost' \subseteq Lost, unloads' = unloads
  PROVE  LeakInv'
<1>1. Lost' \in SUBSET Lost /\ IsFiniteSet(Lost) /\ Cardinality(Lost) <= unloads
  BY DEF LeakInv
<1>2. IsFiniteSet(Lost') /\ Cardinality(Lost') <= Cardinality(Lost)
  BY <1>1, FS_Subset
<1>3. Cardinality(Lost) \in Nat /\ Cardinality(Lost') \in Nat /\ unloads \in Nat
  BY <1>1, <1>2, FS_CardinalityType DEF DriverInv, DeviceTypeOK
<1> QED
  BY <1>1, <1>2, <1>3 DEF LeakInv

\* aesd_cleanup_module loses the partial entry, if there is one.
LEMMA CleanupLoses ==
  ASSUME DriverInv, LeakInv, aesd_cleanup_module
  PROVE  LeakInv'
<1> DEFINE T == Lost \cup {partial_entry.buffptr}
<1>1. /\ loaded /\ allocated' = allocated \ EntryPtrs /\ unloads' = unloads + 1
      /\ \A t \in Task : pc[t] # "w_copy"
  BY DEF aesd_cleanup_module, Freed
<1>2. Lost' \in SUBSET T
  BY <1>1 DEF Lost, Reachable
<1>3. IsFiniteSet(Lost) /\ Cardinality(Lost) <= unloads
  BY DEF LeakInv
<1>4. /\ IsFiniteSet(T)
      /\ Cardinality(T) = IF partial_entry.buffptr \in Lost THEN Cardinality(Lost)
                                                            ELSE Cardinality(Lost) + 1
  BY <1>3, FS_AddElement
<1> HIDE DEF T
<1>5. IsFiniteSet(Lost') /\ Cardinality(Lost') <= Cardinality(T)
  BY <1>2, <1>4, FS_Subset
<1>6. /\ Cardinality(Lost) \in Nat /\ Cardinality(Lost') \in Nat
      /\ Cardinality(T) \in Nat /\ unloads \in Nat
  BY <1>3, <1>4, <1>5, FS_CardinalityType DEF DriverInv, DeviceTypeOK
<1>7. Cardinality(T) <= Cardinality(Lost) + 1
  BY <1>4, <1>6
<1> QED
  BY <1>1, <1>3, <1>5, <1>6, <1>7 DEF LeakInv

\* Every other step frees what it stops reaching, and reaches what it allocates.
LEMMA LeakStep ==
  ASSUME DriverInv, LeakInv, [Next]_vars
  PROVE  LeakInv'
<1>1. CASE aesd_init_module
  <2>1. UNCHANGED <<allocated, unloads, pc>> /\ ~loaded
    BY <1>1 DEF aesd_init_module, heap
  <2>2. Reachable = {}
    BY <2>1 DEF Reachable, DriverInv, OpenInv
  <2>3. Lost' \subseteq Lost
    BY <2>1, <2>2 DEF Lost
  <2> QED
    BY <2>1, <2>3, NothingLost
<1>2. CASE aesd_cleanup_module
  BY <1>2, CleanupLoses
<1>3. ASSUME NEW t \in Task, write_kmalloc(t) PROVE LeakInv'
  <2>1. PICK p \in Ptr \ allocated :
          /\ allocated' = allocated \cup {p}
          /\ buffptr' = [buffptr EXCEPT ![t] = p]
    BY <1>3 DEF write_kmalloc
  <2>2. /\ UNCHANGED <<loaded, unloads, buffer, partial_entry>>
        /\ pc[t] = "w_alloc" /\ pc' = [pc EXCEPT ![t] = "w_copy"]
    BY <1>3 DEF write_kmalloc, module, dev
  <2>3. pc'[t] = "w_copy" /\ buffptr'[t] = p
    BY <2>1, <2>2 DEF DriverInv, DeviceTypeOK
  <2>4. p \in Reachable'
    BY <2>3 DEF Reachable
  <2>5. Reachable \subseteq Reachable'
    BY <2>1, <2>2 DEF Reachable, EntryPtrs, DriverInv, DeviceTypeOK
  <2> QED
    BY <2>1, <2>2, <2>4, <2>5, NothingLost DEF Lost
<1>4. ASSUME NEW t \in Task, write_efault(t) PROVE LeakInv'
  <2>1. /\ UNCHANGED <<loaded, unloads, buffer, partial_entry, buffptr>>
        /\ pc[t] = "w_copy" /\ pc' = [pc EXCEPT ![t] = "out"]
        /\ allocated' = allocated \ {buffptr[t]}
    BY <1>4 DEF write_efault, FaultFrees, FaultGoto, Freed, Returns, module, dev
  <2>2. Reachable \subseteq Reachable' \cup {buffptr[t]}
    BY <2>1 DEF Reachable, EntryPtrs, DriverInv, DeviceTypeOK
  <2> QED
    BY <2>1, <2>2, NothingLost DEF Lost
<1>5. ASSUME NEW t \in Task, write_store(t), keep_partial(t) PROVE LeakInv'
  <2>1. /\ UNCHANGED <<loaded, unloads, buffer, buffptr>>
        /\ pc[t] = "w_copy" /\ partial_entry' = NewEntry(t)
        /\ allocated' = allocated \ {partial_entry.buffptr}
    BY <1>5 DEF write_store, keep_partial, FreedAndWritten, module
  <2>2. /\ loaded /\ NewEntry(t).buffptr = buffptr[t]
        /\ \A u \in Task : pc[u] = "w_copy" => u = t
        /\ buffptr[t] # NULL
    BY <2>1, StoreFacts, PtrAssumption
  <2>3. Reachable \subseteq Reachable' \cup {partial_entry.buffptr}
    BY <2>1, <2>2 DEF Reachable, EntryPtrs
  <2> QED
    BY <2>1, <2>3, NothingLost DEF Lost
<1>6. ASSUME NEW t \in Task, write_store(t), commit(t) PROVE LeakInv'
  <2> DEFINE old == Overwritten(buffer)
             in  == buffer.in_offs
  <2>1. /\ UNCHANGED <<loaded, unloads, buffptr>>
        /\ pc[t] = "w_copy"
        /\ buffer' = aesd_circular_buffer_add_entry(buffer, NewEntry(t))
        /\ allocated' = allocated \ {partial_entry.buffptr, old.buffptr}
    BY <1>6 DEF write_store, commit, FreedAndWritten, module
  <2>2. /\ loaded /\ NewEntry(t).buffptr = buffptr[t] /\ NewEntry(t) \in EntryOf(Ptr)
        /\ \A u \in Task : pc[u] = "w_copy" => u = t
        /\ buffptr[t] # NULL
    BY <2>1, StoreFacts, PtrAssumption
  <2>3. /\ in \in Slots /\ old = buffer.entry[in] /\ buffer \in BufferOf(Ptr)
        /\ buffer.entry \in [Slots -> EntryOf(Ptr)]
    BY DEF DriverInv, DeviceTypeOK, BufferOf, Overwritten
  <2>4. buffer'.entry = [buffer.entry EXCEPT ![in] = NewEntry(t)]
    BY <2>1, <2>2, <2>3, AddEntryFields
  <2> HIDE DEF in, old
  <2>5. EntryPtrs \subseteq EntryPtrs' \cup {old.buffptr}
    <3> SUFFICES ASSUME NEW i \in Slots, buffer.entry[i].buffptr # NULL, i # in
                 PROVE  buffer.entry[i].buffptr \in EntryPtrs'
      BY <2>3 DEF EntryPtrs
    <3>1. buffer'.entry[i] = buffer.entry[i]
      BY <2>3, <2>4
    <3> QED
      BY <3>1 DEF EntryPtrs
  <2>6. buffptr[t] \in EntryPtrs'
    <3>1. buffer'.entry[in].buffptr = buffptr[t]
      BY <2>2, <2>3, <2>4
    <3> QED
      BY <2>2, <2>3, <3>1 DEF EntryPtrs
  <2>7. Reachable \subseteq Reachable' \cup {partial_entry.buffptr, old.buffptr}
    BY <2>1, <2>2, <2>5, <2>6 DEF Reachable
  <2> QED
    BY <2>1, <2>7, NothingLost DEF Lost
<1>7. CASE QuietStep
  <2>1. UNCHANGED <<loaded, unloads, buffer, partial_entry, allocated>>
    BY <1>7 DEF QuietStep
  <2>2. Reachable \subseteq Reachable'
    BY <1>7 DEF QuietStep, Reachable, EntryPtrs
  <2> QED
    BY <2>1, <2>2, NothingLost DEF Lost
<1>8. CASE UNCHANGED vars
  BY <1>7, <1>8, UnchangedIsQuiet
<1>9. ASSUME NEW t \in Task, Starts(t) \/ lock(t) \/ lock_interrupted(t) \/ Step(t)
      PROVE  LeakInv'
  <2>1. CASE write_kmalloc(t) \/ write_efault(t)
    BY <1>3, <1>4, <2>1
  <2>2. CASE write_store(t)
    BY <1>5, <1>6, <2>2 DEF write_store
  <2>3. CASE ~(write_kmalloc(t) \/ write_efault(t) \/ write_store(t))
    <3>1. QuietStep
      BY <1>9, <2>3, QuietActions DEF Starts, Step
    <3> QED
      BY <1>7, <3>1
  <2> QED
    BY <2>1, <2>2, <2>3
<1> QED
  BY <1>1, <1>2, <1>8, <1>9 DEF Next

\* Whatever fails, is overwritten or is interrupted, the heap holds what the
\* driver can still reach and at most one partial entry for each time the module
\* was removed.
THEOREM NothingLeaks == Spec => []LeakBound
<1>1. Init => LeakInv
  <2>1. ASSUME Init PROVE Lost = {} /\ unloads = 0
    BY <2>1 DEF Init, Lost
  <2> QED
    BY <2>1, FS_EmptySet DEF LeakInv
<1>2. DriverInv /\ LeakInv /\ [Next]_vars => LeakInv'
  BY LeakStep
<1>3. LeakInv => LeakBound
  BY DEF LeakInv, LeakBound, Lost
<1> QED
  BY <1>1, <1>2, <1>3, DriverInvariant, PTL DEF Spec

-----------------------------------------------------------------------------
(* The variables of the calls: positions, results and the scan of ioctl.   *)

Retvals == {"none", "ok", "eof", "EINTR", "ENOMEM", "EFAULT", "EINVAL", "ENOTTY"}

CallTypeOK ==
  /\ f_pos \in [Task -> Nat]
  /\ seekto_arg \in [Task -> [write_cmd : Nat, write_cmd_offset : Nat]]
  /\ index \in [Task -> 0 .. MAX]
  /\ offset \in [Task -> Nat]
  /\ got \in [Task -> Seq(Byte)]
  /\ retval \in [Task -> Retvals]

\* What aesd_read finds at a position: NULL at the end of the last command, or an
\* entry with a byte there, whose memory is the driver's.
LEMMA FoundFacts ==
  ASSUME DriverInv, loaded, NEW t \in Task, f_pos[t] \in Nat
  PROVE  \/ /\ Found(t) = NULL
            /\ \A i \in Slots : RunningTotal(buffer)[i] <= f_pos[t]
         \/ \E i \in Slots :
              LET begin == IF i = 0 THEN 0 ELSE RunningTotal(buffer)[i - 1]
                  entry == buffer.entry[ReadSlot(buffer, i)]
              IN  /\ Found(t) = [index |-> ReadSlot(buffer, i),
                                 entry_offset |-> f_pos[t] - begin]
                  /\ begin \in Nat /\ begin <= f_pos[t]
                  /\ f_pos[t] < begin + entry.size
                  /\ RunningTotal(buffer)[i] = begin + entry.size
                  /\ ReadSlot(buffer, i) \in Slots /\ i < Count(buffer)
                  /\ entry.buffptr \in Ptr /\ entry.size \in Nat
                  /\ mem[entry.buffptr] \in Seq(Byte)
                  /\ entry.size = Len(mem[entry.buffptr])
<1> DEFINE T == RunningTotal(buffer)
<1>1. buffer \in BufferOf(Ptr) /\ WellFormed(buffer)
  BY DEF DriverInv, DeviceTypeOK
<1>2. CASE Found(t) = NULL /\ \A i \in Slots : T[i] <= f_pos[t]
  BY <1>2
<1>3. ASSUME NEW i \in Slots, NEW begin \in Nat,
             begin = IF i = 0 THEN 0 ELSE T[i - 1],
             Found(t) = [index |-> ReadSlot(buffer, i), entry_offset |-> f_pos[t] - begin],
             begin <= f_pos[t], f_pos[t] < T[i],
             T[i] = begin + buffer.entry[ReadSlot(buffer, i)].size,
             ReadSlot(buffer, i) \in Slots
      PROVE  LET entry == buffer.entry[ReadSlot(buffer, i)]
             IN  /\ f_pos[t] < begin + entry.size /\ i < Count(buffer)
                 /\ entry.buffptr \in Ptr /\ entry.size \in Nat
                 /\ mem[entry.buffptr] \in Seq(Byte)
                 /\ entry.size = Len(mem[entry.buffptr])
  <2> HIDE DEF T
  <2> DEFINE entry == buffer.entry[ReadSlot(buffer, i)]
  <2>1. entry.size \in Nat /\ entry.buffptr \in Ptr \cup {NULL}
    BY <1>1, <1>3 DEF BufferOf, EntryOf
  <2>2. entry.size # 0
    BY <1>3, <2>1
  <2>3. entry # NullEntry
    BY <2>2 DEF NullEntry
  <2>4. ~(i >= Count(buffer)) /\ Count(buffer) \in 0 .. MAX
    BY <1>1, <2>3, CountValue DEF WellFormed
  <2>5. i < Count(buffer)
    BY <2>4 DEF Slots
  <2>6. entry.buffptr # NULL
    BY <1>1, <2>5 DEF WellFormed
  <2>7. entry.size = Len(mem[entry.buffptr])
    BY <1>3, <2>6 DEF DriverInv, MemorySafe, Live
  <2>8. mem[entry.buffptr] \in Seq(Byte)
    BY <2>1, <2>6 DEF DriverInv, DeviceTypeOK
  <2> QED
    BY <1>3, <2>1, <2>5, <2>6, <2>7, <2>8
<1>4. \/ Found(t) = NULL /\ \A i \in Slots : T[i] <= f_pos[t]
      \/ \E i \in Slots :
           LET begin == IF i = 0 THEN 0 ELSE T[i - 1]
           IN  /\ Found(t) = [index |-> ReadSlot(buffer, i), entry_offset |-> f_pos[t] - begin]
               /\ begin <= f_pos[t] /\ f_pos[t] < T[i]
               /\ T[i] = begin + buffer.entry[ReadSlot(buffer, i)].size
               /\ begin \in Nat
               /\ ReadSlot(buffer, i) \in Slots
  BY <1>1, FindValue DEF Found
<1> QED
  BY <1>2, <1>3, <1>4

LEMMA CallTypes ==
  ASSUME DriverInv, CallTypeOK, [Next]_vars
  PROVE  CallTypeOK'
<1>1. CASE aesd_init_module \/ aesd_cleanup_module \/ UNCHANGED vars
  BY <1>1 DEF aesd_init_module, aesd_cleanup_module, vars, result, scan, CallTypeOK
<1>2. ASSUME NEW t \in Task,
             \/ aesd_open(t) \/ lock(t) \/ lock_interrupted(t) \/ out(t) \/ write_kmalloc(t)
             \/ write_enomem(t) \/ write_oops(t) \/ write_efault(t) \/ read_eof(t)
             \/ read_efault(t)
      PROVE  CallTypeOK'
  <2>1. UNCHANGED <<f_pos, scan, got>>
    BY <1>2
    DEF aesd_open, lock, lock_interrupted, out, write_kmalloc, write_enomem, write_oops,
        write_efault, read_eof, read_efault, result
  <2>2. retval' = retval \/ \E v \in Retvals : retval' = [retval EXCEPT ![t] = v]
    <3>1. \/ retval' = retval
          \/ \E v \in {"EINTR", "ENOMEM", "EFAULT", "eof"} : retval' = [retval EXCEPT ![t] = v]
      BY <1>2
      DEF aesd_open, lock, lock_interrupted, out, write_kmalloc, write_enomem, write_oops,
          write_efault, read_eof, read_efault, Returns, result
    <3> QED
      BY <3>1 DEF Retvals
  <2>3. retval' \in [Task -> Retvals]
    BY <2>2 DEF CallTypeOK
  <2> QED
    BY <2>1, <2>3 DEF CallTypeOK, scan
<1>3. ASSUME NEW t \in Task,
             aesd_release(t) \/ call_write(t) \/ call_read(t) \/ ioctl_enotty(t)
      PROVE  CallTypeOK'
  <2>1. /\ f_pos' = f_pos \/ f_pos' = [f_pos EXCEPT ![t] = 0]
        /\ got' = [got EXCEPT ![t] = << >>]
        /\ \E v \in {"none", "ENOTTY"} : retval' = [retval EXCEPT ![t] = v]
        /\ UNCHANGED <<seekto_arg, index, offset>>
    BY <1>3 DEF aesd_release, call_write, call_read, ioctl_enotty, Enter, scan
  <2>2. f_pos' \in [Task -> Nat]
    BY <2>1 DEF CallTypeOK
  <2>3. retval' \in [Task -> Retvals]
    BY <2>1 DEF CallTypeOK, Retvals
  <2> QED
    BY <2>1, <2>2, <2>3 DEF CallTypeOK
<1>4. ASSUME NEW t \in Task, write_store(t) PROVE CallTypeOK'
  <2>1. NewEntry(t).size \in Nat
    BY <1>4, StoreFacts DEF write_store, EntryOf
  <2> QED
    BY <1>4, <2>1 DEF write_store, Returns, scan, CallTypeOK, Retvals
<1>5. ASSUME NEW t \in Task, read_copy(t) PROVE CallTypeOK'
  <2>1. loaded /\ f_pos[t] \in Nat /\ Found(t) # NULL
    BY <1>5 DEF read_copy, DriverInv, OpenInv, CallTypeOK
  <2>2. PICK i \in Slots, begin \in Nat :
          LET entry == buffer.entry[ReadSlot(buffer, i)]
          IN  /\ Found(t) = [index |-> ReadSlot(buffer, i), entry_offset |-> f_pos[t] - begin]
              /\ begin <= f_pos[t] /\ f_pos[t] < begin + entry.size
              /\ entry.size \in Nat /\ mem[entry.buffptr] \in Seq(Byte)
              /\ entry.size = Len(mem[entry.buffptr])
    BY <2>1, FoundFacts
  <2> DEFINE entry == buffer.entry[ReadSlot(buffer, i)]
             o == f_pos[t] - begin
             g == SubSeq(mem[entry.buffptr], o + 1, entry.size)
  <2>3. Found(t).index = ReadSlot(buffer, i) /\ Found(t).entry_offset = o
    BY <2>2
  <2>4. /\ got' = [got EXCEPT ![t] = g]
        /\ f_pos' = [f_pos EXCEPT ![t] = @ + (entry.size - o)]
        /\ retval' = [retval EXCEPT ![t] = "ok"] /\ UNCHANGED scan
    BY <1>5, <2>3 DEF read_copy, Returns
  <2>5. o \in Nat /\ entry.size - o \in Nat /\ entry.size \in Nat
    BY <2>1, <2>2
  <2>6. g \in Seq(Byte)
    <3> DEFINE m == mem[entry.buffptr]
    <3>1. m \in Seq(Byte) /\ entry.size = Len(m)
      BY <2>2
    <3> HIDE DEF m, entry, o
    <3>2. \A j \in (o + 1) .. entry.size : j \in 1 .. Len(m)
      BY <2>5, <3>1
    <3>3. SubSeq(m, o + 1, entry.size) \in Seq(Byte)
      BY <2>5, <3>1, <3>2, SubSeqProperties
    <3> QED
      BY <3>3 DEF m
  <2>7. f_pos[t] + (entry.size - o) \in Nat
    BY <2>1, <2>5
  <2> HIDE DEF entry, o, g
  <2> QED
    BY <2>4, <2>6, <2>7 DEF CallTypeOK, Retvals, scan
<1>6. ASSUME NEW t \in Task, NEW off \in Int, NEW whence, Seeks(t, off, whence)
      PROVE  f_pos' \in [Task -> Nat] /\ retval' \in [Task -> Retvals]
  <2> DEFINE p == NewPos(f_pos[t], off, whence)
  <2>1. p \in Int
    BY DEF NewPos, CallTypeOK
  <2>2. CASE p >= 0
    <3>1. f_pos' = [f_pos EXCEPT ![t] = p] /\ retval' = [retval EXCEPT ![t] = "ok"]
      BY <1>6, <2>1, <2>2 DEF Seeks, EINVAL
    <3>2. p \in Nat
      BY <2>1, <2>2
    <3> HIDE DEF p
    <3> QED
      BY <3>1, <3>2 DEF CallTypeOK, Retvals
  <2>3. CASE ~(p >= 0)
    <3>1. f_pos' = f_pos /\ retval' = [retval EXCEPT ![t] = "EINVAL"]
      BY <1>6, <2>1, <2>3 DEF Seeks, EINVAL
    <3> QED
      BY <3>1 DEF CallTypeOK, Retvals
  <2> QED
    BY <2>2, <2>3
<1>7. ASSUME NEW t \in Task, aesd_llseek(t) PROVE CallTypeOK'
  <2>1. PICK off \in Offset, whence \in {"SEEK_SET", "SEEK_CUR", "SEEK_END"} :
          Seeks(t, off, whence)
    BY <1>7 DEF aesd_llseek
  <2>2. f_pos' \in [Task -> Nat] /\ retval' \in [Task -> Retvals]
    BY <1>6, <2>1, ArgAssumption
  <2>3. got' = [got EXCEPT ![t] = << >>] /\ UNCHANGED <<seekto_arg, index, offset>>
    BY <1>7 DEF aesd_llseek, scan
  <2> QED
    BY <2>2, <2>3 DEF CallTypeOK
<1>8. ASSUME NEW t \in Task, ioctl_seekto(t) PROVE CallTypeOK'
  <2>1. SeekArg \cup {ZeroArg} \subseteq [write_cmd : Nat, write_cmd_offset : Nat]
    BY ArgAssumption DEF ZeroArg
  <2> QED
    BY <1>8, <2>1, MaxAssumption DEF ioctl_seekto, Enter, CallTypeOK, Retvals
<1>9. ASSUME NEW t \in Task, ioctl_turn(t) PROVE CallTypeOK'
  <2>1. index[t] \in Slots /\ index[t] + 1 \in 0 .. MAX
    <3>1. index[t] \in 0 .. MAX /\ index[t] # MAX
      BY <1>9 DEF ioctl_turn, ScanEnds, CallTypeOK
    <3> QED
      BY <3>1, MaxAssumption DEF Slots
  <2>2. buffer.entry[index[t]].size \in Nat
    BY <2>1 DEF DriverInv, DeviceTypeOK, BufferOf, EntryOf
  <2>3. /\ offset' = [offset EXCEPT ![t] = @ + buffer.entry[index[t]].size]
        /\ index' = [index EXCEPT ![t] = @ + 1]
        /\ UNCHANGED <<f_pos, seekto_arg, got, retval>>
    BY <1>9 DEF ioctl_turn, result
  <2>4. offset[t] + buffer.entry[index[t]].size \in Nat
    BY <2>2 DEF CallTypeOK
  <2> QED
    BY <2>1, <2>3, <2>4 DEF CallTypeOK
<1>10. ASSUME NEW t \in Task, ioctl_seek(t) PROVE CallTypeOK'
  <2>1. offset[t] + seekto_arg[t].write_cmd_offset \in Int
    BY DEF CallTypeOK
  <2>2. f_pos' \in [Task -> Nat] /\ retval' \in [Task -> Retvals]
    BY <1>6, <1>10, <2>1 DEF ioctl_seek
  <2>3. /\ seekto_arg' = [seekto_arg EXCEPT ![t] = ZeroArg]
        /\ index' = [index EXCEPT ![t] = 0] /\ offset' = [offset EXCEPT ![t] = 0]
        /\ UNCHANGED got
    BY <1>10 DEF ioctl_seek
  <2> QED
    BY <2>2, <2>3, MaxAssumption DEF CallTypeOK, ZeroArg
<1> QED
  BY <1>1, <1>2, <1>3, <1>4, <1>5, <1>7, <1>8, <1>9, <1>10 DEF Next, Starts, Step

\* Every variable keeps its type: in particular no file has a negative position
\* and no read is handed a negative offset, whatever the calls do.
THEOREM DriverTyped == Spec => []TypeOK
<1>1. Init => CallTypeOK
  BY MaxAssumption DEF Init, CallTypeOK, ZeroArg, Retvals
<1>2. DriverInv /\ CallTypeOK /\ [Next]_vars => CallTypeOK'
  BY CallTypes
<1>3. DriverInv /\ CallTypeOK => TypeOK
  BY DEF DriverInv, CallTypeOK, TypeOK, Retvals
<1> QED
  BY <1>1, <1>2, <1>3, DriverInvariant, PTL DEF Spec
=============================================================================

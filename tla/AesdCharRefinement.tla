------------------------- MODULE AesdCharRefinement -------------------------
(***************************************************************************)
(* What the users of the device may rely on.                               *)
(*                                                                         *)
(* The driver implements the command log of CommandLog: the initial states *)
(* map to initial states and every step to a step of the log or to none.   *)
(* From there: successive reads of a file follow the log, and the ioctl    *)
(* finds a command when nobody stores one during its loop.                 *)
(***************************************************************************)
EXTENDS AesdCharProofs, AesdCharSession

\* A call delivers nothing before its last step.
GotInv == \A t \in Task :
            pc[t] \in {"w_lock", "w_alloc", "w_copy", "r_lock", "r_body", "io_scan"}
              => got[t] = << >>

\* What the steps are mapped under.
RInv == DriverInv /\ CallTypeOK /\ GotInv

LEMMA GotStep ==
  ASSUME DriverInv, CallTypeOK, GotInv, [Next]_vars
  PROVE  GotInv'
<1>1. pc \in [Task -> PCs] /\ got \in [Task -> Seq(Byte)]
  BY DEF DriverInv, DeviceTypeOK, CallTypeOK
<1>2. CASE aesd_init_module \/ aesd_cleanup_module \/ UNCHANGED vars
  BY <1>2 DEF aesd_init_module, aesd_cleanup_module, vars, result, GotInv
<1>3. ASSUME NEW t \in Task,
             \/ aesd_release(t) \/ call_write(t) \/ call_read(t) \/ ioctl_seekto(t)
             \/ aesd_llseek(t) \/ ioctl_enotty(t)
      PROVE  GotInv'
  <2>1. /\ got' = [got EXCEPT ![t] = << >>]
        /\ pc' = pc \/ \E p : pc' = [pc EXCEPT ![t] = p]
    BY <1>3
    DEF aesd_release, call_write, call_read, ioctl_seekto, aesd_llseek, ioctl_enotty, Enter
  <2> QED
    BY <1>1, <2>1 DEF GotInv
<1>4. ASSUME NEW t \in Task,
             \/ aesd_open(t) \/ lock_interrupted(t) \/ out(t) \/ write_enomem(t)
             \/ write_oops(t) \/ write_efault(t) \/ write_store(t) \/ read_eof(t)
             \/ read_efault(t) \/ ioctl_seek(t)
      PROVE  GotInv'
  <2>1. got' = got /\ \E p \in {"user", "out", "oops"} : pc' = [pc EXCEPT ![t] = p]
    BY <1>4
    DEF aesd_open, lock_interrupted, out, write_enomem, write_oops, write_efault, write_store,
        read_eof, read_efault, ioctl_seek, Returns, FaultGoto, result
  <2> QED
    BY <1>1, <2>1 DEF GotInv
<1>5. ASSUME NEW t \in Task, lock(t) \/ write_kmalloc(t) \/ ioctl_turn(t)
      PROVE  GotInv'
  <2>1. /\ got' = got /\ pc[t] \in {"w_lock", "r_lock", "w_alloc", "io_scan"}
        /\ pc' = pc \/ \E p : pc' = [pc EXCEPT ![t] = p]
    BY <1>5 DEF lock, write_kmalloc, ioctl_turn, result
  <2> QED
    BY <1>1, <2>1 DEF GotInv
<1>6. ASSUME NEW t \in Task, read_copy(t) PROVE GotInv'
  <2>1. pc' = [pc EXCEPT ![t] = "out"] /\ \E g : got' = [got EXCEPT ![t] = g]
    BY <1>6 DEF read_copy, Returns
  <2> QED
    BY <1>1, <2>1 DEF GotInv
<1> QED
  BY <1>2, <1>3, <1>4, <1>5, <1>6 DEF Next, Starts, Step

LEMMA RInvInit == Init => RInv
<1>1. ASSUME Init PROVE CallTypeOK /\ GotInv
  BY <1>1, MaxAssumption DEF Init, CallTypeOK, ZeroArg, Retvals, GotInv
<1> QED
  BY <1>1, InitInv DEF RInv

LEMMA RInvStep == RInv /\ [Next]_vars => RInv'
BY NextInv, CallTypes, GotStep DEF RInv

-----------------------------------------------------------------------------
(* The commands in the buffer.                                             *)

\* Entry number i of a log, in its slot.
LEMMA LogPointers ==
  ASSUME NEW b \in BufferOf(Ptr), WellFormed(b), NEW i \in 1 .. Count(b)
  PROVE  /\ i - 1 \in Slots /\ ReadSlot(b, i - 1) \in Slots
         /\ Log(b)[i] = b.entry[ReadSlot(b, i - 1)]
         /\ Log(b)[i] \in EntryOf(Ptr)
         /\ Log(b)[i].buffptr \in Ptr /\ Log(b)[i].buffptr # NULL
<1>1. Count(b) \in 0 .. MAX
  BY CountValue
<1>2. i - 1 \in Slots /\ i - 1 < Count(b)
  BY <1>1, MaxAssumption DEF Slots
<1>3. ReadSlot(b, i - 1) \in Slots
  BY <1>2, ReadSlotValue DEF BufferOf, ReadSlot
<1> DEFINE e == b.entry[ReadSlot(b, i - 1)]
<1>4. Log(b)[i] = e
  BY LogIsSeq
<1>5. e \in EntryOf(Ptr) /\ e.buffptr # NULL
  BY <1>2, <1>3 DEF BufferOf, WellFormed
<1>6. e.buffptr \in Ptr
  BY <1>5 DEF EntryOf
<1> QED
  BY <1>2, <1>3, <1>4, <1>5, <1>6

\* The memory of command number i.
LEMMA CommandFacts ==
  ASSUME DriverInv, loaded, NEW i \in 1 .. Count(buffer)
  PROVE  LET e == Log(buffer)[i]
         IN  /\ i - 1 \in Slots /\ ReadSlot(buffer, i - 1) \in Slots
             /\ e = buffer.entry[ReadSlot(buffer, i - 1)]
             /\ e \in EntryOf(Ptr) /\ e.buffptr \in Ptr /\ e.buffptr # NULL
             /\ mem[e.buffptr] \in Seq(Byte) /\ e.size = Len(mem[e.buffptr])
<1> DEFINE e == Log(buffer)[i]
<1>1. /\ i - 1 \in Slots /\ ReadSlot(buffer, i - 1) \in Slots
      /\ e = buffer.entry[ReadSlot(buffer, i - 1)]
      /\ e \in EntryOf(Ptr) /\ e.buffptr \in Ptr /\ e.buffptr # NULL
  BY LogPointers DEF DriverInv, DeviceTypeOK
<1>2. e.size = Len(mem[e.buffptr]) /\ mem[e.buffptr] \in Seq(Byte)
  BY <1>1 DEF DriverInv, DeviceTypeOK, MemorySafe, Live
<1> QED
  BY <1>1, <1>2

LEMMA CommandsValue ==
  ASSUME DriverInv, loaded
  PROVE  /\ Count(buffer) \in Nat
         /\ Commands \in Seq(Seq(Byte)) /\ Len(Commands) = Count(buffer)
         /\ \A i \in 1 .. Count(buffer) : /\ Commands[i] = mem[Log(buffer)[i].buffptr]
                                          /\ Len(Commands[i]) = Log(buffer)[i].size
<1>1. Count(buffer) \in Nat
  BY CountValue, MaxAssumption DEF DriverInv, DeviceTypeOK
<1>2. \A i \in 1 .. Count(buffer) :
        /\ mem[Log(buffer)[i].buffptr] \in Seq(Byte)
        /\ Len(mem[Log(buffer)[i].buffptr]) = Log(buffer)[i].size
  BY CommandFacts
<1> QED
  BY <1>1, <1>2 DEF Commands

\* A step that writes to none of the commands keeps them.
LEMMA CommandsKept ==
  ASSUME DriverInv, loaded, buffer' = buffer,
         \A i \in Slots : buffer.entry[i].buffptr # NULL =>
           mem'[buffer.entry[i].buffptr] = mem[buffer.entry[i].buffptr]
  PROVE  Commands' = Commands
<1>1. \A i \in 1 .. Count(buffer) :
        mem'[Log(buffer)[i].buffptr] = mem[Log(buffer)[i].buffptr]
  BY CommandFacts
<1> QED
  BY <1>1 DEF Commands

\* Where command number i + 1 begins for the lookup loop.
Begin(i) == IF i = 0 THEN 0 ELSE RunningTotal(buffer)[i - 1]

LEMMA BeginSteps ==
  ASSUME DriverInv, loaded
  PROVE  /\ \A i \in 0 .. Count(buffer) : Begin(i) \in Nat
         /\ \A i \in 1 .. Count(buffer) : /\ Log(buffer)[i].size \in Nat
                                          /\ Begin(i) = Begin(i - 1) + Log(buffer)[i].size
<1> DEFINE N == Count(buffer)
           T == RunningTotal(buffer)
<1>1. N \in Nat /\ N \in 0 .. MAX
  BY CommandsValue, CountValue DEF DriverInv, DeviceTypeOK
<1>2. /\ T \in [Slots -> Nat]
      /\ \A i \in Slots :
           T[i] = buffer.entry[ReadSlot(buffer, i)].size + (IF i = 0 THEN 0 ELSE T[i - 1])
  BY RunningTotalValue DEF DriverInv, DeviceTypeOK
<1>3. \A i \in 1 .. N : /\ i - 1 \in Slots /\ Log(buffer)[i].size \in Nat
                        /\ Log(buffer)[i] = buffer.entry[ReadSlot(buffer, i - 1)]
  BY CommandFacts DEF EntryOf
<1> HIDE DEF N, T
<1>4. ASSUME NEW i \in 0 .. N PROVE Begin(i) \in Nat
  <2>1. i # 0 => i \in 1 .. N
    BY <1>1
  <2>2. i # 0 => T[i - 1] \in Nat
    BY <1>2, <1>3, <2>1
  <2> QED
    BY <2>2 DEF Begin, T
<1>5. ASSUME NEW i \in 1 .. N PROVE Begin(i) = Begin(i - 1) + Log(buffer)[i].size
  <2>1. Begin(i) = T[i - 1] /\ Begin(i - 1) = IF i - 1 = 0 THEN 0 ELSE T[(i - 1) - 1]
    BY DEF Begin, T
  <2>2. T[i - 1] = Log(buffer)[i].size + (IF i - 1 = 0 THEN 0 ELSE T[(i - 1) - 1])
    BY <1>2, <1>3
  <2>3. Begin(i - 1) \in Nat /\ Log(buffer)[i].size \in Nat
    BY <1>1, <1>3, <1>4
  <2> QED
    BY <2>1, <2>2, <2>3
<1> QED
  BY <1>3, <1>4, <1>5 DEF N

\* The log's own count of its bytes is the total of the lookup loop.
LEMMA EndsValue ==
  ASSUME DriverInv, loaded
  PROVE  \A i \in 0 .. Count(buffer) : CL!Ends[i] = Begin(i) /\ Begin(i) \in Nat
<1> DEFINE N == Count(buffer)
           C == IF loaded THEN Commands ELSE << >>
           Rec(g) == g = [i \in 0 .. Len(C) |-> IF i = 0 THEN 0 ELSE g[i - 1] + Len(C[i])]
<1>1. /\ N \in Nat /\ N \in 0 .. MAX /\ Len(C) = N
      /\ \A i \in 1 .. N : Len(C[i]) = Log(buffer)[i].size
  BY CommandsValue, CountValue DEF DriverInv, DeviceTypeOK
<1>2. \A i \in 0 .. N : Begin(i) \in Nat
  BY BeginSteps
<1>3. \A i \in 1 .. N : Begin(i) = Begin(i - 1) + Log(buffer)[i].size
  BY BeginSteps
<1> HIDE DEF N, C
<1>4. ASSUME NEW i \in 0 .. N PROVE Begin(i) \in Nat
  BY <1>2
<1>5. ASSUME NEW i \in 1 .. N PROVE Begin(i) = Begin(i - 1) + Len(C[i])
  BY <1>1, <1>3
<1> DEFINE g == [i \in 0 .. N |-> Begin(i)]
<1>6. Rec(g)
  <2>1. ASSUME NEW i \in 0 .. N PROVE g[i] = IF i = 0 THEN 0 ELSE g[i - 1] + Len(C[i])
    <3>1. CASE i = 0
      BY <3>1 DEF Begin
    <3>2. CASE i # 0
      <4>1. i \in 1 .. N /\ i - 1 \in 0 .. N
        BY <1>1, <3>2
      <4> QED
        BY <1>5, <3>2, <4>1
    <3> QED
      BY <3>1, <3>2
  <2> QED
    BY <1>1, <2>1
<1> DEFINE end == CHOOSE h : Rec(h)
<1>7. CL!Ends = end
  BY DEF CL!Ends, C
<1>8. Rec(end)
  <2>1. \E h : Rec(h)
    BY <1>6
  <2> HIDE DEF Rec
  <2> QED
    BY <2>1
<1> HIDE DEF end
<1>9. end[0] = 0 /\ \A i \in 1 .. N : end[i] = end[i - 1] + Len(C[i])
  BY <1>1, <1>8
<1> DEFINE S == {n \in Nat : n <= N => end[n] = Begin(n)}
<1>10. 0 \in S
  BY <1>9 DEF Begin
<1>11. ASSUME NEW n \in Nat, n \in S, n + 1 <= N PROVE end[n + 1] = Begin(n + 1)
  <2>1. n + 1 \in 1 .. N /\ (n + 1) - 1 = n /\ n <= N
    BY <1>1, <1>11
  <2>2. end[n + 1] = end[(n + 1) - 1] + Len(C[n + 1])
    BY <1>9, <2>1
  <2>3. Begin(n + 1) = Begin((n + 1) - 1) + Len(C[n + 1])
    BY <1>5, <2>1
  <2> QED
    BY <1>11, <2>1, <2>2, <2>3
<1>12. \A n \in Nat : n \in S
  <2>1. \A n \in Nat : n \in S => n + 1 \in S
    BY <1>11
  <2> HIDE DEF S
  <2> QED
    BY <1>10, <2>1, NatInduct
<1>13. \A i \in 0 .. N : end[i] = Begin(i)
  BY <1>1, <1>12
<1> QED
  BY <1>4, <1>7, <1>13 DEF N

LEMMA EndsSteps ==
  ASSUME DriverInv, loaded
  PROVE  LET N   == Count(buffer)
             end == [i \in 0 .. N |-> CL!Ends[i]]
         IN  /\ end \in [0 .. N -> Nat] /\ end[0] = 0
             /\ \A k \in 1 .. N : end[k] = end[k - 1] + Len(Commands[k])
<1> DEFINE N == Count(buffer)
           end == [i \in 0 .. N |-> CL!Ends[i]]
<1>1. /\ N \in Nat /\ \A i \in 0 .. N : CL!Ends[i] = Begin(i) /\ Begin(i) \in Nat
  BY EndsValue, CommandsValue
<1>2. ASSUME NEW k \in 1 .. N PROVE Begin(k) = Begin(k - 1) + Len(Commands[k])
  BY BeginSteps, CommandsValue
<1>3. end \in [0 .. N -> Nat] /\ end[0] = 0
  BY <1>1 DEF Begin
<1>4. ASSUME NEW k \in 1 .. N PROVE end[k] = end[k - 1] + Len(Commands[k])
  <2>1. k \in 0 .. N /\ k - 1 \in 0 .. N
    BY <1>1
  <2>2. end[k] = Begin(k) /\ end[k - 1] = Begin(k - 1)
    BY <1>1, <2>1
  <2> HIDE DEF end
  <2> QED
    BY <1>2, <2>2
<1> QED
  BY <1>3, <1>4

LEMMA CommandsTyped == DriverInv /\ loaded => Commands \in Seq(Seq(Byte))
BY CommandsValue

LEMMA CommandsTypedNext == (DriverInv /\ loaded => Commands \in Seq(Seq(Byte)))'
BY CommandsTyped, PTL

-----------------------------------------------------------------------------
(* One lemma for each operation.                                           *)

LEMMA ReadMaps ==
  ASSUME RInv, NEW t \in Task, read_copy(t)
  PROVE  CL!Read(t)
<1>1. DriverInv /\ loaded /\ f_pos[t] \in Nat /\ Found(t) # NULL
  BY DEF RInv, read_copy, DriverInv, OpenInv, CallTypeOK
<1>2. PICK i \in Slots :
        LET entry == buffer.entry[ReadSlot(buffer, i)]
        IN  /\ Found(t) = [index |-> ReadSlot(buffer, i), entry_offset |-> f_pos[t] - Begin(i)]
            /\ Begin(i) \in Nat /\ Begin(i) <= f_pos[t]
            /\ f_pos[t] < Begin(i) + entry.size
            /\ RunningTotal(buffer)[i] = Begin(i) + entry.size
            /\ i < Count(buffer) /\ entry.size \in Nat
  BY <1>1, FoundFacts DEF Begin
<1> DEFINE j == i + 1
           e == buffer.entry[ReadSlot(buffer, i)]
<1>3. j \in 1 .. Count(buffer) /\ j - 1 = i /\ j - 1 \in 0 .. Count(buffer) /\ j \in 0 .. Count(buffer)
  <2>1. Count(buffer) \in Nat /\ i \in Nat /\ i < Count(buffer)
    BY <1>1, <1>2, CommandsValue DEF Slots
  <2> QED
    BY <2>1
<1>4. e = Log(buffer)[j]
  BY <1>1, <1>3, CommandFacts
<1>5. Commands[j] = mem[e.buffptr] /\ Len(Commands[j]) = e.size /\ Len(Commands) = Count(buffer)
  BY <1>1, <1>3, <1>4, CommandsValue
<1>6. Begin(j) = Begin(i) + e.size
  BY <1>2, <1>3 DEF Begin, Slots
<1>7. CL!Ends[j - 1] = Begin(i) /\ CL!Ends[j] = Begin(j)
  BY <1>1, <1>3, EndsValue
<1>8. Found(t).index = ReadSlot(buffer, i) /\ Found(t).entry_offset = f_pos[t] - Begin(i)
  BY <1>2
<1>9. /\ got' = [got EXCEPT ![t] = SubSeq(mem[e.buffptr], f_pos[t] - Begin(i) + 1, e.size)]
      /\ f_pos' = [f_pos EXCEPT ![t] = f_pos[t] + (e.size - (f_pos[t] - Begin(i)))]
      /\ retval' = [retval EXCEPT ![t] = "ok"]
      /\ UNCHANGED <<loaded, buffer, partial_entry, mem>>
  BY <1>8 DEF read_copy, Returns, module, dev, heap
<1>10. Commands' = Commands /\ PartialBytes' = PartialBytes
  BY <1>1, <1>9, CommandsKept DEF PartialBytes
<1> HIDE DEF e, j
<1>11. f_pos[t] + (e.size - (f_pos[t] - Begin(i))) = Begin(j)
  BY <1>1, <1>2, <1>6 DEF e
<1>12. Begin(i) <= f_pos[t] /\ f_pos[t] < Begin(j)
  BY <1>2, <1>6 DEF e
<1> QED
  BY <1>1, <1>3, <1>5, <1>7, <1>9, <1>10, <1>11, <1>12 DEF CL!Read

LEMMA EofMaps ==
  ASSUME RInv, NEW t \in Task, read_eof(t)
  PROVE  CL!ReadAtEnd(t)
<1>1. DriverInv /\ loaded /\ f_pos[t] \in Nat /\ Found(t) = NULL
  BY DEF RInv, read_eof, DriverInv, OpenInv, CallTypeOK
<1>2. \A i \in Slots : RunningTotal(buffer)[i] <= f_pos[t]
  <2>1. ASSUME NEW i \in Slots, NEW begin \in Nat, ReadSlot(buffer, i) \in Slots,
               begin <= f_pos[t],
               Found(t) = [index |-> ReadSlot(buffer, i), entry_offset |-> f_pos[t] - begin]
        PROVE  FALSE
    <3>1. Found(t) \in [index : Slots, entry_offset : Nat]
      BY <1>1, <2>1
    <3> QED
      BY <1>1, <3>1, NullAssumption
  <2> QED
    BY <1>1, <2>1, FoundFacts
<1> DEFINE N == Count(buffer)
<1>3. Len(Commands) = N /\ N \in Nat /\ N \in 0 .. MAX
  BY <1>1, CommandsValue, CountValue DEF DriverInv, DeviceTypeOK
<1>4. CL!Ends[N] = Begin(N)
  BY <1>1, <1>3, EndsValue
<1>5. Begin(N) <= f_pos[t]
  <2>1. N # 0 => N - 1 \in Slots
    BY <1>3, MaxAssumption DEF Slots
  <2> QED
    BY <1>1, <1>2, <2>1 DEF Begin
<1>6. Begin(N) \in Nat
  BY <1>1, <1>3, EndsValue
<1>7. /\ retval' = [retval EXCEPT ![t] = "eof"]
      /\ UNCHANGED <<loaded, buffer, partial_entry, mem, f_pos, got>>
  BY DEF read_eof, Returns, module, dev, heap
<1>8. Commands' = Commands /\ PartialBytes' = PartialBytes
  BY <1>1, <1>7, CommandsKept DEF PartialBytes
<1> HIDE DEF N
<1> QED
  BY <1>1, <1>3, <1>4, <1>5, <1>6, <1>7, <1>8 DEF CL!ReadAtEnd

\* aesd_write appends a command to the log, and the log loses its first one when
\* the buffer is full: the entries that stay keep their bytes.
LEMMA CommitLog ==
  ASSUME RInv, NEW t \in Task, write_store(t), commit(t)
  PROVE  Commands' = Append(IF Len(Commands) = MAX THEN Tail(Commands) ELSE Commands,
                            NewBytes(t))
<1> DEFINE n   == NewEntry(t)
           in  == buffer.in_offs
           old == Overwritten(buffer)
           S   == {partial_entry.buffptr, old.buffptr}
           L   == Log(buffer)
           M   == Log(buffer')
<1>1. /\ DriverInv /\ loaded /\ loaded' = loaded /\ pc[t] = "w_copy"
      /\ buffer' = aesd_circular_buffer_add_entry(buffer, n)
      /\ FreedAndWritten(S, t)
  BY DEF RInv, DriverInv, OpenInv, write_store, commit, module
<1>2. DriverInv'
  BY <1>1, CommitInv
<1>3. /\ buffptr[t] \in Ptr /\ buffptr[t] # NULL
      /\ buffptr[t] # partial_entry.buffptr
      /\ \A i \in Slots : buffptr[t] # buffer.entry[i].buffptr
      /\ n \in EntryOf(Ptr) /\ n.buffptr = buffptr[t] /\ NewBytes(t) \in Seq(Byte)
  BY <1>1, StoreFacts, PtrAssumption
<1>4. /\ in \in Slots /\ old = buffer.entry[in] /\ buffer \in BufferOf(Ptr)
      /\ buffer.entry \in [Slots -> EntryOf(Ptr)] /\ WellFormed(buffer)
      /\ buffer.full \in BOOLEAN
  BY <1>1 DEF DriverInv, DeviceTypeOK, BufferOf, Overwritten
<1>5. /\ mem'[buffptr[t]] = NewBytes(t)
      /\ \A p \in allocated : p # buffptr[t] /\ p \notin S => mem'[p] = mem[p]
  BY <1>1, <1>3, <1>4, StoreHeap
<1>6. buffer'.entry = [buffer.entry EXCEPT ![in] = n]
  BY <1>1, <1>3, <1>4, AddEntryFields
<1>7. /\ buffer.full => Len(L) = MAX /\ M = Append(Tail(L), n)
      /\ ~buffer.full => Len(L) < MAX /\ M = Append(L, n)
  BY <1>1, <1>3, <1>4, AddEntryLog, PtrAssumption
<1>8. /\ L \in Seq(EntryOf(Ptr)) /\ Len(L) = Count(buffer)
  BY <1>4, LogIsSeq
<1>9. /\ Count(buffer) \in Nat /\ Commands \in Seq(Seq(Byte)) /\ Len(Commands) = Count(buffer)
      /\ \A i \in 1 .. Count(buffer) : Commands[i] = mem[L[i].buffptr]
  BY <1>1, CommandsValue
<1>10. /\ buffer' \in BufferOf(Ptr) /\ WellFormed(buffer') /\ mem' \in [Ptr -> Seq(Byte)]
       /\ Count(buffer') \in Nat
  BY <1>1, <1>2, CountValue, MaxAssumption DEF DriverInv, DeviceTypeOK
<1> DEFINE N == Count(buffer')
<1>11. /\ Commands' \in Seq(Seq(Byte)) /\ Len(Commands') = N
       /\ \A i \in 1 .. N : Commands'[i] = mem'[M[i].buffptr]
  <2>1. \A i \in 1 .. N : mem'[M[i].buffptr] \in Seq(Byte)
    BY <1>10, LogPointers
  <2> QED
    BY <1>10, <2>1 DEF Commands
<1>12. Len(M) = N /\ M \in Seq(EntryOf(Ptr))
  BY <1>10, LogIsSeq
<1>13. N \in Nat /\ N > 0 /\ M[N] = n
  <2>1. CASE buffer.full
    <3>1. Tail(L) \in Seq(EntryOf(Ptr)) /\ Len(Tail(L)) \in Nat
      BY <1>7, <1>8, <2>1, MaxAssumption
    <3> QED
      BY <1>3, <1>7, <1>12, <2>1, <3>1, AppendProperties
  <2>2. CASE ~buffer.full
    BY <1>3, <1>7, <1>8, <1>9, <1>12, <2>2, AppendProperties
  <2> QED
    BY <1>4, <2>1, <2>2
<1> HIDE DEF n, in, old, L, M
<1>14. ASSUME NEW i \in 1 .. N, i # N PROVE Commands'[i] = mem[M[i].buffptr]
  <2> DEFINE k == ReadSlot(buffer', i - 1)
             l == ReadSlot(buffer', N - 1)
             p == M[i].buffptr
  <2>1. /\ i - 1 \in Slots /\ k \in Slots /\ M[i] = buffer'.entry[k]
        /\ p \in Ptr /\ p # NULL
    BY <1>10, LogPointers DEF M
  <2>2. N - 1 \in Slots /\ l \in Slots /\ M[N] = buffer'.entry[l]
    BY <1>10, <1>13, LogPointers DEF M
  <2>3. k # l
    BY <1>10, <1>13, <1>14, <2>1, <2>2, ReadSlotInjective DEF BufferOf, ReadSlot
  <2> HIDE DEF k, l
  <2>4. p # buffptr[t]
    BY <1>1, <1>2, <1>3, <1>13, <2>1, <2>2, <2>3 DEF DriverInv, MemorySafe
  <2>5. k # in /\ M[i] = buffer.entry[k]
    BY <1>3, <1>4, <1>6, <2>1, <2>4
  <2>6. p \in allocated /\ p \notin S
    BY <1>1, <1>4, <2>1, <2>5 DEF DriverInv, MemorySafe, Live
  <2>7. mem'[p] = mem[p]
    BY <1>5, <2>4, <2>6
  <2> QED
    BY <1>11, <2>7
<1>15. Commands'[N] = NewBytes(t)
  BY <1>3, <1>5, <1>11, <1>13
<1> DEFINE K == IF Len(Commands) = MAX THEN Tail(Commands) ELSE Commands
           A == Append(K, NewBytes(t))
<1>16. /\ K \in Seq(Seq(Byte)) /\ Len(K) = N - 1
       /\ \A i \in 1 .. N - 1 : K[i] = mem[M[i].buffptr]
  <2>1. CASE buffer.full
    <3>1. /\ Len(L) = MAX /\ M = Append(Tail(L), n) /\ Len(Commands) = MAX /\ L # << >>
          /\ Commands # << >>
      BY <1>7, <1>8, <1>9, <2>1, MaxAssumption
    <3>2. /\ Tail(L) \in Seq(EntryOf(Ptr)) /\ Len(Tail(L)) = MAX - 1
          /\ \A i \in 1 .. MAX - 1 : Tail(L)[i] = L[i + 1]
      BY <1>8, <3>1, HeadTailProperties
    <3>3. /\ Tail(Commands) \in Seq(Seq(Byte)) /\ Len(Tail(Commands)) = MAX - 1
          /\ \A i \in 1 .. MAX - 1 : Tail(Commands)[i] = Commands[i + 1]
      BY <1>9, <3>1, HeadTailProperties
    <3>4. N = MAX /\ \A i \in 1 .. MAX - 1 : M[i] = Tail(L)[i]
      BY <1>3, <1>12, <3>1, <3>2, AppendProperties, MaxAssumption
    <3>5. ASSUME NEW i \in 1 .. N - 1 PROVE K[i] = mem[M[i].buffptr]
      <4>1. i \in 1 .. MAX - 1 /\ i + 1 \in 1 .. Count(buffer)
        BY <1>8, <3>1, <3>4, MaxAssumption
      <4> QED
        BY <1>9, <3>1, <3>2, <3>3, <3>4, <4>1
    <3> QED
      BY <3>1, <3>3, <3>4, <3>5
  <2>2. CASE ~buffer.full
    <3>1. /\ M = Append(L, n) /\ Len(Commands) # MAX /\ K = Commands /\ Len(L) \in Nat
      BY <1>7, <1>8, <1>9, <2>2, MaxAssumption
    <3>2. N = Len(L) + 1 /\ \A i \in 1 .. Len(L) : M[i] = L[i]
      BY <1>3, <1>8, <1>12, <3>1, AppendProperties
    <3>3. N - 1 = Len(L)
      BY <3>1, <3>2
    <3> QED
      BY <1>8, <1>9, <3>1, <3>2, <3>3
  <2> QED
    BY <1>4, <2>1, <2>2
<1> HIDE DEF K, N
<1>17. /\ A \in Seq(Seq(Byte)) /\ Len(A) = N /\ A[N] = NewBytes(t)
       /\ \A i \in 1 .. N - 1 : A[i] = K[i]
  <2>1. (N - 1) + 1 = N
    BY <1>13
  <2> QED
    BY <1>3, <1>16, <2>1, AppendProperties
<1>18. ASSUME NEW i \in 1 .. N PROVE Commands'[i] = A[i]
  <2>1. CASE i = N
    BY <1>15, <1>17, <2>1
  <2>2. CASE i # N
    <3>1. i \in 1 .. N - 1
      BY <1>13, <2>2
    <3> QED
      BY <1>14, <1>16, <1>17, <2>2, <3>1
  <2> QED
    BY <2>1, <2>2
<1> HIDE DEF A
<1>19. Commands' = A
  BY <1>11, <1>17, <1>18, SeqEqual
<1> QED
  BY <1>19 DEF A, K

LEMMA WriteMaps ==
  ASSUME RInv, NEW t \in Task, write_store(t)
  PROVE  CL!Write(t, data[t]) /\ data[t] \in Payload
<1> DEFINE bytes == PartialBytes \o data[t]
           N == NewBytes(t)
<1>1. /\ DriverInv /\ loaded /\ loaded' = loaded /\ pc[t] = "w_copy" /\ data[t] \in Payload
      /\ f_pos' = [f_pos EXCEPT ![t] = f_pos[t] + NewEntry(t).size]
      /\ retval' = [retval EXCEPT ![t] = "ok"] /\ got' = got /\ buffptr' = buffptr
  BY DEF RInv, DriverInv, OpenInv, DataInv, write_store, Returns, module
<1>2. /\ buffptr[t] \in Ptr /\ buffptr[t] # NULL
      /\ buffptr[t] # partial_entry.buffptr
      /\ \A i \in Slots : buffptr[t] # buffer.entry[i].buffptr
      /\ N \in Seq(Byte) /\ NewEntry(t).buffptr = buffptr[t]
      /\ NewEntry(t).size = Len(N) /\ NewEntry(t).size > 0
  BY <1>1, StoreFacts, PtrAssumption
<1>3. bytes = N /\ bytes # << >>
  BY <1>2 DEF NewBytes
<1>4. EndsCommand(t) <=> bytes[Len(bytes)] = NL
  BY <1>2, <1>3 DEF EndsCommand
<1>5. CASE commit(t)
  <2>1. Commands' = Append(IF Len(Commands) = MAX THEN Tail(Commands) ELSE Commands, bytes)
    BY <1>3, <1>5, CommitLog
  <2>2. PartialBytes' = << >> /\ EndsCommand(t)
    BY <1>5 DEF commit, PartialReset, PartialBytes, NullEntry
  <2> HIDE DEF N
  <2> QED
    BY <1>1, <1>2, <1>3, <1>4, <2>1, <2>2 DEF CL!Write
<1>6. CASE keep_partial(t)
  <2>1. /\ ~EndsCommand(t) /\ buffer' = buffer /\ partial_entry' = NewEntry(t)
        /\ FreedAndWritten({partial_entry.buffptr}, t)
    BY <1>6 DEF keep_partial
  <2>2. /\ mem'[buffptr[t]] = N
        /\ \A p \in allocated : p # buffptr[t] /\ p # partial_entry.buffptr => mem'[p] = mem[p]
    BY <1>1, <1>2, <2>1, StoreHeap
  <2>3. ASSUME NEW i \in Slots, buffer.entry[i].buffptr # NULL
        PROVE  mem'[buffer.entry[i].buffptr] = mem[buffer.entry[i].buffptr]
    BY <1>1, <1>2, <2>2, <2>3 DEF DriverInv, MemorySafe, Live
  <2>4. Commands' = Commands
    BY <1>1, <2>1, <2>3, CommandsKept
  <2>5. PartialBytes' = bytes
    BY <1>2, <1>3, <2>1, <2>2 DEF PartialBytes
  <2> HIDE DEF N
  <2> QED
    BY <1>1, <1>2, <1>3, <1>4, <2>1, <2>4, <2>5 DEF CL!Write
<1> QED
  BY <1>1, <1>5, <1>6 DEF write_store

\* A step that leaves the device alone and writes at most to memory that is no
\* entry's leaves the log alone.
LEMMA LogKept ==
  ASSUME DriverInv, UNCHANGED <<loaded, buffer, partial_entry>>,
         loaded =>
           /\ \A i \in Slots : buffer.entry[i].buffptr # NULL =>
                mem'[buffer.entry[i].buffptr] = mem[buffer.entry[i].buffptr]
           /\ partial_entry.buffptr # NULL =>
                mem'[partial_entry.buffptr] = mem[partial_entry.buffptr]
  PROVE  UNCHANGED <<IF loaded THEN Commands ELSE << >>, IF loaded THEN PartialBytes ELSE << >> >>
<1>1. loaded => Commands' = Commands
  BY CommandsKept
<1>2. loaded => PartialBytes' = PartialBytes
  BY DEF PartialBytes
<1> QED
  BY <1>1, <1>2

LEMMA EfaultMaps ==
  ASSUME RInv, NEW t \in Task, write_efault(t)
  PROVE  CL!Fail(t, "EFAULT")
<1>1. /\ DriverInv /\ pc[t] = "w_copy" /\ got[t] = << >>
      /\ UNCHANGED <<loaded, buffer, partial_entry, f_pos, got>>
      /\ mem' = [p \in Ptr |-> IF p \in {buffptr[t]} THEN << >> ELSE mem[p]]
      /\ retval' = [retval EXCEPT ![t] = "EFAULT"]
  BY DEF RInv, GotInv, write_efault, Freed, FaultFrees, Returns, module, dev
<1>2. /\ loaded /\ buffptr[t] # partial_entry.buffptr
      /\ \A i \in Slots : buffptr[t] # buffer.entry[i].buffptr
  BY <1>1, StoreFacts
<1>3. /\ \A i \in Slots : buffer.entry[i].buffptr \in Ptr \cup {NULL}
      /\ partial_entry.buffptr \in Ptr \cup {NULL}
  BY <1>1 DEF DriverInv, DeviceTypeOK, BufferOf, EntryOf
<1>4. UNCHANGED <<IF loaded THEN Commands ELSE << >>, IF loaded THEN PartialBytes ELSE << >> >>
  BY <1>1, <1>2, <1>3, LogKept
<1>5. got' = [got EXCEPT ![t] = << >>]
  BY <1>1 DEF RInv, CallTypeOK
<1> QED
  BY <1>1, <1>4, <1>5 DEF CL!Fail

\* The other steps of a call that the log sees.
LEMMA CallMaps ==
  ASSUME RInv, NEW t \in Task,
         \/ call_write(t) \/ call_read(t) \/ ioctl_seekto(t) \/ aesd_release(t)
  PROVE  CL!Call(t) \/ CL!Close(t)
<1>1. /\ UNCHANGED <<loaded, buffer, partial_entry, mem>>
      /\ got' = [got EXCEPT ![t] = << >>] /\ retval' = [retval EXCEPT ![t] = "none"]
      /\ f_pos' = f_pos \/ f_pos' = [f_pos EXCEPT ![t] = 0]
  BY DEF call_write, call_read, ioctl_seekto, aesd_release, Enter, module, dev, heap
<1>2. UNCHANGED <<IF loaded THEN Commands ELSE << >>, IF loaded THEN PartialBytes ELSE << >> >>
  BY <1>1, LogKept DEF RInv
<1> QED
  BY <1>1, <1>2 DEF CL!Call, CL!Close

Errors == {"EINTR", "ENOMEM", "EFAULT", "EINVAL", "ENOTTY"}

LEMMA FailMaps ==
  ASSUME RInv, NEW t \in Task,
         \/ lock_interrupted(t) \/ write_enomem(t) \/ read_efault(t) \/ ioctl_enotty(t)
  PROVE  \E err \in Errors : CL!Fail(t, err)
<1>1. /\ UNCHANGED <<loaded, buffer, partial_entry, mem, f_pos>>
      /\ \/ got' = [got EXCEPT ![t] = << >>]
         \/ got' = got /\ pc[t] \in {"w_lock", "r_lock", "w_alloc", "r_body"}
      /\ \E err \in {"EINTR", "ENOMEM", "EFAULT", "ENOTTY"} :
           retval' = [retval EXCEPT ![t] = err]
  BY DEF lock_interrupted, write_enomem, read_efault, ioctl_enotty, Returns, module, dev, heap
<1>2. got' = [got EXCEPT ![t] = << >>]
  BY <1>1 DEF RInv, GotInv, CallTypeOK
<1>3. UNCHANGED <<IF loaded THEN Commands ELSE << >>, IF loaded THEN PartialBytes ELSE << >> >>
  BY <1>1, LogKept DEF RInv
<1>4. \A err : retval' = [retval EXCEPT ![t] = err] => CL!Fail(t, err)
  BY <1>1, <1>2, <1>3 DEF CL!Fail
<1> QED
  BY <1>1, <1>4 DEF Errors

LEMMA SeekMaps ==
  ASSUME RInv, NEW t \in Task, aesd_llseek(t) \/ ioctl_seek(t)
  PROVE  CL!Seek(t) \/ CL!Fail(t, "EINVAL")
<1>0. PICK off \in Int : \E whence : Seeks(t, off, whence)
  <2>1. offset[t] + seekto_arg[t].write_cmd_offset \in Int
    BY DEF RInv, CallTypeOK
  <2> QED
    BY <2>1, ArgAssumption DEF aesd_llseek, ioctl_seek
<1>1. PICK whence : Seeks(t, off, whence)
  BY <1>0
<1>2. /\ UNCHANGED <<loaded, buffer, partial_entry, mem>>
      /\ \/ got' = [got EXCEPT ![t] = << >>]
         \/ got' = got /\ pc[t] = "io_scan"
  BY DEF aesd_llseek, ioctl_seek, module, dev, heap
<1>3. got' = [got EXCEPT ![t] = << >>]
  BY <1>2 DEF RInv, GotInv, CallTypeOK
<1>4. UNCHANGED <<IF loaded THEN Commands ELSE << >>, IF loaded THEN PartialBytes ELSE << >> >>
  BY <1>2, LogKept DEF RInv
<1> DEFINE p == NewPos(f_pos[t], off, whence)
<1>5. p \in Int
  BY DEF NewPos, RInv, CallTypeOK
<1>6. CASE p >= 0
  <2>1. f_pos' = [f_pos EXCEPT ![t] = p] /\ retval' = [retval EXCEPT ![t] = "ok"]
    BY <1>1, <1>5, <1>6 DEF Seeks, EINVAL
  <2>2. p \in Nat
    BY <1>5, <1>6
  <2> HIDE DEF p
  <2>3. f_pos'[t] = p
    BY <2>1 DEF RInv, CallTypeOK
  <2> QED
    BY <1>3, <1>4, <2>1, <2>2, <2>3 DEF CL!Seek
<1>7. CASE ~(p >= 0)
  <2>1. f_pos' = f_pos /\ retval' = [retval EXCEPT ![t] = "EINVAL"]
    BY <1>1, <1>5, <1>7 DEF Seeks, EINVAL
  <2> QED
    BY <1>3, <1>4, <2>1 DEF CL!Fail
<1> QED
  BY <1>6, <1>7

\* Steps inside a call, and loading the module, are nothing to the log.
LEMMA SilentMaps ==
  ASSUME RInv,
         \/ UNCHANGED vars \/ aesd_init_module
         \/ \E t \in Task : \/ aesd_open(t) \/ lock(t) \/ out(t) \/ write_kmalloc(t)
                            \/ write_oops(t) \/ ioctl_turn(t)
  PROVE  UNCHANGED CL!vars
<1>1. UNCHANGED <<f_pos, got, retval>>
  BY DEF vars, aesd_init_module, aesd_open, lock, out, write_kmalloc, write_oops, ioctl_turn,
         result
<1>2. UNCHANGED <<IF loaded THEN Commands ELSE << >>, IF loaded THEN PartialBytes ELSE << >> >>
  <2>1. CASE aesd_init_module
    <3>1. ~loaded /\ buffer' = aesd_circular_buffer_init /\ partial_entry' = NullEntry
      BY <2>1 DEF aesd_init_module, Memset
    <3>2. Count(buffer') = 0
      BY <3>1, InitWellFormed
    <3>3. Commands' = << >> /\ PartialBytes' = << >>
      BY <3>1, <3>2 DEF Commands, PartialBytes, NullEntry
    <3> QED
      BY <3>1, <3>3
  <2>2. CASE ~aesd_init_module
    <3>1. UNCHANGED <<loaded, buffer, partial_entry, mem>>
      BY <2>2
      DEF vars, aesd_open, lock, out, write_kmalloc, write_oops, ioctl_turn, module, dev, heap
    <3> QED
      BY <3>1, LogKept DEF RInv
  <2> QED
    BY <2>1, <2>2
<1> QED
  BY <1>1, <1>2 DEF CL!vars

LEMMA ForgetMaps ==
  ASSUME RInv, aesd_cleanup_module
  PROVE  CL!Forget
BY DEF aesd_cleanup_module, CL!Forget, result

-----------------------------------------------------------------------------
(* The refinement.                                                         *)

LEMMA InitMaps == Init => CL!Init
BY DEF Init, CL!Init

LEMMA NextMaps ==
  ASSUME RInv, [Next]_vars
  PROVE  [CL!Next]_(CL!vars)
<1>1. CASE UNCHANGED vars \/ aesd_init_module
  BY <1>1, SilentMaps
<1>2. CASE aesd_cleanup_module
  BY <1>2, ForgetMaps DEF CL!Next
<1>3. ASSUME NEW t \in Task, Starts(t) \/ lock(t) \/ lock_interrupted(t) \/ Step(t)
      PROVE  [CL!Next]_(CL!vars)
  <2>1. CASE aesd_open(t) \/ lock(t) \/ out(t) \/ write_kmalloc(t) \/ write_oops(t)
               \/ ioctl_turn(t)
    BY <2>1, SilentMaps
  <2>2. CASE call_write(t) \/ call_read(t) \/ ioctl_seekto(t) \/ aesd_release(t)
    BY <2>2, CallMaps DEF CL!Next
  <2>3. CASE lock_interrupted(t) \/ write_enomem(t) \/ read_efault(t) \/ ioctl_enotty(t)
    BY <2>3, FailMaps DEF CL!Next, Errors
  <2>4. CASE aesd_llseek(t) \/ ioctl_seek(t)
    BY <2>4, SeekMaps DEF CL!Next
  <2>5. CASE write_efault(t)
    BY <2>5, EfaultMaps DEF CL!Next
  <2>6. CASE write_store(t)
    BY <2>6, WriteMaps DEF CL!Next
  <2>7. CASE read_eof(t)
    BY <2>7, EofMaps DEF CL!Next
  <2>8. CASE read_copy(t)
    BY <2>8, ReadMaps DEF CL!Next
  <2> QED
    BY <1>3, <2>1, <2>2, <2>3, <2>4, <2>5, <2>6, <2>7, <2>8 DEF Starts, Step
<1> QED
  BY <1>1, <1>2, <1>3 DEF Next

\* Whatever the number of tasks and slots, and however their calls interleave,
\* fail or are interrupted, every write and read of the driver is one step of the
\* command log, a failed call is none but its error, and nothing else of the
\* driver is seen by its callers.
THEOREM DriverImplementsLog == Spec => ImplementsCommandLog
<1>1. RInv /\ [Next]_vars => [CL!Next]_(CL!vars)
  BY NextMaps
<1> QED
  BY <1>1, RInvInit, RInvStep, InitMaps, PTL DEF Spec, ImplementsCommandLog, CL!Spec

-----------------------------------------------------------------------------
(* Sessions: what successive reads of a file deliver.                      *)

\* A file that is closed is at position 0.
ClosedInv == \A t \in Task : pc[t] = "closed" => f_pos[t] = 0

SeenType == seen \in [Task -> Seq(Byte) \cup {NULL}]

\* Which steps touch a position: only those of the file's own task.
LEMMA PositionStep ==
  ASSUME RInv, ClosedInv, [Next]_vars
  PROVE  /\ ClosedInv'
         /\ \A t \in Task : pc[t] = "r_body" /\ f_pos'[t] # f_pos[t] => read_copy(t)
<1>1. pc \in [Task -> PCs] /\ f_pos \in [Task -> Nat]
  BY DEF RInv, DriverInv, DeviceTypeOK, CallTypeOK
<1>2. CASE aesd_init_module \/ aesd_cleanup_module \/ UNCHANGED vars
  <2>1. pc' = pc /\ f_pos' = f_pos
    BY <1>2 DEF aesd_init_module, aesd_cleanup_module, vars
  <2> QED
    BY <2>1 DEF ClosedInv
<1>3. ASSUME NEW u \in Task,
             \/ aesd_open(u) \/ call_write(u) \/ call_read(u) \/ ioctl_enotty(u)
             \/ ioctl_seekto(u) \/ lock(u) \/ lock_interrupted(u) \/ out(u)
             \/ write_kmalloc(u) \/ write_enomem(u) \/ write_oops(u) \/ write_efault(u)
             \/ read_eof(u) \/ read_efault(u) \/ ioctl_turn(u)
      PROVE  /\ ClosedInv'
             /\ \A t \in Task : pc[t] = "r_body" /\ f_pos'[t] # f_pos[t] => read_copy(t)
  <2>1. /\ f_pos' = f_pos
        /\ pc' = pc \/ \E p \in PCs \ {"closed"} : pc' = [pc EXCEPT ![u] = p]
    BY <1>3
    DEF aesd_open, call_write, call_read, ioctl_enotty, ioctl_seekto, lock, lock_interrupted,
        out, write_kmalloc, write_enomem, write_oops, write_efault, read_eof, read_efault,
        ioctl_turn, Enter, Returns, FaultGoto, PCs
  <2> QED
    BY <1>1, <2>1 DEF ClosedInv
<1>4. ASSUME NEW u \in Task,
             \/ aesd_release(u) \/ write_store(u) \/ aesd_llseek(u) \/ ioctl_seek(u)
      PROVE  /\ ClosedInv'
             /\ \A t \in Task : pc[t] = "r_body" /\ f_pos'[t] # f_pos[t] => read_copy(t)
  <2>1. /\ pc[u] \in {"user", "w_copy", "io_scan"} /\ \E x : f_pos' = [f_pos EXCEPT ![u] = x]
        /\ \/ aesd_release(u)
           \/ pc' = pc \/ \E p \in PCs \ {"closed"} : pc' = [pc EXCEPT ![u] = p]
    <3>1. CASE aesd_release(u)
      BY <3>1 DEF aesd_release
    <3>2. CASE write_store(u)
      BY <3>2 DEF write_store, Returns, PCs
    <3>3. CASE aesd_llseek(u) \/ ioctl_seek(u)
      <4>1. f_pos = [f_pos EXCEPT ![u] = f_pos[u]]
        BY <1>1
      <4> QED
        BY <3>3, <4>1 DEF aesd_llseek, ioctl_seek, Seeks, PCs
    <3> QED
      BY <1>4, <3>1, <3>2, <3>3
  <2>2. \A t \in Task : t # u => f_pos'[t] = f_pos[t] /\ (pc'[t] = "closed" => pc[t] = "closed")
    <3>1. CASE aesd_release(u)
      BY <1>1, <3>1 DEF aesd_release
    <3>2. CASE ~aesd_release(u)
      BY <1>1, <2>1, <3>2
    <3> QED
      BY <3>1, <3>2
  <2>3. pc'[u] = "closed" => f_pos'[u] = 0
    BY <1>1, <2>1 DEF aesd_release
  <2> QED
    BY <2>1, <2>2, <2>3 DEF ClosedInv
<1>5. ASSUME NEW u \in Task, read_copy(u)
      PROVE  /\ ClosedInv'
             /\ \A t \in Task : pc[t] = "r_body" /\ f_pos'[t] # f_pos[t] => read_copy(t)
  <2>1. pc' = [pc EXCEPT ![u] = "out"] /\ \E x : f_pos' = [f_pos EXCEPT ![u] = x]
    BY <1>5 DEF read_copy, Returns
  <2>2. \A t \in Task : t # u => f_pos'[t] = f_pos[t] /\ pc'[t] = pc[t]
    BY <1>1, <2>1
  <2>3. pc'[u] # "closed"
    BY <1>1, <2>1
  <2> QED
    BY <1>5, <2>2, <2>3 DEF ClosedInv
<1> QED
  BY <1>2, <1>3, <1>4, <1>5 DEF Next, Starts, Step

\* As long as nothing is overwritten, commands are only added at the end.
LEMMA CommandsGrow ==
  ASSUME RInv, [Next]_vars, loaded, loaded', ~Overwrites
  PROVE  Commands' = Commands \/ \E x \in Seq(Byte) : Commands' = Append(Commands, x)
<1>1. CASE UNCHANGED vars \/ aesd_init_module
  BY <1>1, SilentMaps DEF CL!vars
<1>2. CASE aesd_cleanup_module
  BY <1>2 DEF aesd_cleanup_module
<1>3. ASSUME NEW t \in Task,
             \/ aesd_open(t) \/ lock(t) \/ out(t) \/ write_kmalloc(t) \/ write_oops(t)
             \/ ioctl_turn(t)
      PROVE  Commands' = Commands
  BY <1>3, SilentMaps DEF CL!vars
<1>4. ASSUME NEW t \in Task,
             \/ call_write(t) \/ call_read(t) \/ ioctl_seekto(t) \/ aesd_release(t)
      PROVE  Commands' = Commands
  BY <1>4, CallMaps DEF CL!Call, CL!Close
<1>5. ASSUME NEW t \in Task,
             \/ lock_interrupted(t) \/ write_enomem(t) \/ read_efault(t) \/ ioctl_enotty(t)
      PROVE  Commands' = Commands
  BY <1>5, FailMaps DEF CL!Fail
<1>6. ASSUME NEW t \in Task, aesd_llseek(t) \/ ioctl_seek(t)
      PROVE  Commands' = Commands
  BY <1>6, SeekMaps DEF CL!Seek, CL!Fail
<1>7. ASSUME NEW t \in Task, read_copy(t) \/ read_eof(t) \/ write_efault(t)
      PROVE  Commands' = Commands
  BY <1>7, ReadMaps, EofMaps, EfaultMaps DEF CL!Read, CL!ReadAtEnd, CL!Fail
<1>8. ASSUME NEW t \in Task, write_store(t)
      PROVE  Commands' = Commands \/ \E x \in Seq(Byte) : Commands' = Append(Commands, x)
  <2>1. CASE keep_partial(t)
    <3>1. buffer' = buffer /\ \A p \in Ptr : p # buffptr[t] /\ p # partial_entry.buffptr =>
                                              mem'[p] = mem[p]
      BY <2>1 DEF keep_partial, FreedAndWritten
    <3>2. ASSUME NEW i \in Slots, buffer.entry[i].buffptr # NULL
          PROVE  mem'[buffer.entry[i].buffptr] = mem[buffer.entry[i].buffptr]
      <4>1. buffer.entry[i].buffptr \in Ptr
        BY <3>2 DEF RInv, DriverInv, DeviceTypeOK, BufferOf, EntryOf
      <4>2. /\ buffer.entry[i].buffptr # buffptr[t]
            /\ buffer.entry[i].buffptr # partial_entry.buffptr
        BY <1>8, <3>2 DEF write_store, RInv, DriverInv, MemorySafe
      <4> QED
        BY <3>1, <4>1, <4>2
    <3> QED
      BY <3>1, <3>2, CommandsKept DEF RInv
  <2>2. CASE commit(t)
    <3>1. buffer \in BufferOf(Ptr) /\ WellFormed(buffer) /\ buffer.in_offs \in Slots
      BY DEF RInv, DriverInv, DeviceTypeOK, BufferOf
    <3>2. buffer' # buffer
      <4>1. buffer'.entry[buffer.in_offs].buffptr = buffptr[t]
        BY <2>2, <3>1 DEF commit, aesd_circular_buffer_add_entry, NewEntry, BufferOf
      <4>2. buffptr[t] # buffer.entry[buffer.in_offs].buffptr
        BY <1>8, <3>1 DEF write_store, RInv, DriverInv, MemorySafe
      <4> QED
        BY <4>1, <4>2
    <3>3. Len(Commands) # MAX
      <4>1. ~buffer.full
        BY <3>2 DEF Overwrites
      <4>2. buffer.in_offs \in 0 .. MAX - 1 /\ buffer.out_offs \in 0 .. MAX - 1
        BY <3>1 DEF BufferOf, Slots
      <4>3. Count(buffer) # MAX
        BY <3>1, <4>1, <4>2, CountValue, MaxAssumption
      <4> QED
        BY <4>3, CommandsValue DEF RInv
    <3>4. NewBytes(t) \in Seq(Byte)
      <4>1. data[t] \in Seq(Byte) /\ PartialBytes \in Seq(Byte)
        BY DEF RInv, DriverInv, DeviceTypeOK, PartialBytes, EntryOf
      <4> QED
        BY <4>1, ConcatProperties DEF NewBytes
    <3> QED
      BY <1>8, <2>2, <3>3, <3>4, CommitLog
  <2> QED
    BY <1>8, <2>1, <2>2 DEF write_store
<1> QED
  BY <1>1, <1>2, <1>3, <1>4, <1>5, <1>6, <1>7, <1>8 DEF Next, Starts, Step

SessionInv == RInv /\ ClosedInv /\ SeenType /\ ReadsFollowTheLog

\* The rest of a command comes right after what was read before.
LEMMA ReadFollows ==
  ASSUME SessionInv, NEW t \in Task, read_copy(t), seen[t] # NULL
  PROVE  LET q == seen[t] \o got'[t]
         IN  /\ q \in Seq(Byte) /\ Len(q) = f_pos'[t]
             /\ IsPrefix(q, FlattenSeq(Commands)) /\ Commands' = Commands
<1> DEFINE C == Commands
           N == Count(buffer)
           p == seen[t]
           end == [i \in 0 .. N |-> CL!Ends[i]]
<1>1. loaded /\ loaded' = loaded /\ CL!Read(t) /\ RInv /\ DriverInv
  BY ReadMaps DEF SessionInv, RInv, read_copy, DriverInv, OpenInv, module
<1>2. /\ N \in Nat /\ C \in Seq(Seq(Byte)) /\ Len(C) = N
      /\ f_pos \in [Task -> Nat] /\ got \in [Task -> Seq(Byte)]
  BY <1>1, CommandsValue DEF RInv, CallTypeOK
<1>3. p \in Seq(Byte) /\ Len(p) = f_pos[t] /\ IsPrefix(p, FlattenSeq(C))
  BY <1>1 DEF SessionInv, SeenType, ReadsFollowTheLog
<1>4. PICK i \in 1 .. N :
        /\ CL!Ends[i - 1] <= f_pos[t] /\ f_pos[t] < CL!Ends[i]
        /\ got' = [got EXCEPT ![t] = SubSeq(C[i], f_pos[t] - CL!Ends[i - 1] + 1, Len(C[i]))]
        /\ f_pos' = [f_pos EXCEPT ![t] = CL!Ends[i]]
        /\ C' = C
  BY <1>1, <1>2 DEF CL!Read
<1>5. /\ end \in [0 .. N -> Nat] /\ end[0] = 0
      /\ \A k \in 1 .. N : end[k] = end[k - 1] + Len(C[k])
  BY <1>1, <1>2, EndsSteps
<1>6. end[i] = CL!Ends[i] /\ end[i - 1] = CL!Ends[i - 1]
  <2>1. i \in 0 .. N /\ i - 1 \in 0 .. N
    BY <1>2
  <2> QED
    BY <2>1
<1>7. /\ got'[t] = SubSeq(C[i], f_pos[t] - CL!Ends[i - 1] + 1, Len(C[i]))
      /\ f_pos'[t] = CL!Ends[i]
  BY <1>2, <1>4
<1> HIDE DEF C, N, p, end
<1>8. EndsOf(end, C)
  BY <1>2, <1>5 DEF EndsOf
<1>9. LET q == p \o SubSeq(C[i], Len(p) - end[i - 1] + 1, Len(C[i]))
      IN  q \in Seq(Byte) /\ Len(q) = end[i] /\ IsPrefix(q, FlattenSeq(C))
  BY <1>2, <1>3, <1>4, <1>5, <1>6, <1>8, ReadsOn
<1> QED
  BY <1>3, <1>4, <1>6, <1>7, <1>9 DEF C, p

LEMMA SessionStep ==
  ASSUME SessionInv, SessionNext
  PROVE  SessionInv'
<1>1. RInv /\ ClosedInv /\ Next /\ RInv' /\ ClosedInv'
  BY RInvStep, PositionStep DEF SessionInv, SessionNext
<1>2. f_pos \in [Task -> Nat] /\ f_pos' \in [Task -> Nat] /\ got' \in [Task -> Seq(Byte)]
  BY <1>1 DEF RInv, CallTypeOK
<1> DEFINE Good(t) == /\ seen'[t] \in Seq(Byte) \cup {NULL}
                      /\ loaded' /\ seen'[t] # NULL =>
                           /\ Len(seen'[t]) = f_pos'[t]
                           /\ IsPrefix(seen'[t], FlattenSeq(Commands)')
<1>3. ASSUME NEW t \in Task PROVE Good(t)
  <2>1. seen'[t] = CASE f_pos'[t] = 0 -> << >>
         [] f_pos'[t] # 0 /\ (seen[t] = NULL \/ Overwrites) -> NULL
         [] f_pos'[t] # 0 /\ seen[t] # NULL /\ ~Overwrites ->
              IF f_pos'[t] = f_pos[t] THEN seen[t]
              ELSE IF pc[t] = "r_body" THEN seen[t] \o got'[t] ELSE NULL
    BY DEF SessionNext
  <2>2. CASE f_pos'[t] = 0
    <3>1. seen'[t] = << >>
      BY <2>1, <2>2
    <3>2. ASSUME loaded' PROVE IsPrefix(<< >>, FlattenSeq(Commands)')
      <4>1. Commands' \in Seq(Seq(Byte))
        BY <1>1, <3>2, CommandsTypedNext DEF RInv
      <4>2. FlattenSeq(Commands)' \in Seq(Byte)
        BY <4>1, FlattenType
      <4> QED
        BY <4>2, PrefixEmpty
    <3> QED
      BY <2>2, <3>1, <3>2
  <2>3. CASE f_pos'[t] # 0 /\ (seen[t] = NULL \/ Overwrites)
    BY <2>1, <2>3
  <2>4. CASE f_pos'[t] # 0 /\ seen[t] # NULL /\ ~Overwrites /\ f_pos'[t] = f_pos[t]
    <3>1. seen'[t] = seen[t] /\ seen[t] \in Seq(Byte)
      BY <2>1, <2>4 DEF SessionInv, SeenType
    <3>2. loaded
      BY <1>1, <2>4 DEF ClosedInv, RInv, DriverInv, OpenInv
    <3>3. /\ Len(seen[t]) = f_pos[t] /\ IsPrefix(seen[t], FlattenSeq(Commands))
          /\ Commands \in Seq(Seq(Byte)) /\ FlattenSeq(Commands) \in Seq(Byte)
      BY <1>1, <2>4, <3>2, CommandsValue, FlattenType DEF SessionInv, ReadsFollowTheLog, RInv
    <3>4. ASSUME loaded' PROVE IsPrefix(seen[t], FlattenSeq(Commands)')
      <4>1. CASE Commands' = Commands
        BY <3>3, <4>1
      <4>2. CASE \E x \in Seq(Byte) : Commands' = Append(Commands, x)
        <5>1. PICK x \in Seq(Byte) : Commands' = Append(Commands, x)
          BY <4>2
        <5>2. FlattenSeq(Commands)' = FlattenSeq(Commands) \o x
          BY <3>3, <5>1, FlattenAppend
        <5> QED
          BY <3>1, <3>3, <5>2, PrefixGrows
      <4> QED
        BY <1>1, <2>4, <3>2, <3>4, <4>1, <4>2, CommandsGrow
    <3> QED
      BY <2>4, <3>1, <3>3, <3>4
  <2>5. CASE f_pos'[t] # 0 /\ seen[t] # NULL /\ ~Overwrites /\ f_pos'[t] # f_pos[t]
    <3>1. CASE pc[t] = "r_body"
      <4>1. read_copy(t)
        BY <1>1, <2>5, <3>1, PositionStep
      <4>2. seen'[t] = seen[t] \o got'[t]
        BY <2>1, <2>5, <3>1
      <4> QED
        BY <2>5, <4>1, <4>2, ReadFollows
    <3>2. CASE pc[t] # "r_body"
      BY <2>1, <2>5, <3>2
    <3> QED
      BY <3>1, <3>2
  <2> QED
    BY <2>2, <2>3, <2>4, <2>5
<1>4. SeenType'
  <2>1. seen' = [t \in Task |-> seen'[t]]
    BY DEF SessionNext
  <2> QED
    BY <1>3, <2>1 DEF SeenType
<1>5. ReadsFollowTheLog'
  BY <1>3 DEF ReadsFollowTheLog
<1> QED
  BY <1>1, <1>4, <1>5 DEF SessionInv

\* Who opens the device and calls aesd_read again and again gets the commands
\* from the oldest on, without a gap and without a repetition, whatever other
\* tasks write and whatever fails in between, until an entry is overwritten.
THEOREM DriverReadsFollow == SessionSpec => []ReadsFollowTheLog
<1>1. SessionInit => SessionInv
  <2>1. SessionInit => ClosedInv /\ SeenType /\ ReadsFollowTheLog
    BY DEF SessionInit, Init, ClosedInv, SeenType, ReadsFollowTheLog
  <2> QED
    BY <2>1, RInvInit DEF SessionInit, SessionInv
<1>2. SessionInv /\ [SessionNext]_sessionVars => SessionInv'
  <2>1. ASSUME SessionInv, UNCHANGED sessionVars PROVE SessionInv'
    <3>1. RInv' /\ ClosedInv' /\ SeenType'
      BY <2>1, RInvStep, PositionStep DEF SessionInv, SeenType, sessionVars
    <3>2. ReadsFollowTheLog'
      BY <2>1 DEF SessionInv, ReadsFollowTheLog, Commands, sessionVars, vars, module, dev, heap
    <3> QED
      BY <3>1, <3>2 DEF SessionInv
  <2> QED
    BY <2>1, SessionStep
<1>3. SessionInv => ReadsFollowTheLog
  BY DEF SessionInv
<1> QED
  BY <1>1, <1>2, <1>3, PTL DEF SessionSpec

-----------------------------------------------------------------------------
(* Seeking to a command.                                                   *)

\* Where the specification counts a command's first byte, the lookup loop does.
LEMMA StartOfValue ==
  ASSUME DriverInv, loaded, NEW n \in 0 .. Count(buffer)
  PROVE  StartOf(n) = Begin(n)
<1> DEFINE N == Count(buffer)
           Rec(g) == g = [i \in 0 .. N |->
                            IF i = 0 THEN 0 ELSE g[i - 1] + Log(buffer)[i].size]
           h == [i \in 0 .. N |-> Begin(i)]
           start == CHOOSE g : Rec(g)
<1>1. N \in Nat /\ \A i \in 1 .. N : Begin(i) = Begin(i - 1) + Log(buffer)[i].size
  BY BeginSteps, CommandsValue
<1>2. Rec(h)
  <2>1. ASSUME NEW i \in 0 .. N
        PROVE  h[i] = IF i = 0 THEN 0 ELSE h[i - 1] + Log(buffer)[i].size
    <3>1. CASE i = 0
      BY <3>1 DEF Begin
    <3>2. CASE i # 0
      <4>1. i \in 1 .. N /\ i - 1 \in 0 .. N
        BY <1>1, <3>2
      <4> QED
        BY <1>1, <3>2, <4>1
    <3> QED
      BY <3>1, <3>2
  <2> HIDE DEF N
  <2> QED
    BY <2>1
<1>3. StartOf(n) = start[n]
  BY DEF StartOf
<1>4. Rec(start)
  <2>1. \E g : Rec(g)
    BY <1>2
  <2> HIDE DEF Rec
  <2> QED
    BY <2>1
<1> HIDE DEF start, N
<1>5. StepAlike(start, h, N)
  <2>1. start[0] = 0 /\ \A i \in 1 .. N : start[i] = start[i - 1] + Log(buffer)[i].size
    BY <1>1, <1>4
  <2>2. h[0] = 0 /\ \A i \in 1 .. N : h[i] = h[i - 1] + Log(buffer)[i].size
    <3>1. 0 \in 0 .. N /\ \A i \in 1 .. N : i \in 0 .. N /\ i - 1 \in 0 .. N
      BY <1>1
    <3> QED
      BY <1>1, <3>1 DEF Begin
  <2> HIDE DEF h
  <2> QED
    BY <2>1, <2>2 DEF StepAlike
<1>6. start[n] = h[n]
  <2> HIDE DEF h
  <2> QED
    BY <1>1, <1>5, SameSteps DEF N
<1> QED
  BY <1>3, <1>6 DEF N

\* With the oldest command in slot 0 and no command stored since the call began,
\* the loop of aesd_ioctl has added up the commands before its index, which has
\* not passed the one it looks for.
ScanInv == \A t \in Task : pc[t] = "io_scan" /\ still[t] /\ buffer.out_offs = 0 =>
             /\ index[t] <= seekto_arg[t].write_cmd
             /\ offset[t] = Begin(index[t])

\* One turn of the loop.
LEMMA TurnAdds ==
  ASSUME RInv, NEW t \in Task, ioctl_turn(t), buffer.out_offs = 0,
         offset[t] = Begin(index[t])
  PROVE  offset'[t] = Begin(index'[t])
<1> DEFINE i == index[t]
<1>1. /\ i \in Slots /\ offset \in [Task -> Nat] /\ index \in [Task -> 0 .. MAX]
      /\ buffer \in BufferOf(Ptr)
  <2>1. offset \in [Task -> Nat] /\ index \in [Task -> 0 .. MAX] /\ buffer \in BufferOf(Ptr)
    BY DEF RInv, DriverInv, DeviceTypeOK, CallTypeOK
  <2>2. i \in 0 .. MAX /\ i # MAX
    BY <2>1 DEF ioctl_turn, ScanEnds
  <2>3. i \in Slots
    BY <2>2, MaxAssumption DEF Slots
  <2> QED
    BY <2>1, <2>3
<1>2. ReadSlot(buffer, i) = i
  <2>1. 0 \in Slots /\ 0 + i = i /\ i < MAX
    BY <1>1, MaxAssumption DEF Slots
  <2>2. (0 + i) % MAX = i
    BY <1>1, <2>1, ReadSlotValue
  <2> QED
    BY <2>2 DEF ReadSlot
<1>3. /\ RunningTotal(buffer) \in [Slots -> Nat]
      /\ RunningTotal(buffer)[i] =
           buffer.entry[i].size + (IF i = 0 THEN 0 ELSE RunningTotal(buffer)[i - 1])
  BY <1>1, <1>2, RunningTotalValue
<1>4. buffer.entry[i].size \in Nat
  BY <1>1 DEF BufferOf, EntryOf
<1>5. offset'[t] = offset[t] + buffer.entry[i].size /\ index'[t] = i + 1
  BY <1>1 DEF ioctl_turn
<1>6. Begin(i + 1) = RunningTotal(buffer)[i]
  <2>1. i + 1 # 0 /\ (i + 1) - 1 = i
    BY <1>1 DEF Slots
  <2> QED
    BY <2>1 DEF Begin
<1>7. Begin(i) = (IF i = 0 THEN 0 ELSE RunningTotal(buffer)[i - 1]) /\ Begin(i) \in Nat
  BY <1>1 DEF Begin
<1> HIDE DEF i
<1> QED
  BY <1>3, <1>4, <1>5, <1>6, <1>7 DEF i

\* A task begins a scan and takes its turns by its own steps only.
LEMMA ScanMoves ==
  ASSUME RInv, [Next]_vars, NEW t \in Task, pc'[t] = "io_scan"
  PROVE  \/ ioctl_seekto(t) \/ ioctl_turn(t)
         \/ /\ pc[t] = "io_scan"
            /\ index'[t] = index[t] /\ offset'[t] = offset[t] /\ seekto_arg'[t] = seekto_arg[t]
<1>1. /\ pc \in [Task -> PCs] /\ index \in [Task -> 0 .. MAX] /\ offset \in [Task -> Nat]
      /\ seekto_arg \in [Task -> [write_cmd : Nat, write_cmd_offset : Nat]]
  BY DEF RInv, DriverInv, DeviceTypeOK, CallTypeOK
<1>2. CASE aesd_init_module \/ aesd_cleanup_module \/ UNCHANGED vars
  BY <1>2 DEF aesd_init_module, aesd_cleanup_module, vars, scan
<1>3. ASSUME NEW u \in Task,
             \/ aesd_open(u) \/ aesd_release(u) \/ call_write(u) \/ call_read(u)
             \/ aesd_llseek(u) \/ ioctl_enotty(u) \/ lock(u) \/ lock_interrupted(u) \/ out(u)
             \/ write_kmalloc(u) \/ write_enomem(u) \/ write_oops(u) \/ write_efault(u)
             \/ write_store(u) \/ read_eof(u) \/ read_efault(u) \/ read_copy(u)
      PROVE  /\ pc[t] = "io_scan"
             /\ index' = index /\ offset' = offset /\ seekto_arg' = seekto_arg
  <2>1. /\ pc' = pc \/ \E p \in PCs \ {"io_scan"} : pc' = [pc EXCEPT ![u] = p]
        /\ UNCHANGED scan
    BY <1>3
    DEF aesd_open, aesd_release, call_write, call_read, aesd_llseek, ioctl_enotty, lock,
        lock_interrupted, out, write_kmalloc, write_enomem, write_oops, write_efault,
        write_store, read_eof, read_efault, read_copy, Enter, Returns, FaultGoto, PCs
  <2> QED
    BY <1>1, <2>1 DEF scan
<1>4. ASSUME NEW u \in Task, ioctl_seekto(u) \/ ioctl_turn(u) \/ ioctl_seek(u), u # t
      PROVE  /\ pc[t] = "io_scan" /\ index'[t] = index[t] /\ offset'[t] = offset[t]
             /\ seekto_arg'[t] = seekto_arg[t]
  <2>1. CASE ioctl_seekto(u)
    BY <1>1, <1>4, <2>1 DEF ioctl_seekto, Enter
  <2>2. CASE ioctl_turn(u)
    BY <1>1, <1>4, <2>2 DEF ioctl_turn
  <2>3. CASE ioctl_seek(u)
    BY <1>1, <1>4, <2>3 DEF ioctl_seek
  <2> QED
    BY <1>4, <2>1, <2>2, <2>3
<1>5. ASSUME ioctl_seek(t) PROVE FALSE
  BY <1>1, <1>5 DEF ioctl_seek
<1> QED
  BY <1>2, <1>3, <1>4, <1>5 DEF Next, Starts, Step

\* The sum stays right as long as nobody changes the buffer under the loop.
LEMMA ScanStep ==
  ASSUME RInv, ScanInv, SessionNext
  PROVE  ScanInv'
<1> SUFFICES ASSUME NEW t \in Task, pc'[t] = "io_scan", still'[t], buffer'.out_offs = 0
             PROVE  index'[t] <= seekto_arg'[t].write_cmd /\ offset'[t] = Begin(index[t])'
  BY DEF ScanInv
<1>0. [Next]_vars
  BY DEF SessionNext
<1>1. /\ index \in [Task -> 0 .. MAX] /\ offset \in [Task -> Nat]
      /\ seekto_arg \in [Task -> [write_cmd : Nat, write_cmd_offset : Nat]]
  BY DEF RInv, CallTypeOK
<1>2. CASE ioctl_seekto(t)
  <2>1. index'[t] = 0 /\ offset'[t] = 0
    BY <1>1, <1>2 DEF ioctl_seekto
  <2>2. seekto_arg' \in [Task -> [write_cmd : Nat, write_cmd_offset : Nat]]
    BY <1>0, RInvStep DEF RInv, CallTypeOK
  <2>3. Begin(index[t])' = 0
    BY <2>1 DEF Begin
  <2> QED
    BY <2>1, <2>2, <2>3
<1>3. CASE pc[t] = "io_scan"
  <2>0. still[t] /\ buffer' = buffer
    BY <1>3 DEF SessionNext
  <2>1. /\ buffer' = buffer /\ buffer.out_offs = 0
        /\ index[t] <= seekto_arg[t].write_cmd /\ offset[t] = Begin(index[t])
    BY <1>3, <2>0 DEF ScanInv
  <2>2. Begin(index[t])' = Begin(index'[t])
    BY <2>1 DEF Begin
  <2>3. CASE ioctl_turn(t)
    <3>1. offset'[t] = Begin(index'[t])
      BY <2>1, <2>3, TurnAdds
    <3>2. /\ index'[t] = index[t] + 1 /\ seekto_arg' = seekto_arg
          /\ index[t] # seekto_arg[t].write_cmd
      BY <1>1, <2>3 DEF ioctl_turn, ScanEnds
    <3>3. index[t] \in Nat /\ seekto_arg[t].write_cmd \in Nat
      BY <1>1, MaxAssumption
    <3> QED
      BY <2>1, <2>2, <3>1, <3>2, <3>3
  <2>4. CASE index'[t] = index[t] /\ offset'[t] = offset[t] /\ seekto_arg'[t] = seekto_arg[t]
    BY <2>1, <2>2, <2>4
  <2> QED
    BY <1>0, <1>2, <2>3, <2>4, ScanMoves DEF ioctl_seekto, Enter
<1> QED
  BY <1>0, <1>2, <1>3, ScanMoves DEF ioctl_turn

\* The seek at the end of the loop.
LEMMA SeekArrives ==
  ASSUME RInv, ScanInv, NEW t \in Task, NEW n \in Slots, SeeksTo(t, n),
         f_pos[t] = 0, still[t], buffer.out_offs = 0
  PROVE  f_pos'[t] = StartOf(n) + seekto_arg[t].write_cmd_offset
<1>1. /\ DriverInv /\ loaded /\ f_pos \in [Task -> Nat] /\ offset \in [Task -> Nat]
      /\ index \in [Task -> 0 .. MAX]
      /\ seekto_arg \in [Task -> [write_cmd : Nat, write_cmd_offset : Nat]]
  BY DEF RInv, DriverInv, OpenInv, CallTypeOK, SeeksTo, ioctl_seek
<1>2. Count(buffer) \in Nat /\ n \in 0 .. Count(buffer) /\ n < MAX
  <2>1. Count(buffer) \in Nat /\ n < Count(buffer)
    BY <1>1, CommandsValue DEF SeeksTo
  <2>2. n \in Nat /\ n < MAX
    BY MaxAssumption DEF Slots
  <2> QED
    BY <2>1, <2>2
<1>3. index[t] = n
  BY <1>1, <1>2 DEF ScanInv, SeeksTo, ioctl_seek, ScanEnds
<1>4. offset[t] = StartOf(n)
  BY <1>1, <1>2, <1>3, StartOfValue DEF ScanInv, SeeksTo, ioctl_seek
<1> DEFINE off == offset[t] + seekto_arg[t].write_cmd_offset
<1>5. off \in Nat /\ f_pos[t] = 0
  BY <1>1 DEF SeeksTo
<1>6. Seeks(t, off, "SEEK_CUR")
  BY DEF SeeksTo, ioctl_seek
<1> HIDE DEF off
<1>7. NewPos(f_pos[t], off, "SEEK_CUR") = off
  BY <1>5 DEF NewPos
<1>8. f_pos'[t] = off
  BY <1>1, <1>5, <1>6, <1>7 DEF Seeks, EINVAL
<1> QED
  BY <1>4, <1>8 DEF off

\* With the oldest command in slot 0, AESDCHAR_IOCSEEKTO moves a file from its
\* beginning to the command it was asked for, whatever the number of slots and
\* tasks and the sizes of the commands, provided that nobody stores a command
\* while it scans the buffer: aesd_ioctl does not take the mutex that would see
\* to it.
THEOREM SeekFindsUndisturbed == SessionSpec => SeekFindsCommandUnwrapped
<1> DEFINE Arrives == \A t \in Task : \A n \in Slots :
                        SeeksTo(t, n) /\ f_pos[t] = 0 /\ still[t] /\ buffer.out_offs = 0 =>
                          f_pos'[t] = StartOf(n) + seekto_arg[t].write_cmd_offset
<1>1. SessionInit => RInv /\ ScanInv
  <2>1. SessionInit => ScanInv
    BY DEF SessionInit, Init, ScanInv
  <2> QED
    BY <2>1, RInvInit DEF SessionInit
<1>2. RInv /\ ScanInv /\ [SessionNext]_sessionVars => RInv' /\ ScanInv'
  <2>1. ASSUME RInv, ScanInv, UNCHANGED sessionVars PROVE RInv' /\ ScanInv'
    <3>1. UNCHANGED vars /\ UNCHANGED still
      BY <2>1 DEF sessionVars
    <3>2. RInv'
      BY <2>1, <3>1, RInvStep
    <3>3. ScanInv'
      BY <2>1, <3>1 DEF ScanInv, Begin, vars, dev, scan
    <3> QED
      BY <3>2, <3>3
  <2>2. ASSUME RInv, ScanInv, SessionNext PROVE RInv' /\ ScanInv'
    BY <2>2, RInvStep, ScanStep DEF SessionNext
  <2> QED
    BY <2>1, <2>2
<1>3. RInv /\ ScanInv => [Arrives]_sessionVars
  BY SeekArrives
<1> HIDE DEF Arrives
<1>4. SeekFindsCommandUnwrapped <=> [][Arrives]_sessionVars
  BY DEF SeekFindsCommandUnwrapped, Arrives
<1> QED
  BY <1>1, <1>2, <1>3, <1>4, PTL DEF SessionSpec
=============================================================================

------------------------ MODULE CircularBufferProofs ------------------------
(***************************************************************************)
(* Theorems about CircularBufferSpec, for every number of slots MAX, every *)
(* set of pointers and every set of sizes.                                 *)
(***************************************************************************)
EXTENDS CircularBufferSpec, CircularBufferLemmas

\* The inductive invariant: the fields have their types and agree on which
\* slots are in use.
IInv == TypeOK /\ RingInv

LEMMA InvInit == Init => IInv
<1> SUFFICES ASSUME Init PROVE IInv
  OBVIOUS
<1>1. buffer \in BufferOf(Ptr) /\ WellFormed(buffer)
  BY InitWellFormed DEF Init
<1>2. ret \in EntryOf(Ptr)
  BY DEF Init, NullEntry, EntryOf
<1> QED
  BY <1>1, <1>2 DEF IInv, TypeOK, RingInv

\* An entry the caller adds has its type and a pointer.
LEMMA EntriesTyped ==
  ASSUME NEW e \in Entries
  PROVE  e \in EntryOf(Ptr) /\ e.buffptr # NULL
BY PtrAssumption, SizesAssumption DEF Entries, EntryOf

LEMMA InvStep == IInv /\ [Next]_vars => IInv'
<1> SUFFICES ASSUME IInv, [Next]_vars PROVE IInv'
  OBVIOUS
<1>1. CASE Next
  <2>1. PICK e \in Entries : AddEntry(e)
    BY <1>1 DEF Next
  <2>2. e \in EntryOf(Ptr) /\ e.buffptr # NULL
    BY EntriesTyped
  <2>3. buffer' \in BufferOf(Ptr)
    BY <2>1, <2>2, AddEntryFields DEF AddEntry, IInv, TypeOK
  <2>4. WellFormed(buffer')
    BY <2>1, <2>2, AddEntryWellFormed, PtrAssumption
    DEF AddEntry, IInv, TypeOK, RingInv
  <2>5. ret' \in EntryOf(Ptr)
    BY <2>1 DEF AddEntry, Overwritten, IInv, TypeOK, BufferOf
  <2> QED
    BY <2>3, <2>4, <2>5 DEF IInv, TypeOK, RingInv
<1>2. CASE UNCHANGED vars
  BY <1>2 DEF vars, IInv, TypeOK, RingInv
<1> QED
  BY <1>1, <1>2

\* Every field of the buffer stays in its range, whatever is added.
THEOREM TypeCorrect == Spec => []TypeOK
<1>1. IInv => TypeOK
  BY DEF IInv
<1> QED
  BY <1>1, InvInit, InvStep, PTL DEF Spec

\* in_offs, out_offs and full never disagree about the slots in use.
THEOREM RingCorrect == Spec => []RingInv
<1>1. IInv => RingInv
  BY DEF IInv
<1> QED
  BY <1>1, InvInit, InvStep, PTL DEF Spec

\* The ring implements the bounded log: it keeps the last MAX entries in order
\* and hands back exactly the entry that fell out.
THEOREM RingImplementsLog == Spec => KeepsLastEntries
<1>1. Init => BL!Init
  <2> SUFFICES ASSUME Init PROVE BL!Init
    OBVIOUS
  <2>1. Count(buffer) = 0
    BY InitWellFormed DEF Init
  <2>2. Log(buffer) = << >>
    BY <2>1 DEF Log
  <2> QED
    BY <2>2 DEF Init, BL!Init
<1>2. IInv /\ [Next]_vars => [BL!Next]_(BL!vars)
  <2> SUFFICES ASSUME IInv, [Next]_vars
               PROVE  [BL!Next]_(BL!vars)
    OBVIOUS
  <2>1. CASE Next
    <3>1. PICK e \in Entries : AddEntry(e)
      BY <2>1 DEF Next
    <3>2. e \in EntryOf(Ptr)
      BY EntriesTyped
    <3>3. /\ buffer' = aesd_circular_buffer_add_entry(buffer, e)
          /\ ret' = Overwritten(buffer)
      BY <3>1 DEF AddEntry
    <3>4. /\ buffer.full => /\ Len(Log(buffer)) = MAX
                            /\ Log(buffer') = Append(Tail(Log(buffer)), e)
                            /\ Overwritten(buffer) = Head(Log(buffer))
          /\ ~buffer.full => /\ Len(Log(buffer)) < MAX
                             /\ Log(buffer') = Append(Log(buffer), e)
                             /\ Overwritten(buffer) = NullEntry
      BY <3>2, <3>3, AddEntryLog, PtrAssumption DEF IInv, TypeOK, RingInv
    <3>5. BL!Push(e)
      BY <3>3, <3>4 DEF BL!Push
    <3> QED
      BY <3>5 DEF BL!Next
  <2>2. CASE UNCHANGED vars
    BY <2>2 DEF vars, BL!vars, Log, Count, ReadSlot
  <2> QED
    BY <2>1, <2>2
<1> QED
  BY <1>1, <1>2, InvInit, InvStep, PTL DEF Spec, KeepsLastEntries, BL!Spec

-----------------------------------------------------------------------------

\* The size field is right for every history of adds: add_entry adds the new
\* size, and gives back that of the entry it overwrites when the ring is full.
THEOREM SizeCorrect == Spec => []SizeIsSum
<1>1. Init => SizeIsSum
  <2> SUFFICES ASSUME Init PROVE SizeIsSum
    OBVIOUS
  <2> DEFINE T == RunningTotal(buffer)
  <2>1. buffer \in BufferOf(Ptr)
    BY InvInit DEF IInv, TypeOK
  <2>2. /\ \A i \in Slots :
             T[i] = buffer.entry[ReadSlot(buffer, i)].size + (IF i = 0 THEN 0 ELSE T[i - 1])
    BY <2>1, RunningTotalValue
  <2>3. \A i \in Slots : buffer.entry[ReadSlot(buffer, i)].size = 0
    <3>1. \A i \in Slots : ReadSlot(buffer, i) \in Slots
      BY <2>1, ReadSlotValue DEF BufferOf, ReadSlot
    <3> QED
      BY <3>1 DEF Init, aesd_circular_buffer_init, NullEntry
  <2> HIDE DEF T
  <2>4. MAX - 1 \in Nat /\ \A i \in 0 .. MAX - 1 : i \in Slots
    BY MaxAssumption DEF Slots
  <2>5. T[0] \in {0}
    <3>1. 0 \in Slots
      BY MaxAssumption DEF Slots
    <3> QED
      BY <2>2, <2>3, <3>1
  <2>6. ASSUME NEW i \in 1 .. MAX - 1, T[i - 1] \in {0} PROVE T[i] \in {0}
    <3>1. i \in Slots /\ i # 0
      BY MaxAssumption DEF Slots
    <3> QED
      BY <2>2, <2>3, <2>6, <3>1
  <2>7. T[MAX - 1] \in {0}
    <3> DEFINE M == MAX - 1
               V == {0}
    <3>1. M \in Nat /\ T[0] \in V /\ \A i \in 1 .. M : T[i - 1] \in V => T[i] \in V
      BY <2>4, <2>5, <2>6
    <3> HIDE DEF M, V
    <3>2. \A i \in 0 .. M : T[i] \in V
      BY <3>1, RecursionRange
    <3> QED
      BY <3>1, <3>2 DEF M, V
  <2> QED
    BY <2>7 DEF T, SizeIsSum, Init, aesd_circular_buffer_init
<1>2. IInv /\ SizeIsSum /\ [Next]_vars => SizeIsSum'
  <2> SUFFICES ASSUME IInv, SizeIsSum, [Next]_vars PROVE SizeIsSum'
    OBVIOUS
  <2>1. ASSUME NEW e \in Entries, AddEntry(e) PROVE SizeIsSum'
    <3>1. e \in EntryOf(Ptr)
      BY EntriesTyped
    <3>2. buffer' = aesd_circular_buffer_add_entry(buffer, e)
      BY <2>1 DEF AddEntry
    <3>3. /\ buffer \in BufferOf(Ptr) /\ WellFormed(buffer)
          /\ buffer.size = RunningTotal(buffer)[MAX - 1]
      BY DEF IInv, TypeOK, RingInv, SizeIsSum
    <3>4. buffer'.size = buffer.size + e.size
                           - (IF buffer.full THEN Overwritten(buffer).size ELSE 0)
      BY <3>2 DEF aesd_circular_buffer_add_entry
    <3>5. RunningTotal(buffer')[MAX - 1] =
            RunningTotal(buffer)[MAX - 1] + e.size
              - (IF buffer.full THEN Overwritten(buffer).size ELSE 0)
      BY <3>1, <3>2, <3>3, AddEntryTotal, PtrAssumption
    <3> QED
      BY <3>3, <3>4, <3>5 DEF SizeIsSum
  <2>2. CASE UNCHANGED vars
    BY <2>2 DEF vars, SizeIsSum
  <2> QED
    BY <2>1, <2>2 DEF Next
<1> QED
  BY <1>1, <1>2, InvInit, InvStep, PTL DEF Spec

\* Where entry number i + 1 of the log begins.
Begin(i) == IF i = 0 THEN 0 ELSE RunningTotal(buffer)[i - 1]

LEMMA BeginValue ==
  ASSUME IInv
  PROVE  /\ \A i \in 0 .. Count(buffer) : Begin(i) \in Nat
         /\ \A i \in 1 .. Count(buffer) : Begin(i) = Begin(i - 1) + Log(buffer)[i].size
         /\ \A i \in 1 .. Count(buffer) : Log(buffer)[i] \in EntryOf(Ptr)
<1> DEFINE T == RunningTotal(buffer)
<1>1. /\ T \in [Slots -> Nat]
      /\ \A i \in Slots :
           T[i] = buffer.entry[ReadSlot(buffer, i)].size + (IF i = 0 THEN 0 ELSE T[i - 1])
  BY RunningTotalValue DEF IInv, TypeOK
<1>2. /\ \A i \in 1 .. Count(buffer) : Log(buffer)[i] = buffer.entry[ReadSlot(buffer, i - 1)]
      /\ \A i \in 1 .. Count(buffer) : Log(buffer)[i] \in EntryOf(Ptr)
  BY LogIsSeq, ElementOfSeq DEF IInv, TypeOK
<1>3. Count(buffer) \in 0 .. MAX
  BY CountValue DEF IInv, TypeOK
<1>4. \A i \in 1 .. Count(buffer) : i - 1 \in Slots
  BY <1>3, MaxAssumption DEF Slots
<1> HIDE DEF T
<1>5. ASSUME NEW i \in 0 .. Count(buffer) PROVE Begin(i) \in Nat
  BY <1>1, <1>4 DEF Begin, T
<1>6. ASSUME NEW i \in 1 .. Count(buffer) PROVE Begin(i) = Begin(i - 1) + Log(buffer)[i].size
  <2>1. Begin(i) = T[i - 1] /\ Begin(i - 1) = IF i - 1 = 0 THEN 0 ELSE T[(i - 1) - 1]
    BY DEF Begin, T
  <2>2. T[i - 1] = Log(buffer)[i].size + (IF i - 1 = 0 THEN 0 ELSE T[(i - 1) - 1])
    BY <1>1, <1>2, <1>4
  <2>3. Begin(i - 1) \in Nat
    BY <1>5, <1>3
  <2>4. Log(buffer)[i].size \in Nat
    BY <1>2 DEF EntryOf
  <2> QED
    BY <2>1, <2>2, <2>3, <2>4
<1> QED
  BY <1>2, <1>5, <1>6

\* The concatenation has every byte of every entry where Begin says.
LEMMA BytesValue ==
  ASSUME IInv
  PROVE  /\ Len(Bytes) = Begin(Count(buffer))
         /\ \A i \in 1 .. Count(buffer) : \A k \in 1 .. Log(buffer)[i].size :
              Bytes[Begin(i - 1) + k] = <<Log(buffer)[i].buffptr, k - 1>>
<1> DEFINE N == Count(buffer)
           L == Log(buffer)
           X == (Ptr \cup {NULL}) \X Nat
           Rec(c) == c = [i \in 0 .. N |-> IF i = 0 THEN << >>
                                           ELSE c[i - 1] \o EntryBytes(L[i])]
           G == [i \in 1 .. N |-> [x \in Seq(X) |-> x \o EntryBytes(L[i])]]
<1>1. N \in Nat
  BY CountValue, MaxAssumption DEF IInv, TypeOK
<1>2. \A i \in 1 .. N : L[i] \in EntryOf(Ptr)
  BY BeginValue
<1>3. ASSUME NEW e \in EntryOf(Ptr)
      PROVE  /\ EntryBytes(e) \in Seq(X) /\ Len(EntryBytes(e)) = e.size
             /\ \A k \in 1 .. e.size : EntryBytes(e)[k] = <<e.buffptr, k - 1>>
  <2>1. e.size \in Nat /\ e.buffptr \in Ptr \cup {NULL}
    BY DEF EntryOf
  <2>2. \A k \in 1 .. e.size : <<e.buffptr, k - 1>> \in X
    BY <2>1
  <2> HIDE DEF X
  <2> QED
    BY <2>1, <2>2 DEF EntryBytes
<1> HIDE DEF N, L, X
<1>4. G \in [1 .. N -> [Seq(X) -> Seq(X)]]
  BY <1>2, <1>3
<1>5. \E c : Rec(c)
  <2> HIDE DEF G
  <2>1. << >> \in Seq(X)
    OBVIOUS
  <2>2. \E c : Recurs(c, N, Seq(X), << >>, G)
    BY <1>1, <1>4, <2>1, Recursion
  <2>3. PICK c : Recurs(c, N, Seq(X), << >>, G)
    BY <2>2
  <2>4. c \in [0 .. N -> Seq(X)] /\ c[0] = << >> /\ \A i \in 1 .. N : c[i] = G[i][c[i - 1]]
    BY <2>3 DEF Recurs
  <2>5. ASSUME NEW i \in 0 .. N
        PROVE  c[i] = IF i = 0 THEN << >> ELSE c[i - 1] \o EntryBytes(L[i])
    <3>1. CASE i = 0
      BY <2>4, <3>1
    <3>2. CASE i # 0
      <4>1. i \in 1 .. N /\ i - 1 \in 0 .. N
        BY <1>1, <3>2
      <4> QED
        BY <2>4, <3>2, <4>1 DEF G
    <3> QED
      BY <3>1, <3>2
  <2>6. Rec(c)
    BY <2>4, <2>5
  <2> QED
    BY <2>6
<1> DEFINE cat == CHOOSE c : Rec(c)
<1>6. Bytes = cat[N]
  BY DEF Bytes, N, L
<1>7. Rec(cat)
  <2> HIDE DEF Rec
  <2> QED
    BY <1>5
<1> HIDE DEF cat
<1>8. cat[0] = << >> /\ \A i \in 1 .. N : cat[i] = cat[i - 1] \o EntryBytes(L[i])
  BY <1>1, <1>7
<1> DEFINE Right(n) == /\ cat[n] \in Seq(X) /\ Len(cat[n]) = Begin(n)
                       /\ \A i \in 1 .. n : \A k \in 1 .. L[i].size :
                            cat[n][Begin(i - 1) + k] = <<L[i].buffptr, k - 1>>
           S == {n \in Nat : n <= N => Right(n)}
<1>9. 0 \in S
  <2>1. << >> \in Seq(X) /\ Len(<< >>) = 0
    OBVIOUS
  <2>2. Right(0)
    BY <1>8, <2>1 DEF Begin
  <2> HIDE DEF Right
  <2> QED
    BY <2>2
<1>10. ASSUME NEW n \in Nat, n \in S, n + 1 <= N PROVE Right(n + 1)
  <2>1. n + 1 \in 1 .. N /\ (n + 1) - 1 = n /\ n <= N /\ n \in 0 .. N
    <3> HIDE DEF S
    <3> QED
      BY <1>1, <1>10
  <2>2. Right(n)
    <3> HIDE DEF Right
    <3> QED
      BY <1>10, <2>1
  <2>8. cat[n] \in Seq(X) /\ Len(cat[n]) = Begin(n)
    BY <2>2
  <2> DEFINE e == L[n + 1]
  <2>3. cat[n + 1] = cat[n] \o EntryBytes(e)
    BY <1>8, <2>1
  <2>4. /\ e \in EntryOf(Ptr) /\ e.size \in Nat /\ EntryBytes(e) \in Seq(X)
        /\ Len(EntryBytes(e)) = e.size
        /\ \A k \in 1 .. e.size : EntryBytes(e)[k] = <<e.buffptr, k - 1>>
    BY <1>2, <1>3, <2>1 DEF EntryOf
  <2>5. Begin(n + 1) = Begin(n) + e.size /\ Begin(n) \in Nat
    BY <2>1, BeginValue DEF N, L
  <2>6. /\ cat[n + 1] \in Seq(X) /\ Len(cat[n + 1]) = Len(cat[n]) + e.size
        /\ \A j \in 1 .. Len(cat[n]) + e.size :
             cat[n + 1][j] = IF j <= Len(cat[n]) THEN cat[n][j]
                                                 ELSE EntryBytes(e)[j - Len(cat[n])]
    <3> DEFINE c == cat[n]
               d == EntryBytes(e)
    <3>1. c \in Seq(X) /\ d \in Seq(X) /\ Len(d) = e.size
      BY <2>2, <2>4
    <3> HIDE DEF c, d, e
    <3>2. /\ c \o d \in Seq(X) /\ Len(c \o d) = Len(c) + Len(d)
          /\ \A j \in 1 .. Len(c) + Len(d) :
               (c \o d)[j] = IF j <= Len(c) THEN c[j] ELSE d[j - Len(c)]
      BY <3>1, ConcatProperties
    <3> QED
      BY <2>3, <3>1, <3>2 DEF c, d
  <2> HIDE DEF e
  <2>7. ASSUME NEW i \in 1 .. n + 1, NEW k \in 1 .. L[i].size
        PROVE  cat[n + 1][Begin(i - 1) + k] = <<L[i].buffptr, k - 1>>
    <3>1. CASE i = n + 1
      <4>1. /\ Begin(i - 1) + k \in 1 .. Len(cat[n]) + e.size
            /\ ~(Begin(i - 1) + k <= Len(cat[n])) /\ (Begin(i - 1) + k) - Len(cat[n]) = k
            /\ k \in 1 .. e.size
        <5>1. /\ Begin(i - 1) = Len(cat[n]) /\ Len(cat[n]) \in Nat
              /\ k \in 1 .. e.size /\ e.size \in Nat
          BY <2>1, <2>4, <2>5, <2>7, <2>8, <3>1 DEF e
        <5> QED
          BY <5>1
      <4> QED
        BY <2>4, <2>6, <3>1, <4>1 DEF e
    <3>2. CASE i # n + 1
      <4>1. i \in 1 .. n /\ i \in 1 .. N /\ i - 1 \in 0 .. N /\ i \in 0 .. N
        BY <2>1, <3>2, <1>1
      <4>2. cat[n][Begin(i - 1) + k] = <<L[i].buffptr, k - 1>>
        BY <2>2, <2>7, <4>1
      <4>3. Begin(i) = Begin(i - 1) + L[i].size /\ Begin(i - 1) \in Nat
        BY <4>1, BeginValue DEF N, L
      <4>4. Begin(i) <= Begin(n)
        <5>1. CASE i = 0 \/ n = 0
          BY <4>1, <5>1
        <5>2. i - 1 \in Slots /\ n - 1 \in Slots /\ i - 1 <= n - 1
          BY <1>1, <2>1, <4>1, CountValue, MaxAssumption DEF IInv, TypeOK, N, Slots
        <5>3. RunningTotal(buffer)[i - 1] <= RunningTotal(buffer)[n - 1]
          BY <5>2, RunningTotalGrows DEF IInv, TypeOK
        <5> QED
          BY <4>1, <5>3 DEF Begin
      <4>5. L[i].size \in Nat
        BY <1>2, <4>1 DEF EntryOf
      <4>6. Begin(i - 1) + k \in 1 .. Len(cat[n]) + e.size /\ Begin(i - 1) + k <= Len(cat[n])
        <5>1. /\ Begin(i - 1) \in Nat /\ Begin(i - 1) + L[i].size <= Len(cat[n])
              /\ Len(cat[n]) \in Nat
          BY <2>5, <2>8, <4>3, <4>4
        <5>2. k \in 1 .. L[i].size /\ e.size \in Nat
          BY <2>4, <2>7
        <5>3. ASSUME NEW b \in Nat, NEW l \in Nat, NEW z \in Nat, NEW m \in Nat,
                     NEW j \in 1 .. z, b + z <= l
              PROVE  b + j \in 1 .. l + m /\ b + j <= l
          BY <5>3
        <5> QED
          BY <4>5, <5>1, <5>2, <5>3, Zenon
      <4> QED
        BY <2>6, <4>2, <4>6
    <3> QED
      BY <3>1, <3>2
  <2> QED
    BY <2>2, <2>5, <2>6, <2>7
<1>11. Right(N)
  <2> HIDE DEF Right
  <2>1. \A n \in Nat : n \in S => n + 1 \in S
    BY <1>10
  <2>2. N \in S
    <3> HIDE DEF S
    <3> QED
      BY <1>1, <1>9, <2>1, NatInduct
  <2> QED
    BY <1>1, <2>2
<1> QED
  BY <1>6, <1>11 DEF N, L

\* The lookup is right for every content of the ring: an offset yields the entry
\* and the place in it of the byte with that number, and NULL past the last.
THEOREM FindCorrect == Spec => []FindMatchesConcatenation
<1>1. IInv => FindMatchesConcatenation
  <2> SUFFICES ASSUME IInv, NEW off \in 0 .. Len(Bytes) + 1
               PROVE  LET found == aesd_circular_buffer_find_entry_offset_for_fpos(buffer, off)
                      IN  IF off < Len(Bytes)
                          THEN /\ found # NULL
                               /\ Bytes[off + 1] = <<buffer.entry[found.index].buffptr,
                                                     found.entry_offset>>
                          ELSE found = NULL
    BY DEF FindMatchesConcatenation
  <2> DEFINE found == aesd_circular_buffer_find_entry_offset_for_fpos(buffer, off)
             T == RunningTotal(buffer)
             N == Count(buffer)
  <2>1. buffer \in BufferOf(Ptr) /\ WellFormed(buffer)
    BY DEF IInv, TypeOK, RingInv
  <2>2. N \in 0 .. MAX
    BY <2>1, CountValue
  <2>3. Len(Bytes) = Begin(N) /\ Begin(N) \in Nat /\ off \in Nat
    BY <2>2, BytesValue, BeginValue
  <2>4. T \in [Slots -> Nat]
    BY <2>1, RunningTotalValue
  <2>5. CASE found = NULL /\ \A i \in Slots : T[i] <= off
    <3>1. N # 0 => N - 1 \in Slots
      BY <2>2, MaxAssumption DEF Slots
    <3>2. Begin(N) <= off
      BY <2>3, <2>5, <3>1 DEF Begin
    <3> QED
      BY <2>3, <2>5, <3>2
  <2>6. ASSUME NEW i \in Slots, Begin(i) <= off, off < T[i], Begin(i) \in Nat,
               found = [index |-> ReadSlot(buffer, i), entry_offset |-> off - Begin(i)],
               T[i] = Begin(i) + buffer.entry[ReadSlot(buffer, i)].size,
               ReadSlot(buffer, i) \in Slots
        PROVE  /\ off < Len(Bytes) /\ found # NULL
               /\ Bytes[off + 1] = <<buffer.entry[found.index].buffptr, found.entry_offset>>
    <3> HIDE DEF T, found
    <3>1. T[i] \in Nat /\ buffer.entry[ReadSlot(buffer, i)].size \in Nat
      BY <2>1, <2>4, <2>6 DEF BufferOf, EntryOf
    <3>2. i < N
      <4>1. buffer.entry[ReadSlot(buffer, i)].size # 0
        BY <2>6, <3>1
      <4>2. buffer.entry[ReadSlot(buffer, i)] # NullEntry
        BY <4>1 DEF NullEntry
      <4>3. ~(i >= N)
        BY <2>1, <4>2 DEF WellFormed
      <4> QED
        BY <2>2, <4>3 DEF Slots
    <3>3. /\ i + 1 \in 1 .. N /\ (i + 1) - 1 = i /\ N - 1 \in Slots /\ i <= N - 1 /\ N # 0
          /\ i \in Nat /\ N \in Nat
      BY <2>2, <3>2, MaxAssumption DEF Slots
    <3>4. T[i] <= T[N - 1] /\ Begin(N) = T[N - 1]
      BY <2>1, <3>3, RunningTotalGrows DEF T, Begin
    <3>5. off < Len(Bytes)
      BY <2>3, <2>4, <2>6, <3>1, <3>3, <3>4
    <3>6. Log(buffer)[i + 1] = buffer.entry[ReadSlot(buffer, i)]
      BY <2>1, <3>3, LogIsSeq
    <3> DEFINE k == off - Begin(i) + 1
    <3>7. k \in 1 .. Log(buffer)[i + 1].size /\ k - 1 = off - Begin(i) /\ Begin(i) + k = off + 1
      <4> DEFINE m == buffer.entry[ReadSlot(buffer, i)].size
                 o == Begin(i)
      <4>1. m \in Nat /\ o \in Nat /\ o <= off /\ off < o + m /\ off \in Nat
        BY <2>3, <2>6, <3>1
      <4> HIDE DEF m, o
      <4>2. off - o + 1 \in 1 .. m /\ (off - o + 1) - 1 = off - o /\ o + (off - o + 1) = off + 1
        BY <4>1
      <4> QED
        BY <3>6, <4>2 DEF m, o
    <3> HIDE DEF k
    <3>8. Bytes[Begin((i + 1) - 1) + k] = <<Log(buffer)[i + 1].buffptr, k - 1>>
      BY <3>3, <3>7, BytesValue
    <3>9. /\ found.index = ReadSlot(buffer, i) /\ found.entry_offset = off - Begin(i)
          /\ found \in [index : Slots, entry_offset : Nat]
      BY <2>3, <2>6
    <3> QED
      BY <3>3, <3>5, <3>6, <3>7, <3>8, <3>9, NullAssumption
  <2>7. \/ found = NULL /\ \A i \in Slots : T[i] <= off
        \/ \E i \in Slots :
             /\ found = [index |-> ReadSlot(buffer, i), entry_offset |-> off - Begin(i)]
             /\ Begin(i) <= off /\ off < T[i]
             /\ T[i] = Begin(i) + buffer.entry[ReadSlot(buffer, i)].size
             /\ Begin(i) \in Nat /\ ReadSlot(buffer, i) \in Slots
    BY <2>1, <2>3, FindValue DEF Begin
  <2> QED
    BY <2>5, <2>6, <2>7
<1> QED
  BY <1>1, InvInit, InvStep, PTL DEF Spec
=============================================================================

------------------------ MODULE CircularBufferLemmas ------------------------
(***************************************************************************)
(* Facts about the operators of CircularBuffer, for every MAX, cited by    *)
(* the proofs of the modules that keep such a buffer.                      *)
(***************************************************************************)
EXTENDS CircularBuffer, SequencesExt, SequenceTheorems, WellFoundedInduction, TLAPS

\* The modulo in ++offs; offs %= MAX only ever folds MAX back to 0.
LEMMA AdvanceValue ==
  ASSUME NEW o \in Slots
  PROVE  /\ Advance(o) = IF o = MAX - 1 THEN 0 ELSE o + 1
         /\ Advance(o) \in Slots
<1>1. CASE o = MAX - 1
  BY <1>1, MaxAssumption DEF Advance, Slots
<1>2. CASE o # MAX - 1
  <2>1. o + 1 \in 0 .. MAX - 1
    BY <1>2, MaxAssumption DEF Slots
  <2>2. (o + 1) % MAX = o + 1
    BY <2>1, MaxAssumption
  <2> QED
    BY <1>2, <2>1, <2>2 DEF Advance, Slots
<1> QED
  BY <1>1, <1>2

\* The lookup loop's slot (out_offs + i) % MAX wraps at most once.
LEMMA ReadSlotValue ==
  ASSUME NEW o \in Slots, NEW i \in Slots
  PROVE  /\ (o + i) % MAX = IF o + i < MAX THEN o + i ELSE o + i - MAX
         /\ (o + i) % MAX \in Slots
<1>1. CASE o + i < MAX
  BY <1>1, MaxAssumption DEF Slots
<1>2. CASE ~(o + i < MAX)
  <2> DEFINE r == o + i - MAX
  <2>1. r \in 0 .. MAX - 1 /\ o + i = MAX * 1 + r
    BY <1>2, MaxAssumption DEF Slots
  <2>2. (MAX * 1 + r) % MAX = r
    BY <2>1, MaxAssumption
  <2> QED
    BY <1>2, <2>1, <2>2 DEF Slots
<1> QED
  BY <1>1, <1>2

\* Different turns of the lookup loop visit different slots.
LEMMA ReadSlotInjective ==
  ASSUME NEW o \in Slots, NEW i \in Slots, NEW j \in Slots, i # j
  PROVE  (o + i) % MAX # (o + j) % MAX
<1>1. (o + i) % MAX = IF o + i < MAX THEN o + i ELSE o + i - MAX
  BY ReadSlotValue
<1>2. (o + j) % MAX = IF o + j < MAX THEN o + j ELSE o + j - MAX
  BY ReadSlotValue
<1> DEFINE x == (o + i) % MAX
           y == (o + j) % MAX
<1>3. x = IF o + i < MAX THEN o + i ELSE o + i - MAX
  BY <1>1
<1>4. y = IF o + j < MAX THEN o + j ELSE o + j - MAX
  BY <1>2
<1> HIDE DEF x, y
<1>6. x # y
  BY <1>3, <1>4, MaxAssumption DEF Slots
<1> QED
  BY <1>6 DEF x, y

\* Starting one slot later and going one turn less ends at the same slot.
LEMMA ReadSlotShift ==
  ASSUME NEW o \in Slots, NEW i \in Slots, i + 1 \in Slots
  PROVE  (Advance(o) + i) % MAX = (o + (i + 1)) % MAX
<1> DEFINE a == Advance(o)
           x == (a + i) % MAX
           y == (o + (i + 1)) % MAX
<1>1. a \in Slots /\ a = IF o = MAX - 1 THEN 0 ELSE o + 1
  BY AdvanceValue
<1>2. x = IF a + i < MAX THEN a + i ELSE a + i - MAX
  <2> HIDE DEF a
  <2> QED
    BY <1>1, ReadSlotValue
<1>3. y = IF o + (i + 1) < MAX THEN o + (i + 1) ELSE o + (i + 1) - MAX
  BY ReadSlotValue
<1>4. x = y
  <2> HIDE DEF a, x, y
  <2> QED
    BY <1>1, <1>2, <1>3, MaxAssumption DEF Slots
<1> QED
  BY <1>4

\* A whole turn less one step from the slot behind o is o itself.
LEMMA LastSlot ==
  ASSUME NEW o \in Slots
  PROVE  (Advance(o) + (MAX - 1)) % MAX = o
<1> DEFINE a == Advance(o)
           x == (a + (MAX - 1)) % MAX
<1>1. a \in Slots /\ a = IF o = MAX - 1 THEN 0 ELSE o + 1
  BY AdvanceValue
<1>2. MAX - 1 \in Slots
  BY MaxAssumption DEF Slots
<1>3. x = IF a + (MAX - 1) < MAX THEN a + (MAX - 1) ELSE a + (MAX - 1) - MAX
  <2> HIDE DEF a
  <2> QED
    BY <1>1, <1>2, ReadSlotValue
<1>4. x = o
  <2> HIDE DEF a, x
  <2> QED
    BY <1>1, <1>3, MaxAssumption DEF Slots
<1> QED
  BY <1>4

\* The number of used slots, without the modulo.
LEMMA CountValue ==
  ASSUME NEW P, NEW b \in BufferOf(P)
  PROVE  /\ Count(b) = IF b.full THEN MAX
                       ELSE IF b.in_offs >= b.out_offs
                            THEN b.in_offs - b.out_offs
                            ELSE b.in_offs - b.out_offs + MAX
         /\ Count(b) \in 0 .. MAX
<1>1. b.in_offs \in Slots /\ b.out_offs \in Slots /\ b.full \in BOOLEAN
  BY DEF BufferOf
<1>2. CASE b.in_offs >= b.out_offs
  <2>1. b.in_offs - b.out_offs \in 0 .. MAX - 1
    BY <1>1, <1>2, MaxAssumption DEF Slots
  <2>2. (b.in_offs - b.out_offs) % MAX = b.in_offs - b.out_offs
    BY <2>1, MaxAssumption
  <2> QED
    BY <1>1, <1>2, <2>1, <2>2, MaxAssumption DEF Count
<1>3. CASE b.in_offs < b.out_offs
  <2> DEFINE r == b.in_offs - b.out_offs + MAX
  <2>1. r \in 0 .. MAX - 1 /\ b.in_offs - b.out_offs = MAX * (-1) + r
    BY <1>1, <1>3, MaxAssumption DEF Slots
  <2>2. (MAX * (-1) + r) % MAX = r
    BY <2>1, MaxAssumption
  <2> QED
    BY <1>1, <1>3, <2>1, <2>2, MaxAssumption DEF Count, Slots
<1> QED
  BY <1>1, <1>2, <1>3 DEF Slots

\* add_entry, field by field.
LEMMA AddEntryFields ==
  ASSUME NEW P, NEW b \in BufferOf(P), NEW e \in EntryOf(P)
  PROVE  LET c == aesd_circular_buffer_add_entry(b, e)
         IN  /\ c \in BufferOf(P)
             /\ c.entry = [b.entry EXCEPT ![b.in_offs] = e]
             /\ c.in_offs = Advance(b.in_offs)
             /\ c.out_offs = IF b.full THEN Advance(b.out_offs) ELSE b.out_offs
             /\ c.full = (b.full \/ Advance(b.in_offs) = b.out_offs)
<1> DEFINE c == aesd_circular_buffer_add_entry(b, e)
<1>1. /\ b.entry \in [Slots -> EntryOf(P)] /\ b.in_offs \in Slots
      /\ b.out_offs \in Slots /\ b.full \in BOOLEAN /\ b.size \in Int
      /\ b = [entry |-> b.entry, in_offs |-> b.in_offs, out_offs |-> b.out_offs,
              full |-> b.full, size |-> b.size]
  BY DEF BufferOf
<1>2. Advance(b.in_offs) \in Slots /\ Advance(b.out_offs) \in Slots
  BY <1>1, AdvanceValue
<1>3. e.size \in Int /\ Overwritten(b).size \in Int
  BY <1>1 DEF EntryOf, Overwritten
<1>4. [b.entry EXCEPT ![b.in_offs] = e] \in [Slots -> EntryOf(P)]
  BY <1>1
<1>5. c = [entry    |-> [b.entry EXCEPT ![b.in_offs] = e],
           in_offs  |-> Advance(b.in_offs),
           out_offs |-> IF b.full THEN Advance(b.out_offs) ELSE b.out_offs,
           full     |-> (b.full \/ Advance(b.in_offs) = b.out_offs),
           size     |-> b.size + e.size
                          - (IF b.full THEN Overwritten(b).size ELSE 0)]
  BY <1>1 DEF aesd_circular_buffer_add_entry
<1> QED
  BY <1>1, <1>2, <1>3, <1>4, <1>5 DEF BufferOf

\* An empty buffer is well formed.
LEMMA InitWellFormed ==
  ASSUME NEW P
  PROVE  /\ aesd_circular_buffer_init \in BufferOf(P)
         /\ WellFormed(aesd_circular_buffer_init)
         /\ Count(aesd_circular_buffer_init) = 0
<1> DEFINE b == aesd_circular_buffer_init
<1>1. b \in BufferOf(P)
  BY MaxAssumption
  DEF BufferOf, EntryOf, Slots, NullEntry, aesd_circular_buffer_init
<1>2. Count(b) = 0
  BY <1>1, CountValue DEF aesd_circular_buffer_init
<1>3. \A i \in Slots : ReadSlot(b, i) \in Slots
  BY <1>1, ReadSlotValue DEF BufferOf, ReadSlot
<1>4. \A i \in Slots : b.entry[ReadSlot(b, i)] = NullEntry
  BY <1>3 DEF aesd_circular_buffer_init
<1>5. \A i \in Slots : ~(i < Count(b))
  BY <1>2 DEF Slots
<1> QED
  BY <1>1, <1>2, <1>4, <1>5 DEF WellFormed, aesd_circular_buffer_init

\* The slot add_entry writes is the one after the newest entry, and on a full
\* buffer the one of the oldest.
LEMMA InOffsIsNextSlot ==
  ASSUME NEW P, NEW b \in BufferOf(P), WellFormed(b)
  PROVE  /\ b.full => ReadSlot(b, 0) = b.in_offs
         /\ ~b.full => /\ Count(b) \in Slots
                       /\ ReadSlot(b, Count(b)) = b.in_offs
<1>1. /\ b.in_offs \in Slots /\ b.out_offs \in Slots /\ 0 \in Slots
      /\ b.full \in BOOLEAN
  BY MaxAssumption DEF BufferOf, Slots
<1>2. ASSUME b.full
      PROVE  ReadSlot(b, 0) = b.in_offs
  <2>1. b.in_offs = b.out_offs
    BY <1>2 DEF WellFormed
  <2>2. (b.out_offs + 0) % MAX = b.out_offs
    <3>1. b.out_offs + 0 < MAX /\ b.out_offs + 0 = b.out_offs
      BY <1>1, MaxAssumption DEF Slots
    <3> QED
      BY <1>1, <3>1, ReadSlotValue
  <2> QED
    BY <2>1, <2>2 DEF ReadSlot
<1>3. ASSUME ~b.full
      PROVE  Count(b) \in Slots /\ ReadSlot(b, Count(b)) = b.in_offs
  <2>1. Count(b) = IF b.in_offs >= b.out_offs
                   THEN b.in_offs - b.out_offs
                   ELSE b.in_offs - b.out_offs + MAX
    BY <1>1, <1>3, CountValue
  <2>2. Count(b) \in Slots
    BY <1>1, <2>1, MaxAssumption DEF Slots
  <2>3. ReadSlot(b, Count(b)) = IF b.out_offs + Count(b) < MAX
                                THEN b.out_offs + Count(b)
                                ELSE b.out_offs + Count(b) - MAX
    BY <1>1, <2>2, ReadSlotValue DEF ReadSlot
  <2> QED
    BY <1>1, <2>1, <2>2, <2>3, MaxAssumption DEF Slots
<1> QED
  BY <1>2, <1>3

\* What add_entry does to the read order: on a full buffer every entry moves
\* one place towards the front and the new one comes last; otherwise the new
\* one is put behind the others.
LEMMA AddEntryReadOrder ==
  ASSUME NEW P, NULL \notin P, NEW b \in BufferOf(P), WellFormed(b),
         NEW e \in EntryOf(P)
  PROVE  LET c == aesd_circular_buffer_add_entry(b, e)
         IN  /\ Count(c) = IF b.full THEN MAX ELSE Count(b) + 1
             /\ c.full => c.in_offs = c.out_offs
             /\ c.entry[ReadSlot(c, Count(c) - 1)] = e
             /\ \A i \in Slots :
                  i # Count(c) - 1 =>
                     c.entry[ReadSlot(c, i)] =
                        IF b.full THEN b.entry[ReadSlot(b, i + 1)]
                                  ELSE b.entry[ReadSlot(b, i)]
<1> DEFINE c == aesd_circular_buffer_add_entry(b, e)
<1>1. /\ b.in_offs \in Slots /\ b.out_offs \in Slots /\ b.full \in BOOLEAN
      /\ b.entry \in [Slots -> EntryOf(P)]
  BY DEF BufferOf
<1>2. /\ c \in BufferOf(P)
      /\ c.entry = [b.entry EXCEPT ![b.in_offs] = e]
      /\ c.in_offs = Advance(b.in_offs)
      /\ c.out_offs = IF b.full THEN Advance(b.out_offs) ELSE b.out_offs
      /\ c.full = (b.full \/ Advance(b.in_offs) = b.out_offs)
  BY AddEntryFields
<1>3. /\ Advance(b.in_offs) = IF b.in_offs = MAX - 1 THEN 0 ELSE b.in_offs + 1
      /\ Advance(b.out_offs) = IF b.out_offs = MAX - 1 THEN 0 ELSE b.out_offs + 1
  BY <1>1, AdvanceValue
<1>4. c.in_offs \in Slots /\ c.out_offs \in Slots
  BY <1>2 DEF BufferOf
<1>5. /\ b.full => b.in_offs = b.out_offs
      /\ c.full => c.in_offs = c.out_offs
  BY <1>2 DEF WellFormed
<1>6. Count(c) = IF b.full THEN MAX ELSE Count(b) + 1
  <2>1. CASE b.full
    BY <1>2, <2>1, CountValue
  <2>2. CASE ~b.full
    <3>1. Count(b) = IF b.in_offs >= b.out_offs THEN b.in_offs - b.out_offs
                     ELSE b.in_offs - b.out_offs + MAX
      BY <2>2, CountValue
    <3>2. Count(c) = IF c.full THEN MAX
                     ELSE IF c.in_offs >= c.out_offs THEN c.in_offs - c.out_offs
                     ELSE c.in_offs - c.out_offs + MAX
      BY <1>2, CountValue
    <3> DEFINE bi == b.in_offs
               bo == b.out_offs
               ci == c.in_offs
               nb == Count(b)
               nc == Count(c)
               cf == c.full
    <3>3. /\ bi \in Slots /\ bo \in Slots
          /\ nb = IF bi >= bo THEN bi - bo ELSE bi - bo + MAX
          /\ ci = IF bi = MAX - 1 THEN 0 ELSE bi + 1
          /\ cf <=> ci = bo
          /\ nc = IF cf THEN MAX ELSE IF ci >= bo THEN ci - bo ELSE ci - bo + MAX
      BY <1>1, <1>2, <1>3, <2>2, <3>1, <3>2
    <3>4. nc = nb + 1
      <4> HIDE DEF bi, bo, ci, nb, nc, cf
      <4> QED
        BY <3>3, MaxAssumption DEF Slots
    <3> QED
      BY <2>2, <3>4
  <2> QED
    BY <1>1, <2>1, <2>2
<1>7. Count(c) - 1 \in Slots
  BY <1>2, <1>6, CountValue, MaxAssumption DEF Slots
<1>8. ASSUME NEW i \in Slots
      PROVE  ReadSlot(c, i) \in Slots
  BY <1>1, <1>4, ReadSlotValue DEF ReadSlot
<1>9. ReadSlot(c, Count(c) - 1) = b.in_offs
  <2>1. CASE b.full
    <3>1. Count(c) - 1 = MAX - 1 /\ c.out_offs = Advance(b.in_offs)
      BY <1>2, <1>5, <1>6, <2>1
    <3>2. (Advance(b.in_offs) + (MAX - 1)) % MAX = b.in_offs
      BY <1>1, LastSlot
    <3> QED
      BY <3>1, <3>2 DEF ReadSlot
  <2>2. CASE ~b.full
    <3>1. ReadSlot(b, Count(b)) = b.in_offs /\ Count(b) \in Slots
      BY <2>2, InOffsIsNextSlot
    <3>2. Count(c) - 1 = Count(b)
      BY <1>6, <2>2, <3>1, MaxAssumption DEF Slots
    <3> QED
      BY <1>2, <2>2, <3>1, <3>2 DEF ReadSlot
  <2> QED
    BY <1>1, <2>1, <2>2
<1>10. ASSUME NEW i \in Slots, i # Count(c) - 1
       PROVE  c.entry[ReadSlot(c, i)] = IF b.full THEN b.entry[ReadSlot(b, i + 1)]
                                                  ELSE b.entry[ReadSlot(b, i)]
  <2>1. ReadSlot(c, i) # b.in_offs
    <3>1. (c.out_offs + i) % MAX # (c.out_offs + (Count(c) - 1)) % MAX
      BY <1>4, <1>7, <1>10, ReadSlotInjective
    <3> QED
      BY <1>9, <3>1 DEF ReadSlot
  <2>2. c.entry[ReadSlot(c, i)] = b.entry[ReadSlot(c, i)]
    BY <1>1, <1>2, <1>8, <2>1
  <2>3. CASE ~b.full
    BY <1>2, <2>2, <2>3 DEF ReadSlot
  <2>4. CASE b.full
    <3>1. i + 1 \in Slots
      BY <1>6, <1>10, <2>4, MaxAssumption DEF Slots
    <3>2. ReadSlot(b, i + 1) = ReadSlot(c, i)
      <4>1. (Advance(b.out_offs) + i) % MAX = (b.out_offs + (i + 1)) % MAX
        BY <1>1, <3>1, ReadSlotShift
      <4> QED
        BY <1>2, <2>4, <4>1 DEF ReadSlot
    <3> QED
      BY <2>2, <2>4, <3>2
  <2> QED
    BY <1>1, <2>3, <2>4
<1>11. c.entry[ReadSlot(c, Count(c) - 1)] = e
  BY <1>1, <1>2, <1>9
<1> QED
  BY <1>5, <1>6, <1>10, <1>11

\* add_entry keeps the buffer well formed.
LEMMA AddEntryWellFormed ==
  ASSUME NEW P, NULL \notin P, NEW b \in BufferOf(P), WellFormed(b),
         NEW e \in EntryOf(P), e.buffptr # NULL
  PROVE  WellFormed(aesd_circular_buffer_add_entry(b, e))
<1> DEFINE c == aesd_circular_buffer_add_entry(b, e)
<1>1. /\ Count(c) = IF b.full THEN MAX ELSE Count(b) + 1
      /\ c.full => c.in_offs = c.out_offs
      /\ c.entry[ReadSlot(c, Count(c) - 1)] = e
      /\ \A i \in Slots :
           i # Count(c) - 1 =>
              c.entry[ReadSlot(c, i)] = IF b.full THEN b.entry[ReadSlot(b, i + 1)]
                                                  ELSE b.entry[ReadSlot(b, i)]
  BY AddEntryReadOrder
<1>2. Count(b) \in 0 .. MAX /\ (b.full => Count(b) = MAX)
  BY CountValue
<1>3. ASSUME NEW i \in Slots, i >= Count(c)
      PROVE  c.entry[ReadSlot(c, i)] = NullEntry
  BY <1>1, <1>2, <1>3 DEF WellFormed, Slots
<1>4. ASSUME NEW i \in Slots, i < Count(c)
      PROVE  c.entry[ReadSlot(c, i)].buffptr # NULL
  <2>1. CASE i = Count(c) - 1
    BY <1>1, <2>1
  <2>2. CASE i # Count(c) - 1
    <3>1. CASE b.full
      <4>1. i + 1 \in Slots /\ i + 1 < Count(b)
        BY <1>1, <1>2, <1>4, <2>2, <3>1 DEF Slots
      <4> QED
        BY <1>1, <2>2, <3>1, <4>1 DEF WellFormed
    <3>2. CASE ~b.full
      <4>1. i < Count(b)
        BY <1>1, <1>2, <1>4, <2>2, <3>2 DEF Slots
      <4> QED
        BY <1>1, <2>2, <3>2, <4>1 DEF WellFormed
    <3> QED
      BY <3>1, <3>2
  <2> QED
    BY <2>1, <2>2
<1> QED
  BY <1>1, <1>3, <1>4 DEF WellFormed

\* The log of a buffer is a sequence of Count(b) entries.
LEMMA LogIsSeq ==
  ASSUME NEW P, NEW b \in BufferOf(P)
  PROVE  /\ Log(b) \in Seq(EntryOf(P))
         /\ Len(Log(b)) = Count(b)
         /\ \A i \in 1 .. Count(b) : Log(b)[i] = b.entry[ReadSlot(b, i - 1)]
<1>1. Count(b) \in 0 .. MAX /\ Count(b) \in Nat
  BY CountValue, MaxAssumption
<1>2. b.out_offs \in Slots /\ b.entry \in [Slots -> EntryOf(P)]
  BY DEF BufferOf
<1>3. ASSUME NEW i \in 1 .. Count(b)
      PROVE  b.entry[ReadSlot(b, i - 1)] \in EntryOf(P)
  <2>1. i - 1 \in Slots
    BY <1>1, MaxAssumption DEF Slots
  <2>2. ReadSlot(b, i - 1) \in Slots
    BY <1>2, <2>1, ReadSlotValue DEF ReadSlot
  <2> QED
    BY <1>2, <2>2
<1> QED
  BY <1>1, <1>3 DEF Log

\* add_entry on the log: append, after dropping the oldest when full; and the
\* entry it hands back is the dropped one, or a null entry.
LEMMA AddEntryLog ==
  ASSUME NEW P, NULL \notin P, NEW b \in BufferOf(P), WellFormed(b),
         NEW e \in EntryOf(P)
  PROVE  LET c == aesd_circular_buffer_add_entry(b, e)
         IN  /\ b.full => /\ Len(Log(b)) = MAX
                          /\ Log(c) = Append(Tail(Log(b)), e)
                          /\ Overwritten(b) = Head(Log(b))
             /\ ~b.full => /\ Len(Log(b)) < MAX
                           /\ Log(c) = Append(Log(b), e)
                           /\ Overwritten(b) = NullEntry
<1> DEFINE c == aesd_circular_buffer_add_entry(b, e)
           S == EntryOf(P)
<1>1. c \in BufferOf(P) /\ b.full \in BOOLEAN
  BY AddEntryFields DEF BufferOf
<1>2. /\ Count(c) = IF b.full THEN MAX ELSE Count(b) + 1
      /\ c.entry[ReadSlot(c, Count(c) - 1)] = e
      /\ \A i \in Slots :
           i # Count(c) - 1 =>
              c.entry[ReadSlot(c, i)] = IF b.full THEN b.entry[ReadSlot(b, i + 1)]
                                                  ELSE b.entry[ReadSlot(b, i)]
  BY AddEntryReadOrder
<1>3. Count(b) \in 0 .. MAX /\ (b.full => Count(b) = MAX)
  BY CountValue
<1>4. /\ Log(b) \in Seq(S) /\ Len(Log(b)) = Count(b)
      /\ \A i \in 1 .. Count(b) : Log(b)[i] = b.entry[ReadSlot(b, i - 1)]
  BY LogIsSeq
<1>5. /\ Log(c) \in Seq(S) /\ Len(Log(c)) = Count(c)
      /\ \A i \in 1 .. Count(c) : Log(c)[i] = c.entry[ReadSlot(c, i - 1)]
  BY <1>1, LogIsSeq
<1> HIDE DEF c
<1>6. ASSUME b.full
      PROVE  /\ Len(Log(b)) = MAX
             /\ Log(c) = Append(Tail(Log(b)), e)
             /\ Overwritten(b) = Head(Log(b))
  <2>1. Len(Log(b)) = MAX /\ Count(c) = MAX /\ Log(b) # << >>
    BY <1>2, <1>3, <1>4, <1>6, MaxAssumption
  <2>2. /\ Tail(Log(b)) \in Seq(S) /\ Len(Tail(Log(b))) = MAX - 1
        /\ \A i \in 1 .. MAX - 1 : Tail(Log(b))[i] = Log(b)[i + 1]
    BY <1>4, <2>1, HeadTailProperties
  <2> DEFINE t == Append(Tail(Log(b)), e)
  <2>3. /\ t \in Seq(S) /\ Len(t) = MAX
        /\ \A i \in 1 .. MAX - 1 : t[i] = Log(b)[i + 1]
        /\ t[MAX] = e
    BY <2>2, MaxAssumption
  <2>4. ASSUME NEW i \in 1 .. MAX
        PROVE  Log(c)[i] = t[i]
    <3>1. Log(c)[i] = c.entry[ReadSlot(c, i - 1)]
      BY <1>5, <2>1
    <3>2. CASE i = MAX
      BY <1>2, <2>1, <2>3, <3>1, <3>2
    <3>3. CASE i # MAX
      <4>1. i - 1 \in Slots /\ i - 1 # MAX - 1 /\ i \in 1 .. MAX - 1
            /\ i + 1 \in 1 .. MAX /\ (i - 1) + 1 = i /\ (i + 1) - 1 = i
        BY <3>3, MaxAssumption DEF Slots
      <4>2. c.entry[ReadSlot(c, i - 1)] = b.entry[ReadSlot(b, i)]
        BY <1>2, <1>6, <2>1, <4>1
      <4>3. Log(b)[i + 1] = b.entry[ReadSlot(b, i)]
        BY <1>4, <2>1, <4>1
      <4> QED
        BY <2>3, <3>1, <4>1, <4>2, <4>3
    <3> QED
      BY <3>2, <3>3
  <2>5. Log(c) = t
    <3> HIDE DEF t
    <3> QED
      BY <1>5, <2>1, <2>3, <2>4, SeqEqual
  <2>6. Overwritten(b) = Head(Log(b))
    <3>1. ReadSlot(b, 0) = b.in_offs
      BY <1>6, InOffsIsNextSlot
    <3>2. Log(b)[1] = b.entry[ReadSlot(b, 0)]
      <4>1. 1 \in 1 .. Count(b) /\ 1 - 1 = 0
        BY <1>4, <2>1, MaxAssumption
      <4> QED
        BY <1>4, <4>1
    <3>3. Head(Log(b)) = Log(b)[1]
      BY <1>4, <2>1
    <3> QED
      BY <3>1, <3>2, <3>3 DEF Overwritten
  <2> QED
    BY <2>1, <2>5, <2>6
<1>7. ASSUME ~b.full
      PROVE  /\ Len(Log(b)) < MAX
             /\ Log(c) = Append(Log(b), e)
             /\ Overwritten(b) = NullEntry
  <2>1. Count(b) \in Slots /\ ReadSlot(b, Count(b)) = b.in_offs
    BY <1>7, InOffsIsNextSlot
  <2>2. Count(b) \in Nat /\ Count(b) < MAX /\ Count(c) = Count(b) + 1
    BY <1>2, <1>7, <2>1, MaxAssumption DEF Slots
  <2> DEFINE n == Count(b)
             t == Append(Log(b), e)
  <2>3. /\ t \in Seq(S) /\ Len(t) = n + 1
        /\ \A i \in 1 .. n : t[i] = Log(b)[i]
        /\ t[n + 1] = e
    BY <1>4, <2>2
  <2>4. ASSUME NEW i \in 1 .. n + 1
        PROVE  Log(c)[i] = t[i]
    <3>1. Log(c)[i] = c.entry[ReadSlot(c, i - 1)]
      BY <1>5, <2>2
    <3>2. CASE i = n + 1
      BY <1>2, <2>2, <2>3, <3>1, <3>2
    <3>3. CASE i # n + 1
      <4>1. i \in 1 .. n /\ i - 1 \in Slots /\ i - 1 # Count(c) - 1
        BY <2>2, <3>3, MaxAssumption DEF Slots
      <4>2. c.entry[ReadSlot(c, i - 1)] = b.entry[ReadSlot(b, i - 1)]
        BY <1>2, <1>7, <4>1
      <4> QED
        BY <1>4, <2>3, <3>1, <4>1, <4>2
    <3> QED
      BY <3>2, <3>3
  <2>5. Log(c) = t
    <3> HIDE DEF t
    <3> QED
      BY <1>5, <2>2, <2>3, <2>4, SeqEqual
  <2>6. Overwritten(b) = NullEntry
    <3>1. b.entry[ReadSlot(b, Count(b))] = NullEntry
      BY <2>1, <2>2 DEF WellFormed
    <3> QED
      BY <2>1, <3>1 DEF Overwritten
  <2> QED
    BY <1>4, <2>2, <2>5, <2>6
<1> QED
  BY <1>1, <1>6, <1>7 DEF c
-----------------------------------------------------------------------------
(* Sums by recursion.  The library's induction theorem takes a predicate as*)
(* a parameter; here it is stated about a set, and proved from the well-   *)
(* foundedness of < on the naturals.                                       *)

LEMMA NatMin ==
  ASSUME NEW S \in SUBSET Nat, S # {}
  PROVE  Min(S) \in S /\ \A y \in S : Min(S) <= y
<1> DEFINE R == OpToRel(<, Nat)
<1>1. IsWellFoundedOn(R, Nat)
  BY NatLessThanWellFounded
<1>2. PICK x \in S : \A y \in S : ~ (<<y, x>> \in R)
  <2> HIDE DEF R
  <2> QED
    BY <1>1, WFMin
<1>3. \A y \in S : ~(y < x)
  BY <1>2 DEF OpToRel
<1>4. \A y \in S : x <= y
  BY <1>3
<1> QED
  BY <1>4 DEF Min

LEMMA NatInduct ==
  ASSUME NEW S, 0 \in S, \A n \in Nat : n \in S => n + 1 \in S
  PROVE  \A n \in Nat : n \in S
<1> SUFFICES ASSUME NEW m \in Nat, m \notin S PROVE FALSE
  OBVIOUS
<1> DEFINE T == Nat \ S
           x == Min(T)
<1>1. T \in SUBSET Nat /\ T # {}
  OBVIOUS
<1>2. x \in T /\ \A y \in T : x <= y
  <2> HIDE DEF T
  <2> QED
    BY <1>1, NatMin
<1> HIDE DEF x
<1>3. x \in Nat /\ x \notin S /\ x # 0
  BY <1>2
<1>4. x - 1 \in Nat /\ ~(x <= x - 1) /\ (x - 1) + 1 = x
  BY <1>3
<1>5. x - 1 \in S
  BY <1>2, <1>4
<1> QED
  BY <1>3, <1>4, <1>5

\* f starts at v and goes on by the steps G.
Recurs(f, N, V, v, G) ==
  f \in [0 .. N -> V] /\ f[0] = v /\ \A i \in 1 .. N : f[i] = G[i][f[i - 1]]

\* A function that is defined by recursion exists ...
LEMMA Recursion ==
  ASSUME NEW N \in Nat, NEW V, NEW v \in V, NEW G \in [1 .. N -> [V -> V]]
  PROVE  \E f : Recurs(f, N, V, v, G)
<1> DEFINE Upto(n) == \E f \in [0 .. n -> V] :
                        f[0] = v /\ \A i \in 1 .. n : f[i] = G[i][f[i - 1]]
           S == {n \in Nat : n <= N => Upto(n)}
<1>1. Upto(0)
  <2> DEFINE g == [i \in 0 .. 0 |-> v]
  <2>1. g \in [0 .. 0 -> V] /\ g[0] = v
    OBVIOUS
  <2> HIDE DEF g
  <2> QED
    BY <2>1
<1>2. ASSUME NEW n \in Nat, n \in S, n + 1 <= N PROVE Upto(n + 1)
  <2>1. PICK f \in [0 .. n -> V] : f[0] = v /\ \A i \in 1 .. n : f[i] = G[i][f[i - 1]]
    BY <1>2
  <2> DEFINE g == [i \in 0 .. n + 1 |-> IF i = n + 1 THEN G[n + 1][f[n]] ELSE f[i]]
  <2>2. G[n + 1][f[n]] \in V
    BY <1>2
  <2>3. g \in [0 .. n + 1 -> V] /\ g[0] = v
    BY <2>1, <2>2
  <2>4. ASSUME NEW i \in 1 .. n + 1 PROVE g[i] = G[i][g[i - 1]]
    <3>1. i - 1 \in 0 .. n /\ i \in 0 .. n + 1 /\ i - 1 \in 0 .. n + 1
      OBVIOUS
    <3>2. g[i - 1] = f[i - 1]
      BY <3>1
    <3>3. CASE i = n + 1
      BY <3>2, <3>3
    <3>4. CASE i # n + 1
      <4>1. i \in 1 .. n /\ g[i] = f[i]
        BY <3>1, <3>4
      <4> QED
        BY <2>1, <3>2, <4>1
    <3> QED
      BY <3>3, <3>4
  <2> HIDE DEF g
  <2> QED
    BY <2>3, <2>4
<1>3. \A n \in Nat : n \in S => n + 1 \in S
  <2> HIDE DEF Upto
  <2> QED
    BY <1>2
<1>4. Upto(N)
  <2>1. 0 \in S
    BY <1>1
  <2> HIDE DEF Upto
  <2>2. N \in S
    <3> HIDE DEF S
    <3> QED
      BY <1>3, <2>1, NatInduct
  <2> QED
    BY <2>2
<1> QED
  BY <1>4 DEF Recurs

\* ... and has the values its steps stay in.
LEMMA RecursionRange ==
  ASSUME NEW N \in Nat, NEW V, NEW f, f[0] \in V,
         \A i \in 1 .. N : f[i - 1] \in V => f[i] \in V
  PROVE  \A i \in 0 .. N : f[i] \in V
<1> DEFINE S == {n \in Nat : n <= N => f[n] \in V}
<1>1. ASSUME NEW n \in Nat, n \in S, n + 1 <= N PROVE f[n + 1] \in V
  <2>1. n + 1 \in 1 .. N /\ (n + 1) - 1 = n /\ n <= N
    BY <1>1
  <2>2. f[(n + 1) - 1] \in V => f[n + 1] \in V
    BY <2>1
  <2>3. f[n] \in V
    BY <1>1, <2>1
  <2> QED
    BY <2>1, <2>2, <2>3
<1>2. \A n \in Nat : n \in S => n + 1 \in S
  BY <1>1
<1>3. 0 \in S
  OBVIOUS
<1>4. \A n \in Nat : n \in S
  <2> HIDE DEF S
  <2> QED
    BY <1>2, <1>3, NatInduct
<1> QED
  BY <1>4

-----------------------------------------------------------------------------
(* The lookup.                                                             *)

\* The total of the lookup loop, turn by turn.
LEMMA RunningTotalValue ==
  ASSUME NEW P, NEW b \in BufferOf(P)
  PROVE  /\ RunningTotal(b) \in [Slots -> Nat]
         /\ \A i \in Slots :
              RunningTotal(b)[i] =
                b.entry[ReadSlot(b, i)].size + (IF i = 0 THEN 0 ELSE RunningTotal(b)[i - 1])
<1> DEFINE size(i) == b.entry[ReadSlot(b, i)].size
           Rec(g) == g = [i \in Slots |-> size(i) + (IF i = 0 THEN 0 ELSE g[i - 1])]
           G == [i \in 1 .. MAX |-> [x \in Nat |-> x + size(i - 1)]]
<1>1. ASSUME NEW i \in Slots
      PROVE  size(i) \in Nat
  <2>1. ReadSlot(b, i) \in Slots
    BY ReadSlotValue DEF BufferOf, ReadSlot
  <2> QED
    BY <2>1 DEF BufferOf, EntryOf
<1>2. MAX \in Nat /\ \A i \in 1 .. MAX : i - 1 \in Slots
  BY MaxAssumption DEF Slots
<1> HIDE DEF size
<1>3. G \in [1 .. MAX -> [Nat -> Nat]]
  BY <1>1, <1>2
<1>4. PICK f \in [0 .. MAX -> Nat] : f[0] = 0 /\ \A i \in 1 .. MAX : f[i] = G[i][f[i - 1]]
  <2> HIDE DEF G
  <2>1. \E f : Recurs(f, MAX, Nat, 0, G)
    BY <1>2, <1>3, Recursion
  <2> QED
    BY <2>1 DEF Recurs
<1> DEFINE g == [i \in Slots |-> f[i + 1]]
<1>5. Rec(g)
  <2>1. ASSUME NEW i \in Slots
        PROVE  g[i] = size(i) + (IF i = 0 THEN 0 ELSE g[i - 1])
    <3>1. i + 1 \in 1 .. MAX /\ (i + 1) - 1 = i /\ i \in 0 .. MAX
      BY MaxAssumption DEF Slots
    <3>2. f[i + 1] = f[i] + size(i) /\ f[i] \in Nat
      BY <1>4, <3>1
    <3>3. f[i] = IF i = 0 THEN 0 ELSE g[i - 1]
      <4>1. i # 0 => i - 1 \in Slots /\ (i - 1) + 1 = i
        BY MaxAssumption DEF Slots
      <4> QED
        BY <1>4, <4>1
    <3> QED
      BY <1>1, <3>2, <3>3
  <2> QED
    BY <2>1
<1>6. Rec(RunningTotal(b))
  <2>1. \E h : Rec(h)
    BY <1>5
  <2>2. RunningTotal(b) = CHOOSE h : Rec(h)
    BY DEF RunningTotal, size
  <2> HIDE DEF Rec
  <2> QED
    BY <2>1, <2>2
<1> DEFINE T == RunningTotal(b)
<1>7. T = [i \in Slots |-> size(i) + (IF i = 0 THEN 0 ELSE T[i - 1])]
  BY <1>6
<1> HIDE DEF T
<1>8. ASSUME NEW i \in Slots
      PROVE  T[i] = size(i) + (IF i = 0 THEN 0 ELSE T[i - 1])
  BY <1>7
<1> DEFINE S == {n \in Nat : n < MAX => T[n] \in Nat}
<1>9. \A n \in Nat : n \in S
  <2>1. 0 \in S
    <3>1. 0 \in Slots
      BY MaxAssumption DEF Slots
    <3>2. T[0] \in Nat
      BY <1>1, <1>8, <3>1
    <3> QED
      BY <3>2
  <2>2. ASSUME NEW n \in Nat, n \in S, n + 1 < MAX PROVE T[n + 1] \in Nat
    <3>1. n + 1 \in Slots /\ n + 1 # 0 /\ (n + 1) - 1 = n /\ n < MAX
      BY <2>2, MaxAssumption DEF Slots
    <3>2. T[n] \in Nat
      BY <2>2, <3>1
    <3>3. T[n + 1] = size(n + 1) + T[(n + 1) - 1]
      BY <1>8, <3>1
    <3> QED
      BY <1>1, <3>1, <3>2, <3>3
  <2>3. \A n \in Nat : n \in S => n + 1 \in S
    BY <2>2
  <2> HIDE DEF S
  <2> QED
    BY <2>1, <2>3, NatInduct
<1>10. \A i \in Slots : T[i] \in Nat
  BY <1>9, MaxAssumption DEF Slots
<1>11. T \in [Slots -> Nat]
  <2>1. T = [i \in Slots |-> T[i]]
    BY <1>7
  <2> QED
    BY <1>10, <2>1
<1> QED
  BY <1>8, <1>11 DEF T, size

\* The total never falls from one turn to a later one.
LEMMA RunningTotalGrows ==
  ASSUME NEW P, NEW b \in BufferOf(P), NEW i \in Slots, NEW j \in Slots, i <= j
  PROVE  RunningTotal(b)[i] <= RunningTotal(b)[j]
<1> DEFINE T == RunningTotal(b)
           S == {n \in Nat : i + n < MAX => T[i] <= T[i + n]}
<1>1. T \in [Slots -> Nat] /\ \A k \in Slots : k # 0 => T[k - 1] <= T[k]
  <2>1. ASSUME NEW k \in Slots, k # 0 PROVE T[k - 1] <= T[k]
    <3>1. ReadSlot(b, k) \in Slots
      BY ReadSlotValue DEF BufferOf, ReadSlot
    <3>2. b.entry[ReadSlot(b, k)].size \in Nat
      BY <3>1 DEF BufferOf, EntryOf
    <3>3. k - 1 \in Slots
      BY <2>1, MaxAssumption DEF Slots
    <3>4. T[k] = b.entry[ReadSlot(b, k)].size + T[k - 1] /\ T[k - 1] \in Nat
      BY <2>1, <3>3, RunningTotalValue
    <3> HIDE DEF T
    <3> QED
      BY <3>2, <3>4
  <2> QED
    BY <2>1, RunningTotalValue
<1> HIDE DEF T
<1>2. 0 \in S
  BY <1>1 DEF Slots
<1>3. ASSUME NEW n \in Nat, n \in S, i + (n + 1) < MAX PROVE T[i] <= T[i + (n + 1)]
  <2>1. /\ i + (n + 1) \in Slots /\ i + n \in Slots /\ (i + (n + 1)) - 1 = i + n
        /\ i + (n + 1) # 0 /\ i + n < MAX
    BY <1>3, MaxAssumption DEF Slots
  <2>2. T[i + n] <= T[i + (n + 1)]
    BY <1>1, <2>1
  <2>3. T[i] <= T[i + n]
    BY <1>3, <2>1
  <2>4. T[i] \in Nat /\ T[i + n] \in Nat /\ T[i + (n + 1)] \in Nat
    BY <1>1, <2>1
  <2> QED
    BY <2>2, <2>3, <2>4
<1>4. j - i \in S
  <2>1. \A n \in Nat : n \in S => n + 1 \in S
    BY <1>3
  <2>2. j - i \in Nat
    BY DEF Slots
  <2> HIDE DEF S
  <2> QED
    BY <1>2, <2>1, <2>2, NatInduct
<1>5. i + (j - i) = j /\ j < MAX
  BY MaxAssumption DEF Slots
<1>6. T[i] <= T[i + (j - i)]
  BY <1>4, <1>5
<1> QED
  BY <1>5, <1>6 DEF T

\* The lookup: NULL past the end, and below it the first turn whose total is past
\* the offset, with the offset counted from where its entry begins.
LEMMA FindValue ==
  ASSUME NEW P, NEW b \in BufferOf(P), NEW off \in Nat
  PROVE  LET found == aesd_circular_buffer_find_entry_offset_for_fpos(b, off)
             T     == RunningTotal(b)
         IN  \/ found = NULL /\ \A i \in Slots : T[i] <= off
             \/ \E i \in Slots :
                  LET begin == IF i = 0 THEN 0 ELSE T[i - 1]
                  IN  /\ found = [index |-> ReadSlot(b, i), entry_offset |-> off - begin]
                      /\ begin <= off /\ off < T[i]
                      /\ T[i] = begin + b.entry[ReadSlot(b, i)].size
                      /\ begin \in Nat
                      /\ ReadSlot(b, i) \in Slots
<1> DEFINE found == aesd_circular_buffer_find_entry_offset_for_fpos(b, off)
           T     == RunningTotal(b)
           U     == TurnsPast(b, off)
           i     == Min(U)
           begin == IF i = 0 THEN 0 ELSE T[i - 1]
<1>1. /\ T \in [Slots -> Nat]
      /\ \A k \in Slots :
           T[k] = b.entry[ReadSlot(b, k)].size + (IF k = 0 THEN 0 ELSE T[k - 1])
  BY RunningTotalValue
<1>2. U = {k \in Slots : T[k] > off}
  BY DEF TurnsPast
<1>3. CASE U = {}
  <2>1. found = NULL
    BY <1>3 DEF aesd_circular_buffer_find_entry_offset_for_fpos
  <2>2. \A k \in Slots : T[k] <= off
    <3> HIDE DEF T
    <3> QED
      BY <1>1, <1>2, <1>3
  <2> QED
    BY <2>1, <2>2
<1>4. CASE U # {}
  <2>1. i \in U /\ \A k \in U : i <= k
    <3>1. U \in SUBSET Nat
      BY <1>2, MaxAssumption DEF Slots
    <3> HIDE DEF U
    <3> QED
      BY <1>4, <3>1, NatMin
  <2>2. found = [index |-> ReadSlot(b, i),
                 entry_offset |-> off - (T[i] - b.entry[ReadSlot(b, i)].size)]
    BY <1>4 DEF aesd_circular_buffer_find_entry_offset_for_fpos
  <2>3. ASSUME NEW k \in Slots PROVE ReadSlot(b, k) \in Slots /\ b.entry[ReadSlot(b, k)].size \in Nat
    <3>1. ReadSlot(b, k) \in Slots
      BY ReadSlotValue DEF BufferOf, ReadSlot
    <3> QED
      BY <3>1 DEF BufferOf, EntryOf
  <2> HIDE DEF T, i, U, found
  <2>4. i \in Slots /\ off < T[i] /\ T[i] \in Nat
    BY <1>1, <1>2, <2>1
  <2>5. begin \in Nat /\ begin <= off
    <3>1. CASE i = 0
      BY <3>1
    <3>2. CASE i # 0
      <4>1. i - 1 \in Slots /\ ~(i <= i - 1)
        BY <2>4, <3>2, MaxAssumption DEF Slots
      <4>2. T[i - 1] \in Nat /\ ~(T[i - 1] > off)
        BY <1>1, <1>2, <2>1, <4>1
      <4> QED
        BY <3>2, <4>2
    <3> QED
      BY <3>1, <3>2
  <2>6. T[i] = begin + b.entry[ReadSlot(b, i)].size
    BY <1>1, <2>3, <2>4, <2>5
  <2>7. off - (T[i] - b.entry[ReadSlot(b, i)].size) = off - begin
    BY <2>3, <2>4, <2>5, <2>6
  <2>8. ReadSlot(b, i) \in Slots
    BY <2>3, <2>4
  <2> HIDE DEF begin
  <2>9. found = [index |-> ReadSlot(b, i), entry_offset |-> off - begin]
    BY <2>2, <2>7
  <2> QED
    BY <2>4, <2>5, <2>6, <2>8, <2>9 DEF T, found, begin
<1> QED
  BY <1>3, <1>4

\* What add_entry does to the total of the whole buffer.
LEMMA AddEntryTotal ==
  ASSUME NEW P, NULL \notin P, NEW b \in BufferOf(P), WellFormed(b),
         NEW e \in EntryOf(P)
  PROVE  RunningTotal(aesd_circular_buffer_add_entry(b, e))[MAX - 1] =
           RunningTotal(b)[MAX - 1] + e.size
             - (IF b.full THEN Overwritten(b).size ELSE 0)
<1> DEFINE c == aesd_circular_buffer_add_entry(b, e)
           T == RunningTotal(b)
           U == RunningTotal(c)
           bs(i) == b.entry[ReadSlot(b, i)].size
           cs(i) == c.entry[ReadSlot(c, i)].size
           last == MAX - 1
<1>1. c \in BufferOf(P) /\ b.full \in BOOLEAN /\ e.size \in Nat
  BY AddEntryFields DEF BufferOf, EntryOf
<1>2. /\ T \in [Slots -> Nat]
      /\ \A i \in Slots : T[i] = bs(i) + (IF i = 0 THEN 0 ELSE T[i - 1])
  BY RunningTotalValue
<1>3. /\ U \in [Slots -> Nat]
      /\ \A i \in Slots : U[i] = cs(i) + (IF i = 0 THEN 0 ELSE U[i - 1])
  BY <1>1, RunningTotalValue
<1>4. /\ Count(c) = IF b.full THEN MAX ELSE Count(b) + 1
      /\ cs(Count(c) - 1) = e.size
      /\ \A i \in Slots : i # Count(c) - 1 =>
           cs(i) = IF b.full THEN bs(i + 1) ELSE bs(i)
  BY AddEntryReadOrder
<1>5. ASSUME NEW i \in Slots PROVE bs(i) \in Nat
  <2>1. ReadSlot(b, i) \in Slots
    BY ReadSlotValue DEF BufferOf, ReadSlot
  <2> QED
    BY <2>1 DEF BufferOf, EntryOf
<1>6. last \in Nat /\ 0 \in Slots /\ last \in Slots
  BY MaxAssumption DEF Slots
<1>7. ASSUME b.full PROVE U[last] = T[last] + e.size - Overwritten(b).size
  <2>1. bs(0) = Overwritten(b).size
    BY <1>7, InOffsIsNextSlot DEF Overwritten
  <2> HIDE DEF T, U, bs, cs
  <2>2. \A i \in 0 .. last : i < last => U[i] = T[i + 1] - T[0]
    <3> DEFINE W == {i \in Nat : i < last => U[i] = T[i + 1] - T[0]}
    <3>1. 0 \in W
      <4> SUFFICES ASSUME 0 < last PROVE U[0] = T[0 + 1] - T[0]
        OBVIOUS
      <4>1. 1 \in Slots /\ 0 # Count(c) - 1
        BY <1>4, <1>7, MaxAssumption DEF Slots
      <4>2. cs(0) = bs(0 + 1)
        BY <1>4, <1>6, <1>7, <4>1
      <4>3. U[0] = bs(1) /\ T[1] = bs(1) + T[0]
        BY <1>2, <1>3, <1>5, <1>6, <4>1, <4>2
      <4> QED
        BY <1>2, <1>5, <1>6, <4>1, <4>3
    <3>2. ASSUME NEW i \in Nat, i \in W, i + 1 < last
          PROVE  U[i + 1] = T[(i + 1) + 1] - T[0]
      <4>1. /\ i + 1 \in Slots /\ i + 2 \in Slots /\ i + 1 # Count(c) - 1
            /\ i + 1 # 0 /\ i + 2 # 0 /\ (i + 1) - 1 = i /\ (i + 2) - 1 = i + 1
            /\ (i + 1) + 1 = i + 2 /\ i < last /\ i \in Slots
        BY <1>4, <1>7, <3>2, MaxAssumption DEF Slots
      <4>2. cs(i + 1) = bs((i + 1) + 1)
        BY <1>4, <1>7, <4>1
      <4>3. U[i + 1] = cs(i + 1) + U[(i + 1) - 1]
        BY <1>3, <4>1
      <4>4. T[i + 2] = bs(i + 2) + T[(i + 2) - 1]
        BY <1>2, <4>1
      <4>5. U[i] = T[i + 1] - T[0]
        BY <3>2, <4>1
      <4>6. T[i + 1] \in Nat /\ T[0] \in Nat /\ bs(i + 2) \in Nat
        BY <1>2, <1>5, <1>6, <4>1
      <4> QED
        BY <4>1, <4>2, <4>3, <4>4, <4>5, <4>6
    <3>3. \A i \in Nat : i \in W => i + 1 \in W
      BY <3>2
    <3>4. \A i \in Nat : i \in W
      <4> HIDE DEF W
      <4> QED
        BY <3>1, <3>3, NatInduct
    <3> QED
      BY <3>4, <1>6
  <2>3. cs(last) = e.size
    BY <1>4, <1>7
  <2>4. U[last] = e.size + (IF last = 0 THEN 0 ELSE U[last - 1])
    BY <1>3, <1>6, <2>3
  <2>5. T[0] = bs(0) /\ T[0] \in Nat /\ T[last] \in Nat
    BY <1>2, <1>5, <1>6
  <2>6. CASE last = 0
    BY <1>1, <2>1, <2>4, <2>5, <2>6
  <2>7. CASE last # 0
    <3>1. last - 1 \in 0 .. last /\ last - 1 < last /\ (last - 1) + 1 = last
      BY <1>6, <2>7, MaxAssumption
    <3>2. U[last - 1] = T[last] - T[0]
      BY <2>2, <3>1
    <3> HIDE DEF last
    <3> QED
      BY <1>1, <2>1, <2>4, <2>5, <2>7, <3>2
  <2> QED
    BY <2>6, <2>7
<1>8. ASSUME ~b.full PROVE U[last] = T[last] + e.size
  <2> DEFINE k == Count(b)
  <2>1. k \in Slots /\ bs(k) = 0
    <3>1. k \in Slots
      BY <1>8, InOffsIsNextSlot
    <3>2. k >= Count(b)
      BY <3>1 DEF Slots
    <3>3. b.entry[ReadSlot(b, k)] = NullEntry
      BY <3>1, <3>2 DEF WellFormed
    <3> QED
      BY <3>1, <3>3 DEF NullEntry
  <2>2. Count(c) - 1 = k /\ k \in Nat
    BY <1>4, <1>8, <2>1 DEF Slots
  <2>3. cs(k) = e.size /\ \A i \in Slots : i # k => cs(i) = bs(i)
    BY <1>4, <1>8, <2>2
  <2> HIDE DEF T, U, bs, cs, k
  <2> DEFINE W == {i \in Nat : i <= last => U[i] = T[i] + (IF i < k THEN 0 ELSE e.size)}
  <2>4. 0 \in W
    <3>1. U[0] = cs(0) /\ T[0] = bs(0)
      <4>1. cs(0) \in Nat
        BY <1>1, <1>5, <1>6, <2>3
      <4> QED
        BY <1>2, <1>3, <1>5, <1>6, <4>1
    <3> QED
      BY <1>1, <1>5, <1>6, <2>1, <2>2, <2>3, <3>1
  <2>5. ASSUME NEW i \in Nat, i \in W, i + 1 <= last
        PROVE  U[i + 1] = T[i + 1] + (IF i + 1 < k THEN 0 ELSE e.size)
    <3>1. i + 1 \in Slots /\ i + 1 # 0 /\ (i + 1) - 1 = i /\ i \in Slots /\ i <= last
      BY <2>5, MaxAssumption DEF Slots
    <3>2. U[i] = T[i] + (IF i < k THEN 0 ELSE e.size)
      BY <2>5, <3>1
    <3>3. U[i + 1] = cs(i + 1) + U[(i + 1) - 1]
      BY <1>3, <3>1
    <3>4. T[i + 1] = bs(i + 1) + T[(i + 1) - 1]
      BY <1>2, <3>1
    <3>5. cs(i + 1) = IF i + 1 = k THEN e.size ELSE bs(i + 1)
      BY <2>3, <3>1
    <3>6. T[i] \in Nat /\ bs(i + 1) \in Nat /\ (i + 1 = k => bs(i + 1) = 0)
      BY <1>2, <1>5, <2>1, <3>1
    <3> QED
      BY <1>1, <2>2, <3>1, <3>2, <3>3, <3>4, <3>5, <3>6
  <2>6. \A i \in Nat : i \in W
    <3>1. \A i \in Nat : i \in W => i + 1 \in W
      BY <2>5
    <3> HIDE DEF W
    <3> QED
      BY <2>4, <3>1, NatInduct
  <2>7. U[last] = T[last] + (IF last < k THEN 0 ELSE e.size)
    BY <1>6, <2>6
  <2>8. ~(last < k)
    BY <2>1, MaxAssumption DEF Slots
  <2> QED
    BY <2>7, <2>8
<1>9. T[last] \in Nat
  BY <1>2, <1>6
<1> HIDE DEF T, U
<1>10. U[last] = T[last] + e.size - (IF b.full THEN Overwritten(b).size ELSE 0)
  BY <1>1, <1>7, <1>8, <1>9
<1> QED
  BY <1>10 DEF T, U
-----------------------------------------------------------------------------
(* FlattenSeq, by which a reader sees the entries of a buffer.             *)

\* Two recursions with the same start and the same steps agree.
StepAlike(f, h, n) ==
  f[0] = h[0] /\ \A i \in 1 .. n : f[i - 1] = h[i - 1] => f[i] = h[i]

LEMMA SameSteps ==
  ASSUME NEW n \in Nat, NEW f, NEW h, StepAlike(f, h, n)
  PROVE  \A i \in 0 .. n : f[i] = h[i]
<1> DEFINE S == {k \in Nat : k <= n => f[k] = h[k]}
<1>1. 0 \in S
  BY DEF StepAlike
<1>2. ASSUME NEW k \in Nat, k \in S, k + 1 <= n PROVE f[k + 1] = h[k + 1]
  <2>1. k + 1 \in 1 .. n /\ (k + 1) - 1 = k /\ k <= n
    BY <1>2
  <2>2. f[(k + 1) - 1] = h[(k + 1) - 1] => f[k + 1] = h[k + 1]
    BY <2>1 DEF StepAlike
  <2>3. f[k] = h[k]
    BY <1>2, <2>1
  <2> QED
    BY <2>1, <2>2, <2>3
<1>3. \A k \in Nat : k \in S => k + 1 \in S
  BY <1>2
<1>4. \A k \in Nat : k \in S
  <2> HIDE DEF S
  <2> QED
    BY <1>1, <1>3, NatInduct
<1> QED
  BY <1>4

\* f[i] is the first i members of s together.
Joins(f, s, V) ==
  /\ f \in [0 .. Len(s) -> Seq(V)] /\ f[0] = << >>
  /\ \A i \in 1 .. Len(s) : f[i] = f[i - 1] \o s[i]

LEMMA FlattenValue ==
  ASSUME NEW V, NEW s \in Seq(Seq(V))
  PROVE  \E f : Joins(f, s, V) /\ FlattenSeq(s) = f[Len(s)]
<1> DEFINE N == Len(s)
           W == Seq(V)
           Rec(g) == g = [i \in 1 .. N |-> IF i = 1 THEN s[i] ELSE g[i - 1] \o s[i]]
           flatten == CHOOSE g : Rec(g)
<1>1. N \in Nat /\ << >> \in W /\ \A i \in 1 .. N : s[i] \in W
  OBVIOUS
<1>2. PICK f : Joins(f, s, V)
  <2> DEFINE G == [i \in 1 .. N |-> [w \in W |-> w \o s[i]]]
  <2>1. G \in [1 .. N -> [W -> W]]
    <3>1. ASSUME NEW i \in 1 .. N, NEW w \in W PROVE w \o s[i] \in W
      BY <1>1, ConcatProperties
    <3> HIDE DEF W, N
    <3> QED
      BY <3>1
  <2>2. PICK f : Recurs(f, N, W, << >>, G)
    <3> HIDE DEF G, W, N
    <3> QED
      BY <1>1, <2>1, Recursion
  <2>3. f \in [0 .. N -> W] /\ f[0] = << >> /\ \A i \in 1 .. N : f[i] = G[i][f[i - 1]]
    BY <2>2 DEF Recurs
  <2>4. ASSUME NEW i \in 1 .. N PROVE f[i] = f[i - 1] \o s[i]
    <3>1. i - 1 \in 0 .. N
      BY <1>1
    <3>2. f[i - 1] \in W
      BY <2>3, <3>1
    <3> HIDE DEF W, N
    <3> QED
      BY <2>3, <3>2
  <2> QED
    BY <2>3, <2>4 DEF Joins
<1>3. /\ f \in [0 .. N -> W] /\ f[0] = << >>
      /\ \A i \in 1 .. N : f[i] = f[i - 1] \o s[i]
  BY <1>2 DEF Joins
<1>4. CASE N = 0
  <2>1. s = << >> /\ FlattenSeq(s) = s
    BY <1>4 DEF FlattenSeq
  <2> QED
    BY <1>2, <1>3, <1>4, <2>1
<1>5. CASE N # 0
  <2> HIDE DEF W
  <2>1. N > 0 /\ 1 \in 1 .. N
    BY <1>1, <1>5
  <2>2. f[1] = s[1]
    <3>1. f[1] = << >> \o s[1]
      <4>1. f[1] = f[1 - 1] \o s[1]
        BY <1>3, <2>1, Zenon
      <4>2. 1 - 1 = 0
        OBVIOUS
      <4> QED
        BY <1>3, <4>1, <4>2, Zenon
    <3>2. s[1] \in Seq(V)
      BY <1>1, <2>1
    <3> QED
      BY <3>1, <3>2, ConcatEmptySeq
  <2> DEFINE g == [i \in 1 .. N |-> f[i]]
  <2>3. Rec(g)
    <3>1. ASSUME NEW i \in 1 .. N PROVE g[i] = IF i = 1 THEN s[i] ELSE g[i - 1] \o s[i]
      <4>1. CASE i = 1
        BY <2>2, <4>1
      <4>2. CASE i # 1
        <5>1. i - 1 \in 1 .. N /\ g[i - 1] = f[i - 1] /\ g[i] = f[i]
          BY <1>1, <4>2
        <5> HIDE DEF g
        <5> QED
          BY <1>3, <4>2, <5>1
      <4> QED
        BY <4>1, <4>2
    <3>2. g = [i \in 1 .. N |-> g[i]]
      OBVIOUS
    <3> HIDE DEF g, N
    <3> QED
      BY <3>1, <3>2
  <2>4. Rec(flatten)
    <3>1. \E h : Rec(h)
      <4> HIDE DEF g, Rec
      <4> QED
        BY <2>3
    <3> HIDE DEF Rec
    <3> QED
      BY <3>1
  <2>5. FlattenSeq(s) = flatten[N]
    BY <1>5 DEF FlattenSeq
  <2> HIDE DEF flatten, g
  <2>6. \A i \in 1 .. N : flatten[i] = IF i = 1 THEN s[i] ELSE flatten[i - 1] \o s[i]
    <3> HIDE DEF N
    <3> QED
      BY <2>4
  <2> DEFINE h == [i \in 0 .. N |-> IF i = 0 THEN << >> ELSE flatten[i]]
  <2>7. ASSUME NEW i \in 1 .. N, f[i - 1] = h[i - 1] PROVE f[i] = h[i]
    <3>1. CASE i = 1
      BY <2>2, <2>6, <3>1
    <3>2. CASE i # 1
      <4>1. i - 1 \in 1 .. N /\ h[i - 1] = flatten[i - 1] /\ h[i] = flatten[i]
        BY <1>1, <3>2
      <4> HIDE DEF h, N
      <4>2. f[i] = f[i - 1] \o s[i]
        BY <1>3, Zenon
      <4>3. flatten[i] = flatten[i - 1] \o s[i]
        BY <2>6, <3>2, Zenon
      <4> QED
        BY <2>7, <4>1, <4>2, <4>3, Zenon
    <3> QED
      BY <3>1, <3>2
  <2>8. f[0] = h[0] /\ h[N] = flatten[N]
    BY <1>1, <1>3, <1>5
  <2>9. f[N] = h[N]
    <3> HIDE DEF h, N
    <3>1. StepAlike(f, h, N)
      BY <2>7, <2>8 DEF StepAlike
    <3>2. \A i \in 0 .. N : f[i] = h[i]
      BY <1>1, <3>1, SameSteps
    <3> QED
      BY <1>1, <3>2
  <2> QED
    BY <1>2, <2>5, <2>8, <2>9
<1> QED
  BY <1>4, <1>5

LEMMA FlattenType ==
  ASSUME NEW V, NEW s \in Seq(Seq(V))
  PROVE  FlattenSeq(s) \in Seq(V)
<1>1. PICK f : Joins(f, s, V) /\ FlattenSeq(s) = f[Len(s)]
  BY FlattenValue
<1>2. Len(s) \in 0 .. Len(s)
  OBVIOUS
<1> QED
  BY <1>1, <1>2 DEF Joins

\* A command is added at the end ...
LEMMA FlattenAppend ==
  ASSUME NEW V, NEW s \in Seq(Seq(V)), NEW x \in Seq(V)
  PROVE  FlattenSeq(Append(s, x)) = FlattenSeq(s) \o x
<1> DEFINE t == Append(s, x)
           n == Len(s)
<1>1. /\ n \in Nat /\ t \in Seq(Seq(V)) /\ Len(t) = n + 1 /\ t[n + 1] = x
      /\ \A i \in 1 .. n : t[i] = s[i]
  BY AppendProperties
<1>2. PICK f : Joins(f, s, V) /\ FlattenSeq(s) = f[n]
  BY FlattenValue
<1> HIDE DEF t
<1>3. PICK h : Joins(h, t, V) /\ FlattenSeq(t) = h[n + 1]
  BY <1>1, FlattenValue
<1> HIDE DEF n
<1>4. f[0] = << >> /\ \A i \in 1 .. n : f[i] = f[i - 1] \o s[i]
  BY <1>2 DEF Joins, n
<1>5. h[0] = << >> /\ \A i \in 1 .. n + 1 : h[i] = h[i - 1] \o t[i]
  BY <1>1, <1>3 DEF Joins
<1>6. \A i \in 1 .. n : i \in 1 .. n + 1
  BY <1>1
<1>7. \A i \in 1 .. n : f[i - 1] = h[i - 1] => f[i] = h[i]
  BY <1>1, <1>4, <1>5, <1>6
<1>8. \A i \in 0 .. n : f[i] = h[i]
  <2>1. StepAlike(f, h, n)
    BY <1>4, <1>5, <1>7 DEF StepAlike
  <2> QED
    BY <1>1, <2>1, SameSteps
<1>9. n \in 0 .. n /\ n + 1 \in 1 .. n + 1 /\ (n + 1) - 1 = n
  BY <1>1
<1>10. h[n + 1] = h[n] \o t[n + 1]
  BY <1>5, <1>9
<1> QED
  BY <1>1, <1>2, <1>3, <1>8, <1>9, <1>10 DEF t

\* ... and the oldest one is lost at the beginning.
LEMMA FlattenTail ==
  ASSUME NEW V, NEW s \in Seq(Seq(V)), s # << >>
  PROVE  s[1] \in Seq(V) /\ FlattenSeq(s) = s[1] \o FlattenSeq(Tail(s))
<1> DEFINE t == Tail(s)
           n == Len(s) - 1
<1>1. /\ n \in Nat /\ Len(s) = n + 1 /\ t \in Seq(Seq(V)) /\ Len(t) = n
      /\ \A i \in 1 .. n : t[i] = s[i + 1] /\ t[i] \in Seq(V)
      /\ s[1] \in Seq(V)
  BY HeadTailProperties
<1>2. PICK f : Joins(f, s, V) /\ FlattenSeq(s) = f[n + 1]
  BY <1>1, FlattenValue
<1> HIDE DEF t
<1>3. PICK h : Joins(h, t, V) /\ FlattenSeq(t) = h[n]
  BY <1>1, FlattenValue
<1> HIDE DEF n
<1>4. f[0] = << >> /\ \A i \in 1 .. n + 1 : f[i] = f[i - 1] \o s[i]
  BY <1>1, <1>2 DEF Joins
<1>5. /\ h[0] = << >> /\ \A i \in 0 .. n : h[i] \in Seq(V)
      /\ \A i \in 1 .. n : h[i] = h[i - 1] \o t[i]
  BY <1>1, <1>3 DEF Joins
<1> DEFINE F == [i \in 0 .. n |-> f[i + 1]]
           H == [i \in 0 .. n |-> s[1] \o h[i]]
<1>6. F[0] = H[0]
  <2>1. 0 \in 0 .. n /\ 1 \in 1 .. n + 1
    BY <1>1
  <2>2. f[1] = << >> \o s[1]
    <3>1. f[1] = f[1 - 1] \o s[1]
      BY <1>4, <2>1, Zenon
    <3>2. 1 - 1 = 0
      OBVIOUS
    <3> QED
      BY <1>4, <3>1, <3>2, Zenon
  <2>3. << >> \o s[1] = s[1] /\ s[1] \o << >> = s[1]
    BY <1>1, ConcatEmptySeq
  <2>4. F[0] = f[0 + 1] /\ H[0] = s[1] \o h[0]
    BY <2>1, Zenon
  <2>5. 0 + 1 = 1
    OBVIOUS
  <2> HIDE DEF F, H
  <2> QED
    BY <1>5, <2>2, <2>3, <2>4, <2>5, Zenon
<1>7. ASSUME NEW i \in 1 .. n, F[i - 1] = H[i - 1] PROVE F[i] = H[i]
  <2>1. /\ i \in 0 .. n /\ i - 1 \in 0 .. n /\ i + 1 \in 1 .. n + 1
        /\ (i + 1) - 1 = i /\ (i - 1) + 1 = i
    BY <1>1
  <2>2. F[i] = f[i + 1] /\ F[i - 1] = f[i]
    BY <2>1
  <2>3. H[i] = s[1] \o h[i] /\ H[i - 1] = s[1] \o h[i - 1]
    BY <2>1
  <2> HIDE DEF F, H
  <2>4. f[i + 1] = f[i] \o s[i + 1]
    BY <1>4, <2>1
  <2>5. f[i + 1] = (s[1] \o h[i - 1]) \o t[i]
    BY <1>1, <1>7, <2>2, <2>3, <2>4
  <2>6. (s[1] \o h[i - 1]) \o t[i] = s[1] \o (h[i - 1] \o t[i])
    <3>1. s[1] \in Seq(V) /\ h[i - 1] \in Seq(V) /\ t[i] \in Seq(V)
      BY <1>1, <1>5, <2>1
    <3> DEFINE a == s[1]
               b == h[i - 1]
               d == t[i]
    <3>2. a \in Seq(V) /\ b \in Seq(V) /\ d \in Seq(V)
      BY <3>1
    <3> HIDE DEF a, b, d
    <3>3. (a \o b) \o d = a \o (b \o d)
      BY <3>2
    <3> QED
      BY <3>3, Zenon DEF a, b, d
  <2> QED
    BY <1>5, <2>2, <2>3, <2>5, <2>6
<1>8. F[n] = f[n + 1] /\ H[n] = s[1] \o h[n]
  <2>1. n \in 0 .. n
    BY <1>1
  <2> QED
    BY <2>1
<1>9. F[n] = H[n]
  <2> HIDE DEF F, H
  <2>1. \A i \in 0 .. n : F[i] = H[i]
    <3>1. StepAlike(F, H, n)
      BY <1>6, <1>7 DEF StepAlike
    <3> QED
      BY <1>1, <3>1, SameSteps
  <2> QED
    BY <1>1, <2>1
<1> QED
  BY <1>1, <1>2, <1>3, <1>8, <1>9 DEF t
-----------------------------------------------------------------------------
(* A reader that goes on where its last read has ended.                    *)

LEMMA PrefixValue ==
  ASSUME NEW V, NEW s \in Seq(V), NEW t \in Seq(V)
  PROVE  IsPrefix(s, t) <=> /\ Len(s) <= Len(t)
                            /\ \A j \in 1 .. Len(s) : s[j] = t[j]
<1> DEFINE n == Len(s)
           s1 == SubSeq(s, 1, n)
           t1 == SubSeq(t, 1, n)
<1>1. n \in Nat /\ Len(t) \in Nat
  OBVIOUS
<1>2. s1 \in Seq(V) /\ Len(s1) = n /\ \A j \in 1 .. n : s1[j] = s[j]
  OBVIOUS
<1>3. n <= Len(t) => t1 \in Seq(V) /\ Len(t1) = n /\ \A j \in 1 .. n : t1[j] = t[j]
  OBVIOUS
<1>4. ASSUME n <= Len(t) PROVE s1 = t1 <=> \A j \in 1 .. n : s[j] = t[j]
  <2> HIDE DEF s1, t1, n
  <2>1. s1 = t1 => \A j \in 1 .. n : s[j] = t[j]
    BY <1>2, <1>3, <1>4
  <2>2. (\A j \in 1 .. n : s[j] = t[j]) => s1 = t1
    BY <1>1, <1>2, <1>3, <1>4, SeqEqual
  <2> QED
    BY <2>1, <2>2
<1> QED
  BY <1>4 DEF IsPrefix

\* The first members of s together are a beginning of all of them.
LEMMA JoinsPrefix ==
  ASSUME NEW V, NEW s \in Seq(Seq(V)), NEW f, Joins(f, s, V), NEW i \in 0 .. Len(s)
  PROVE  /\ Len(f[i]) <= Len(f[Len(s)])
         /\ \A j \in 1 .. Len(f[i]) : f[Len(s)][j] = f[i][j]
<1> DEFINE N == Len(s)
           Keeps(m) == /\ Len(f[i]) <= Len(f[m])
                       /\ \A j \in 1 .. Len(f[i]) : f[m][j] = f[i][j]
           S == {d \in Nat : i + d <= N => Keeps(i + d)}
<1>1. /\ N \in Nat /\ \A m \in 0 .. N : f[m] \in Seq(V)
      /\ \A m \in 1 .. N : f[m] = f[m - 1] \o s[m] /\ s[m] \in Seq(V)
  <2>1. f \in [0 .. N -> Seq(V)] /\ \A m \in 1 .. N : f[m] = f[m - 1] \o s[m]
    BY Zenon DEF Joins
  <2>2. N \in Nat /\ \A m \in 1 .. N : s[m] \in Seq(V)
    OBVIOUS
  <2> HIDE DEF N
  <2> QED
    BY <2>1, <2>2, Zenon
<1>2. \A m \in 0 .. N : Len(f[m]) \in Nat
  BY <1>1
<1> HIDE DEF N
<1>3. 0 \in S
  <2>1. i + 0 = i /\ Len(f[i]) \in Nat
    BY <1>1, <1>2 DEF N
  <2> QED
    BY <2>1
<1>4. ASSUME NEW d \in Nat, d \in S, i + (d + 1) <= N PROVE Keeps(i + (d + 1))
  <2> DEFINE m == i + (d + 1)
  <2>1. m \in 1 .. N /\ m - 1 = i + d /\ i + d <= N /\ m - 1 \in 0 .. N /\ i \in 0 .. N
    BY <1>1, <1>4 DEF N
  <2>2. Keeps(m - 1)
    <3> HIDE DEF Keeps, m
    <3> QED
      BY <1>4, <2>1
  <2> HIDE DEF m
  <2> DEFINE c == f[m - 1]
             e == s[m]
  <2>3. c \in Seq(V) /\ e \in Seq(V) /\ f[m] = c \o e /\ Len(f[i]) \in Nat
    BY <1>1, <1>2, <2>1
  <2> HIDE DEF c, e
  <2>4. /\ Len(c \o e) = Len(c) + Len(e) /\ Len(c) \in Nat /\ Len(e) \in Nat
        /\ \A j \in 1 .. Len(c) : (c \o e)[j] = c[j]
    BY <2>3, ConcatProperties
  <2>5. Len(f[i]) <= Len(c) /\ \A j \in 1 .. Len(f[i]) : c[j] = f[i][j]
    BY <2>2 DEF c
  <2>6. Keeps(m)
    BY <2>3, <2>4, <2>5
  <2> QED
    BY <2>6 DEF m
<1>5. \A d \in Nat : d \in S
  <2>1. \A d \in Nat : d \in S => d + 1 \in S
    BY <1>4
  <2> HIDE DEF S
  <2> QED
    BY <1>3, <2>1, NatInduct
<1>6. N - i \in Nat /\ i + (N - i) = N
  BY <1>1 DEF N
<1>7. Keeps(i + (N - i))
  <2> HIDE DEF Keeps
  <2>1. N - i \in S
    BY <1>5, <1>6, Zenon
  <2>2. i + (N - i) <= N
    BY <1>1, <1>6
  <2> QED
    BY <2>1, <2>2, Zenon
<1> QED
  BY <1>6, <1>7 DEF N

\* What is left of x after its first o members.
LEMMA RestOf ==
  ASSUME NEW V, NEW x \in Seq(V), NEW o \in Nat, o < Len(x)
  PROVE  LET r == SubSeq(x, o + 1, Len(x))
         IN  /\ r \in Seq(V) /\ Len(r) = Len(x) - o
             /\ \A j \in 1 .. Len(x) - o : r[j] = x[o + j]
OBVIOUS

\* Member j of h \o x lies beyond the first a, which end o members into x.
LEMMA BeyondRead ==
  ASSUME NEW a \in Nat, NEW b \in Nat, NEW c \in Nat, NEW o \in Nat, o = a - b,
         NEW j \in 1 .. b + c, ~(j <= a)
  PROVE  /\ j - a \in 1 .. c - o /\ o + (j - a) = j - b /\ ~(j <= b)
         /\ j \in 1 .. a + (c - o)
OBVIOUS

\* end[i] is the length of the first i members of s together.
EndsOf(end, s) ==
  end[0] = 0 /\ \A k \in 1 .. Len(s) : end[k] = end[k - 1] + Len(s[k])

LEMMA JoinsEnds ==
  ASSUME NEW V, NEW s \in Seq(Seq(V)), NEW f, Joins(f, s, V), NEW end, EndsOf(end, s)
  PROVE  \A k \in 0 .. Len(s) : Len(f[k]) = end[k]
<1> DEFINE N == Len(s)
           l == [k \in 0 .. N |-> Len(f[k])]
<1>1. N \in Nat /\ \A k \in 1 .. N : s[k] \in Seq(V)
  OBVIOUS
<1>2. /\ f \in [0 .. N -> Seq(V)] /\ f[0] = << >>
      /\ \A k \in 1 .. N : f[k] = f[k - 1] \o s[k]
  BY Zenon DEF Joins
<1>3. ASSUME NEW k \in 1 .. N, l[k - 1] = end[k - 1] PROVE l[k] = end[k]
  <2>1. k \in 0 .. N /\ k - 1 \in 0 .. N /\ end[k] = end[k - 1] + Len(s[k])
    BY <1>1 DEF EndsOf
  <2> HIDE DEF N
  <2> DEFINE c == f[k - 1]
             e == s[k]
  <2>2. c \in Seq(V) /\ e \in Seq(V) /\ f[k] = c \o e
    BY <1>1, <1>2, <2>1
  <2>3. l[k] = Len(f[k]) /\ l[k - 1] = Len(c)
    BY <2>1
  <2> HIDE DEF l, c
  <2>4. Len(c \o e) = Len(c) + Len(e)
    BY <2>2, ConcatProperties
  <2> QED
    BY <1>3, <2>1, <2>2, <2>3, <2>4
<1>4. l[0] = end[0]
  BY <1>1, <1>2 DEF EndsOf
<1>5. StepAlike(l, end, N)
  <2> HIDE DEF l, N
  <2> QED
    BY <1>3, <1>4 DEF StepAlike
<1>6. \A k \in 0 .. N : l[k] = end[k]
  <2> HIDE DEF l, N
  <2> QED
    BY <1>1, <1>5, SameSteps
<1> QED
  BY <1>6

\* F begins with h and x, and p is a beginning of F that ends inside x: p with the
\* rest of x is one, too.
LEMMA ReadsOnPart ==
  ASSUME NEW V, NEW F \in Seq(V), NEW h \in Seq(V), NEW x \in Seq(V), NEW p \in Seq(V),
         Len(h \o x) <= Len(F), \A j \in 1 .. Len(h \o x) : F[j] = (h \o x)[j],
         IsPrefix(p, F), Len(h) <= Len(p), Len(p) < Len(h) + Len(x)
  PROVE  LET q == p \o SubSeq(x, Len(p) - Len(h) + 1, Len(x))
         IN  q \in Seq(V) /\ Len(q) = Len(h) + Len(x) /\ IsPrefix(q, F)
<1> DEFINE o == Len(p) - Len(h)
           r == SubSeq(x, o + 1, Len(x))
           q == p \o r
<1>1. /\ Len(p) \in Nat /\ Len(h) \in Nat /\ Len(x) \in Nat /\ Len(F) \in Nat
      /\ o \in Nat /\ o < Len(x) /\ o = Len(p) - Len(h)
  OBVIOUS
<1>2. /\ Len(h \o x) = Len(h) + Len(x)
      /\ \A j \in 1 .. Len(h) + Len(x) :
           (h \o x)[j] = IF j <= Len(h) THEN h[j] ELSE x[j - Len(h)]
  BY ConcatProperties
<1> HIDE DEF o
<1>3. /\ r \in Seq(V) /\ Len(r) = Len(x) - o
      /\ \A j \in 1 .. Len(x) - o : r[j] = x[o + j]
  BY <1>1, RestOf
<1> HIDE DEF r
<1>4. /\ q \in Seq(V) /\ Len(q) = Len(p) + Len(r)
      /\ \A j \in 1 .. Len(p) + Len(r) :
           q[j] = IF j <= Len(p) THEN p[j] ELSE r[j - Len(p)]
  BY <1>3, ConcatProperties
<1> HIDE DEF q
<1>5. Len(q) = Len(h) + Len(x)
  BY <1>1, <1>3, <1>4
<1>6. Len(p) <= Len(F) /\ \A j \in 1 .. Len(p) : p[j] = F[j]
  BY PrefixValue
<1>7. ASSUME NEW j \in 1 .. Len(q) PROVE q[j] = F[j]
  <2>1. j \in 1 .. Len(h) + Len(x) /\ j \in 1 .. Len(p) + Len(r) /\ j \in 1 .. Len(h \o x)
    BY <1>2, <1>4, <1>5, <1>7
  <2>2. CASE j <= Len(p)
    <3>1. j \in 1 .. Len(p)
      BY <1>1, <2>1, <2>2
    <3> QED
      BY <1>4, <1>6, <2>1, <2>2, <3>1
  <2>3. CASE ~(j <= Len(p))
    <3>1. /\ j - Len(p) \in 1 .. Len(x) - o /\ o + (j - Len(p)) = j - Len(h)
          /\ ~(j <= Len(h))
      BY <1>1, <2>1, <2>3, BeyondRead
    <3>2. q[j] = r[j - Len(p)]
      BY <1>4, <2>1, <2>3
    <3>3. r[j - Len(p)] = x[o + (j - Len(p))]
      BY <1>3, <3>1
    <3>4. (h \o x)[j] = x[j - Len(h)] /\ F[j] = (h \o x)[j]
      BY <1>2, <2>1, <3>1
    <3> QED
      BY <3>1, <3>2, <3>3, <3>4
  <2> QED
    BY <2>2, <2>3
<1>8. IsPrefix(q, F)
  <2>1. Len(q) <= Len(F)
    BY <1>2, <1>5
  <2> QED
    BY <1>4, <1>7, <2>1, PrefixValue
<1> QED
  BY <1>4, <1>5, <1>8 DEF q, r, o

\* Who has read a beginning p of it all, which ends in member i of s, and then
\* reads the rest of that member, has read a beginning again.
LEMMA ReadsOn ==
  ASSUME NEW V, NEW s \in Seq(Seq(V)), NEW end \in [0 .. Len(s) -> Nat], EndsOf(end, s),
         NEW p \in Seq(V), IsPrefix(p, FlattenSeq(s)),
         NEW i \in 1 .. Len(s), end[i - 1] <= Len(p), Len(p) < end[i]
  PROVE  LET q == p \o SubSeq(s[i], Len(p) - end[i - 1] + 1, Len(s[i]))
         IN  q \in Seq(V) /\ Len(q) = end[i] /\ IsPrefix(q, FlattenSeq(s))
<1> DEFINE N == Len(s)
<1>1. PICK f : Joins(f, s, V) /\ FlattenSeq(s) = f[N]
  BY FlattenValue
<1>2. i \in 0 .. N /\ i - 1 \in 0 .. N /\ N \in 0 .. N /\ N \in Nat
  OBVIOUS
<1>3. \A k \in 0 .. N : Len(f[k]) = end[k]
  BY <1>1, JoinsEnds
<1> DEFINE F == f[N]
           h == f[i - 1]
           x == s[i]
<1>4. F \in Seq(V) /\ h \in Seq(V) /\ x \in Seq(V) /\ f[i] = h \o x
  <2>1. f \in [0 .. N -> Seq(V)] /\ f[i] = h \o x
    BY <1>1, Zenon DEF Joins
  <2>2. x \in Seq(V)
    OBVIOUS
  <2> HIDE DEF x, N
  <2> QED
    BY <1>2, <2>1, <2>2, Zenon
<1>5. Len(h) = end[i - 1] /\ Len(h \o x) = end[i]
  BY <1>2, <1>3, <1>4
<1>6. Len(h \o x) <= Len(F) /\ \A j \in 1 .. Len(h \o x) : F[j] = (h \o x)[j]
  <2>1. Len(f[i]) <= Len(F) /\ \A j \in 1 .. Len(f[i]) : F[j] = f[i][j]
    BY <1>1, <1>2, JoinsPrefix
  <2>2. f[i] = h \o x
    BY <1>4
  <2> HIDE DEF F, h, x
  <2> QED
    BY <2>1, <2>2, Zenon
<1>7. end[i] = Len(h) + Len(x) /\ FlattenSeq(s) = F
  BY <1>1, <1>5 DEF EndsOf
<1> HIDE DEF F, h, x, N
<1>8. Len(h) <= Len(p) /\ Len(p) < Len(h) + Len(x) /\ IsPrefix(p, F)
  BY <1>5, <1>7
<1> DEFINE q == p \o SubSeq(x, Len(p) - Len(h) + 1, Len(x))
<1>9. q \in Seq(V) /\ Len(q) = Len(h) + Len(x) /\ IsPrefix(q, F)
  BY <1>4, <1>6, <1>8, ReadsOnPart
<1> HIDE DEF q
<1>10. q \in Seq(V) /\ Len(q) = end[i] /\ IsPrefix(q, FlattenSeq(s))
  BY <1>7, <1>9
<1>11. q = p \o SubSeq(s[i], Len(p) - end[i - 1] + 1, Len(s[i]))
  BY <1>5 DEF q, x
<1> QED
  BY <1>10, <1>11

LEMMA PrefixEmpty ==
  ASSUME NEW V, NEW s \in Seq(V)
  PROVE  IsPrefix(<< >>, s)
<1> DEFINE e == << >>
<1>1. e \in Seq(V) /\ Len(e) = 0 /\ Len(s) \in Nat
  OBVIOUS
<1> HIDE DEF e
<1>2. Len(e) <= Len(s) /\ \A j \in 1 .. Len(e) : e[j] = s[j]
  BY <1>1
<1>3. IsPrefix(e, s)
  BY <1>1, <1>2, PrefixValue
<1> QED
  BY <1>3 DEF e

\* What is appended leaves a beginning a beginning.
LEMMA PrefixGrows ==
  ASSUME NEW V, NEW p \in Seq(V), NEW s \in Seq(V), NEW x \in Seq(V), IsPrefix(p, s)
  PROVE  IsPrefix(p, s \o x)
<1>1. /\ s \o x \in Seq(V) /\ Len(s \o x) = Len(s) + Len(x)
      /\ \A j \in 1 .. Len(s) : (s \o x)[j] = s[j]
  BY ConcatProperties
<1>2. Len(p) <= Len(s) /\ \A j \in 1 .. Len(p) : p[j] = s[j]
  BY PrefixValue
<1> DEFINE y == s \o x
<1> HIDE DEF y
<1>3. /\ y \in Seq(V) /\ Len(p) <= Len(y) /\ \A j \in 1 .. Len(p) : p[j] = y[j]
  <2>1. Len(p) \in Nat /\ Len(s) \in Nat /\ Len(x) \in Nat
    OBVIOUS
  <2> QED
    BY <1>1, <1>2, <2>1 DEF y
<1> QED
  BY <1>3, PrefixValue DEF y
=============================================================================

------------------------- MODULE CircularBufferSpec -------------------------
(***************************************************************************)
(* One caller (who does the locking, as the comments in                    *)
(* aesd-circular-buffer.c ask) adds entries to a circular buffer and looks *)
(* offsets up in it.                                                       *)
(***************************************************************************)
EXTENDS CircularBuffer, Sequences

CONSTANTS Ptr,    \* addresses an entry's buffptr may have
          Sizes   \* sizes of the entries that are added

ASSUME PtrAssumption   == NULL \notin Ptr
ASSUME SizesAssumption == Sizes \subseteq Nat

VARIABLES buffer,   \* struct aesd_circular_buffer
          ret       \* the entry the last add returned

vars == <<buffer, ret>>

Entries == [buffptr : Ptr, size : Sizes]

Init == /\ buffer = aesd_circular_buffer_init
        /\ ret = NullEntry

AddEntry(e) ==
  /\ ret' = Overwritten(buffer)
  /\ buffer' = aesd_circular_buffer_add_entry(buffer, e)

Next == \E e \in Entries : AddEntry(e)

Spec == Init /\ [][Next]_vars

-----------------------------------------------------------------------------

\* Every field keeps the range its C type and its modulo give it.
TypeOK == /\ buffer \in BufferOf(Ptr)
          /\ ret \in EntryOf(Ptr)

\* in_offs, out_offs and full always describe the same set of used slots, and
\* an unused slot is a null entry of size 0 (add_entry and the lookup loop,
\* which visits unused slots too, rely on it).
RingInv == WellFormed(buffer)

\* The size field is the sum of the sizes of all entries, as its comment in
\* struct aesd_circular_buffer says, however often add_entry has overwritten: it
\* is what the lookup loop has added up when it comes to its end.
SizeIsSum == buffer.size = RunningTotal(buffer)[MAX - 1]

\* A byte is named by its entry's buffptr and its offset there.
EntryBytes(e) == [k \in 1 .. e.size |-> <<e.buffptr, k - 1>>]

\* The bytes of the buffer "if all buffer strings were concatenated end to
\* end", oldest entry first.
Bytes ==
  LET cat[i \in 0 .. Count(buffer)] ==
        IF i = 0 THEN << >> ELSE cat[i - 1] \o EntryBytes(Log(buffer)[i])
  IN  cat[Count(buffer)]

\* find_entry_offset_for_fpos agrees with the concatenation: every offset below
\* the end yields the entry and the offset in it of that very byte, every
\* offset from the end on yields NULL.
FindMatchesConcatenation ==
  \A off \in 0 .. Len(Bytes) + 1 :
    LET found == aesd_circular_buffer_find_entry_offset_for_fpos(buffer, off)
    IN  IF off < Len(Bytes)
        THEN /\ found # NULL
             /\ Bytes[off + 1] =
                  <<buffer.entry[found.index].buffptr, found.entry_offset>>
        ELSE found = NULL

\* The buffer implements the bounded log: it keeps the last MAX entries in
\* order, and add_entry returns the entry it dropped, or a null entry.
BL == INSTANCE BoundedLog WITH Cap <- MAX, Item <- Entries, None <- NullEntry,
                               log <- Log(buffer), dropped <- ret
KeepsLastEntries == BL!Spec
=============================================================================

--------------------------- MODULE CircularBuffer ---------------------------
(***************************************************************************)
(* The circular buffer of aesd-char-driver/aesd-circular-buffer.[ch], as   *)
(* operators on a record that has the fields of struct                     *)
(* aesd_circular_buffer.  The module has no variables: CircularBufferSpec  *)
(* drives the buffer alone, AesdChar uses it inside the driver and         *)
(* AesdSocket behind the server's file.                                    *)
(*                                                                         *)
(* What buffptr is, is left to the user of the module (the driver stores   *)
(* heap pointers there); NULL is the null pointer.                         *)
(***************************************************************************)
EXTENDS Integers, FiniteSetsExt

CONSTANTS MAX,   \* AESDCHAR_MAX_WRITE_OPERATIONS_SUPPORTED (10 in the header)
          NULL   \* the null pointer

\* in_offs, out_offs and the index of AESD_CIRCULAR_BUFFER_FOREACH are
\* uint8_t: up to 255 slots none of them wraps before the modulo or the loop
\* test sees it.
ASSUME MaxAssumption == MAX \in 1 .. 255

Slots == 0 .. MAX - 1

\* No result of a lookup is the null pointer.
ASSUME NullAssumption == NULL \notin [index : Slots, entry_offset : Nat]

NullEntry == [buffptr |-> NULL, size |-> 0]

EntryOf(P)  == [buffptr : P \cup {NULL}, size : Nat]

BufferOf(P) == [entry    : [Slots -> EntryOf(P)],
                in_offs  : Slots,
                out_offs : Slots,
                full     : BOOLEAN,
                size     : Int]

-----------------------------------------------------------------------------
(* Operators named after a definition and a slip, such as                  *)
(* Advance_OffByOne, are mutated forms of that definition: what a plausible*)
(* mistake in the code would have made of it.  Nothing uses them but the   *)
(* list of mutants in PROJECT.json.                                        *)

\* The entry add_entry returns: what in_offs pointed to before the write.
Overwritten(b) == b.entry[b.in_offs]

Advance_OffByOne(offs) == (offs + 1) % (MAX + 1)

\* Advance one of the two offsets: ++offs; offs %= MAX.
Advance(offs) == (offs + 1) % MAX

\* memset of the whole structure to zero.
aesd_circular_buffer_init ==
  [entry |-> [i \in Slots |-> NullEntry],
   in_offs |-> 0, out_offs |-> 0, full |-> FALSE, size |-> 0]

\* add_entry as it is when keep = "", else with one slip: "out" leaves out_offs
\* alone on an overwrite, "size" does not give the overwritten size back.
add_entry_slip(b, e, keep) ==
  [entry    |-> [b.entry EXCEPT ![b.in_offs] = e],
   in_offs  |-> Advance(b.in_offs),
   out_offs |-> IF b.full /\ keep # "out" THEN Advance(b.out_offs)
                ELSE b.out_offs,
   full     |-> b.full \/ Advance(b.in_offs) = b.out_offs,
   size     |-> b.size + e.size
                  - (IF b.full /\ keep # "size" THEN Overwritten(b).size ELSE 0)]

add_entry_KeepsOut(b, e)  == add_entry_slip(b, e, "out")
add_entry_KeepsSize(b, e) == add_entry_slip(b, e, "size")

\* full is only ever set, and only when in_offs has caught up with out_offs.
aesd_circular_buffer_add_entry(b, e) ==
  [entry    |-> [b.entry EXCEPT ![b.in_offs] = e],
   in_offs  |-> Advance(b.in_offs),
   out_offs |-> IF b.full THEN Advance(b.out_offs) ELSE b.out_offs,
   full     |-> b.full \/ Advance(b.in_offs) = b.out_offs,
   size     |-> b.size + e.size
                  - (IF b.full THEN Overwritten(b).size ELSE 0)]

\* The slot the i-th turn of the lookup loop visits.
ReadSlot(b, i) == (b.out_offs + i) % MAX

\* The value of total after turn i of the lookup loop.
RunningTotal(b) ==
  LET total[i \in Slots] ==
        b.entry[ReadSlot(b, i)].size + (IF i = 0 THEN 0 ELSE total[i - 1])
  IN  total

TurnsPast_OneEarly(b, char_offset) ==
  {i \in Slots : RunningTotal(b)[i] >= char_offset}

\* The turns at which the loop's break condition holds.
TurnsPast(b, char_offset) ==
  {i \in Slots : RunningTotal(b)[i] > char_offset}

\* The loop breaks at the first such turn; without one the offset lies past the
\* end of the buffer and the result is NULL.
aesd_circular_buffer_find_entry_offset_for_fpos(b, char_offset) ==
  IF TurnsPast(b, char_offset) = {} THEN NULL
  ELSE LET i     == Min(TurnsPast(b, char_offset))
           index == ReadSlot(b, i)
           begin == RunningTotal(b)[i] - b.entry[index].size
       IN  [index |-> index, entry_offset |-> char_offset - begin]

-----------------------------------------------------------------------------
(* The contents of the buffer, as its users see them.                      *)

\* Number of entries in use.
Count(b) == IF b.full THEN MAX ELSE (b.in_offs - b.out_offs) % MAX

\* The entries in use, oldest first.
Log(b) == [i \in 1 .. Count(b) |-> b.entry[ReadSlot(b, i - 1)]]

\* The slots that hold an entry are the Count(b) slots from out_offs on; the
\* others still are as memset left them.  in_offs = out_offs means "empty"
\* or "full", and the flag tells which.
WellFormed(b) ==
  /\ b.full => b.in_offs = b.out_offs
  /\ \A i \in Slots : i >= Count(b) => b.entry[ReadSlot(b, i)] = NullEntry
  /\ \A i \in Slots : i < Count(b) => b.entry[ReadSlot(b, i)].buffptr # NULL
=============================================================================

--------------------------- MODULE MCAesdCharScan ---------------------------
(***************************************************************************)
(* AesdChar with a history variable: for a task in aesd_ioctl, the sums    *)
(* that its loop would give on each of the buffers there were since the    *)
(* call began.                                                             *)
(***************************************************************************)
EXTENDS MCAesdChar

VARIABLE sums

\* The sizes of the entries before slot n, added up.
SumBefore(buf, n) ==
  MapThenSumSet(LAMBDA i : buf.entry[i].size, {i \in Slots : i < n})

ScanInit == Init /\ sums = [t \in Task |-> {}]

ScanNext ==
  /\ Next
  /\ sums' = [t \in Task |->
                IF pc'[t] # "io_scan" THEN {}
                ELSE sums[t] \cup {SumBefore(buffer', seekto_arg'[t].write_cmd)}]

ScanSpec == ScanInit /\ [][ScanNext]_<<vars, sums>>

\* "Any necessary locking must be performed by caller": what the loop of
\* aesd_ioctl finds is what one buffer held at some moment of the call.
ScanSeesOneBuffer ==
  \A t \in Task :
    pc[t] = "io_scan" /\ ScanEnds(t) => offset[t] \in sums[t]
=============================================================================

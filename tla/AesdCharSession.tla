-------------------------- MODULE AesdCharSession --------------------------
(***************************************************************************)
(* AesdChar with two history variables.  seen is what the reads of a file  *)
(* have delivered since it was at position 0, or NULL once its position no *)
(* longer says what was read, because the file was used for something else *)
(* or because an entry was overwritten and all positions have moved.       *)
(* still says of a task in aesd_ioctl that the buffer is what it was when  *)
(* the call began: nobody has stored a command since.                      *)
(***************************************************************************)
EXTENDS AesdChar, SequencesExt

VARIABLES seen, still

sessionVars == <<vars, seen, still>>

\* A write that finds the buffer full moves the oldest byte.
Overwrites == buffer.full /\ buffer' # buffer

SessionInit == /\ Init
               /\ seen = [t \in Task |-> << >>]
               /\ still = [t \in Task |-> TRUE]

SessionNext ==
  /\ Next
  /\ seen' = [t \in Task |->
       CASE f_pos'[t] = 0 -> << >>
         [] f_pos'[t] # 0 /\ (seen[t] = NULL \/ Overwrites) -> NULL
         [] f_pos'[t] # 0 /\ seen[t] # NULL /\ ~Overwrites ->
              IF f_pos'[t] = f_pos[t] THEN seen[t]
              ELSE IF pc[t] = "r_body" THEN seen[t] \o got'[t] ELSE NULL]
  /\ still' = [t \in Task |-> pc[t] = "io_scan" => still[t] /\ buffer' = buffer]

SessionSpec == SessionInit /\ [][SessionNext]_sessionVars

\* A program that opens the device and calls aesd_read again and again gets the
\* commands from the oldest on, without a gap and without a repetition, however
\* many of its reads fail and whatever others write meanwhile, as long as nothing
\* is overwritten.
ReadsFollowTheLog ==
  \A t \in Task : loaded /\ seen[t] # NULL =>
    /\ Len(seen[t]) = f_pos[t]
    /\ IsPrefix(seen[t], FlattenSeq(Commands))

\* AESDCHAR_IOCSEEKTO, on a file at position 0, moves it to the given offset of
\* the command it names, whatever the number and the sizes of the commands and
\* whatever other tasks read, seek and leave partial meanwhile, if the oldest
\* command is in slot 0 (up to the first overwrite and once every MAX writes
\* from then on) and no command was stored during the loop.
SeekFindsCommandUnwrapped ==
  [][\A t \in Task : \A n \in Slots :
       SeeksTo(t, n) /\ f_pos[t] = 0 /\ still[t] /\ buffer.out_offs = 0 =>
         f_pos'[t] = StartOf(n) + seekto_arg[t].write_cmd_offset]_sessionVars
=============================================================================

----------------------------- MODULE MCAesdChar -----------------------------
(***************************************************************************)
(* Values of the constants of AesdChar for model checking.                 *)
(***************************************************************************)
EXTENDS AesdChar, TLC

CONSTANTS a, nl

MCByte    == {a, nl}
\* The first part of a command, and a whole command or the end of one.
MCPayload == {<<a>>, <<nl>>}
\* Two payloads of different lengths, to tell offsets apart.
MCLengths == {<<nl>>, <<a, nl>>}
MCSeekArg == [write_cmd : {1, 2}, write_cmd_offset : {1}]
OneSeekArg == [write_cmd : {1}, write_cmd_offset : {0}]
MCOffset  == {-1, 1}
\* An empty write too.
MCEmpty   == MCPayload \cup {<< >>}
None      == {}

Symmetry == Permutations(Ptr) \cup Permutations(Task)
=============================================================================

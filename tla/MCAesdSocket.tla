---------------------------- MODULE MCAesdSocket ----------------------------
(***************************************************************************)
(* Values of the constants of AesdSocket for model checking.               *)
(***************************************************************************)
EXTENDS AesdSocket, TLC

CONSTANTS c1, c2, c3

Seek11 == [write_cmd |-> 1, write_cmd_offset |-> 1]

\* c1 writes a line, c2 asks for a seek, c3 writes a line.
OneSeek == (c1 :> <<"nl">>) @@ (c2 :> <<"cmd">>) @@ (c3 :> <<"nl">>)

\* Two clients only.
TwoLines == (c1 :> <<"x", "nl">>) @@ (c2 :> <<"nl">>)

AnyArg    == [c \in Conn |-> Seek11]
MCSeekArg == {Seek11}
=============================================================================

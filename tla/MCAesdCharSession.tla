------------------------- MODULE MCAesdCharSession -------------------------
(***************************************************************************)
(* AesdCharSession with the values of MCAesdChar.                          *)
(***************************************************************************)
EXTENDS AesdCharSession, MCAesdChar
=============================================================================

---------------------------- MODULE LineService -----------------------------
(***************************************************************************)
(* What the server promises to its clients, whatever goes on inside it.    *)
(* It takes what each connection says bit by bit, and serves a connection  *)
(* in one piece: all it has heard from it goes to the end of what is       *)
(* stored, and the answer is what is stored right after that.  A plain     *)
(* file grows until the server removes it; the device keeps the last Cap   *)
(* lines and the beginning of the next one.                                *)
(*                                                                         *)
(* How much it hears before it serves a connection is left open.           *)
(***************************************************************************)
EXTENDS Integers, SequencesExt

CONSTANTS Cap,     \* lines kept
          Lined,   \* the store is the device, not a plain file
          Conn,    \* connections
          Input,   \* what each connection has to say
          Junk,    \* what the server may add to the text of each connection
          Asks,    \* connections that may ask for a part of the answer
          Newline  \* the bytes that end a line

VARIABLES state,    \* "running", "exited" in an orderly way, or "dead"
          log,      \* the lines stored, oldest first; a plain file is one piece
          rest,     \* bytes of a line that is not complete
          waiting,  \* connections that have not been served
          heard,    \* how much of its input the server took from each connection
          reply     \* the answer to each of the others

vars == <<state, log, rest, waiting, heard, reply>>

Init == /\ state = "running"
        /\ log = << >> /\ rest = << >>
        /\ waiting = Conn
        /\ heard = [c \in Conn |-> 0]
        /\ reply = [c \in Conn |-> << >>]

\* The log with the line added to it and no more than Cap lines long.
Kept(lines) == IF Len(lines) > Cap THEN Tail(lines) ELSE lines

Put(text) ==
  \/ text = << >> /\ UNCHANGED <<log, rest>>
  \/ text # << >> /\ ~Lined /\ log' = <<FlattenSeq(log) \o text>> /\ UNCHANGED rest
  \/ /\ text # << >> /\ Lined
     /\ IF Last(text) \in Newline
        THEN log' = Kept(Append(log, rest \o text)) /\ rest' = << >>
        ELSE rest' = rest \o text /\ UNCHANGED log

Hear(c) ==
  /\ state = "running"
  /\ c \in waiting
  /\ \E n \in heard[c] + 1 .. Len(Input[c]) : heard' = [heard EXCEPT ![c] = n]
  /\ UNCHANGED <<state, log, rest, waiting, reply>>

\* What is stored for a connection is what was heard of it.  A connection that
\* asks does so in its text: a part of what was heard is stored, in its order.
Texts(c) ==
  LET said == SubSeq(Input[c], 1, heard[c])
      Rising(n) == {f \in [1 .. n -> 1 .. heard[c]] :
                      \A i, j \in 1 .. n : i < j => f[i] < f[j]}
      picks == UNION {Rising(n) : n \in 0 .. heard[c]}
      own == IF c \in Asks THEN {[i \in DOMAIN f |-> said[f[i]]] : f \in picks}
             ELSE {said}
  IN  own \cup UNION {{text \o junk : junk \in Junk[c]} : text \in own \ {<< >>}}

\* The answer is all there is, except for a connection that asks for a part of
\* it and for one that leaves no text.
Serve(c) ==
  /\ state = "running" /\ UNCHANGED <<state, heard>>
  /\ c \in waiting
  /\ waiting' = waiting \ {c}
  /\ \E text \in Texts(c) :
       /\ Put(text)
       /\ LET all == FlattenSeq(log')
          IN  \E from \in 0 .. Len(all) :
                /\ c \in Asks \/ text = << >> \/ from = 0
                /\ reply' = [reply EXCEPT ![c] = SubSeq(all, from + 1, Len(all))]

\* Connections that are lost with the server are not served any more, and what
\* was heard of them is gone as a whole.
Lose == \/ UNCHANGED <<waiting, heard, reply>>
        \/ /\ waiting' \in SUBSET waiting
           /\ heard' = [c \in Conn |-> 0] /\ reply' = [c \in Conn |-> << >>]

\* An orderly end takes a plain file with it; any other end leaves the store.
End == /\ state = "running"
       /\ \/ state' = "exited" /\ log' = IF Lined THEN log ELSE << >>
          \/ state' = "dead" /\ UNCHANGED log
       /\ Lose /\ UNCHANGED rest

\* The next server finds the store as the last one left it.
Start == state # "running" /\ state' = "running" /\ Lose /\ UNCHANGED <<log, rest>>

Next == End \/ Start \/ \E c \in Conn : Hear(c) \/ Serve(c)

Spec == Init /\ [][Next]_vars
=============================================================================

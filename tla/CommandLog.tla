----------------------------- MODULE CommandLog -----------------------------
(***************************************************************************)
(* What /dev/aesdchar promises to the processes that use it.               *)
(*                                                                         *)
(* The device keeps the last Cap commands (byte strings that end in a      *)
(* newline) and the beginning of one that is not complete yet.  A write    *)
(* and a read each take effect at once.  A read delivers the rest of the   *)
(* command its position is in and never a byte of two commands; a write    *)
(* that fails changes nothing, and an empty one succeeds only if the       *)
(* beginning of a command is there.                                        *)
(***************************************************************************)
EXTENDS Integers, Sequences

CONSTANTS Cap,     \* number of commands kept
          Task,    \* callers, each with a file of its own
          Data,    \* what a caller may write: byte strings
          NL       \* the newline

VARIABLES log,      \* the complete commands, oldest first
          partial,  \* the bytes written since the last newline
          pos,      \* position of each caller's file
          got,      \* what each caller's last call delivered
          retval    \* how each caller's last call ended

vars == <<log, partial, pos, got, retval>>

Init == /\ log = << >>
        /\ partial = << >>
        /\ pos = [t \in Task |-> 0]
        /\ got = [t \in Task |-> << >>]
        /\ retval = [t \in Task |-> "none"]

Call(t) == /\ got' = [got EXCEPT ![t] = << >>]
           /\ retval' = [retval EXCEPT ![t] = "none"]
           /\ UNCHANGED <<log, partial, pos>>

\* A call that fails tells its caller so, delivers nothing and does nothing else.
Fail(t, err) == /\ got' = [got EXCEPT ![t] = << >>]
                /\ retval' = [retval EXCEPT ![t] = err]
                /\ UNCHANGED <<log, partial, pos>>

Write(t, d) ==
  LET bytes == partial \o d
  IN  /\ bytes # << >>
      /\ IF bytes[Len(bytes)] = NL
         THEN /\ log' = Append(IF Len(log) = Cap THEN Tail(log) ELSE log, bytes)
              /\ partial' = << >>
         ELSE /\ partial' = bytes
              /\ UNCHANGED log
      /\ pos' = [pos EXCEPT ![t] = @ + Len(bytes)]
      /\ retval' = [retval EXCEPT ![t] = "ok"]
      /\ UNCHANGED got

\* end[i] is the length of the first i commands together.
Ends == LET end[i \in 0 .. Len(log)] ==
              IF i = 0 THEN 0 ELSE end[i - 1] + Len(log[i])
        IN  end

Read(t) ==
  \E i \in 1 .. Len(log) :
    /\ Ends[i - 1] <= pos[t] /\ pos[t] < Ends[i]
    /\ got' = [got EXCEPT ![t] =
                 SubSeq(log[i], pos[t] - Ends[i - 1] + 1, Len(log[i]))]
    /\ pos' = [pos EXCEPT ![t] = Ends[i]]
    /\ retval' = [retval EXCEPT ![t] = "ok"]
    /\ UNCHANGED <<log, partial>>

ReadAtEnd(t) == /\ pos[t] >= Ends[Len(log)]
                /\ retval' = [retval EXCEPT ![t] = "eof"]
                /\ UNCHANGED <<log, partial, pos, got>>

\* A file that is closed loses its position; a new one is at 0.
Close(t) == /\ pos' = [pos EXCEPT ![t] = 0]
            /\ got' = [got EXCEPT ![t] = << >>]
            /\ retval' = [retval EXCEPT ![t] = "none"]
            /\ UNCHANGED <<log, partial>>

\* Any position may be asked for.
Seek(t) == /\ pos'[t] \in Nat
           /\ pos' = [pos EXCEPT ![t] = pos'[t]]
           /\ retval' = [retval EXCEPT ![t] = "ok"]
           /\ got' = [got EXCEPT ![t] = << >>]
           /\ UNCHANGED <<log, partial>>

\* Unloading the module forgets everything.
Forget == /\ log' = << >>
          /\ partial' = << >>
          /\ UNCHANGED <<pos, got, retval>>

Next == \/ Forget
        \/ \E t \in Task :
             \/ Call(t) \/ Close(t) \/ Read(t) \/ ReadAtEnd(t) \/ Seek(t)
             \/ \E err \in {"EINTR", "ENOMEM", "EFAULT", "EINVAL", "ENOTTY"} :
                  Fail(t, err)
             \/ \E d \in Data : Write(t, d)

Spec == Init /\ [][Next]_vars
=============================================================================

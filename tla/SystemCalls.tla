---------------------------- MODULE SystemCalls ----------------------------
(***************************************************************************)
(* do_system, do_exec and do_exec_redirect of                              *)
(* examples/systemcalls/systemcalls.c, with the processes they make.  The  *)
(* process Root runs a program that calls them again and again; fork adds  *)
(* a process that is a copy of its parent, and that goes on in the same    *)
(* function until execv or exit.                                           *)
(***************************************************************************)
EXTENDS Naturals

CONSTANTS
  Proc,         \* process ids
  Root,         \* the program that calls the functions
  NULL,
  OPEN_MAX      \* how many output files a process may have open

ASSUME SystemCallsAssumption ==
  /\ Root \in Proc
  /\ NULL \notin Proc
  /\ OPEN_MAX \in Nat

VARIABLES
  pc,       \* "app": in the caller's code; "command": execv was successful
  call,     \* the function a process is in
  pid,      \* its local variable pid
  parent,   \* NULL for a child of init
  fds,      \* the number of output files it has open
  status,   \* how a process ended
  ran,      \* history: execv was successful in it
  copies,   \* history: the processes that a failed dup2 sent back to the caller
  given_up, \* history: the children that waitpid failed for
  last      \* the last result, with what became of the command

vars == <<pc, call, pid, parent, fds, status, ran, last, copies, given_up>>

Statuses == {"zero", "nonzero", "killed"}

Result(f, ret, r, s) == [call |-> f, ret |-> ret, ran |-> r, status |-> s]
NoResult == Result("none", FALSE, FALSE, "none")

Init ==
  /\ pc = [p \in Proc |-> IF p = Root THEN "app" ELSE "none"]
  /\ call = [p \in Proc |-> "none"]
  /\ pid = [p \in Proc |-> NULL]
  /\ parent = [p \in Proc |-> NULL]
  /\ fds = [p \in Proc |-> 0]
  /\ status = [p \in Proc |-> "none"]
  /\ ran = [p \in Proc |-> FALSE]
  /\ last = [p \in Proc |-> NoResult]
  /\ copies = {} /\ given_up = {}

\* The function returns to the caller's code before it knows of a command.
ReturnFalse(p, f) ==
  /\ pc' = [pc EXCEPT ![p] = "app"]
  /\ call' = [call EXCEPT ![p] = "none"]
  /\ pid' = [pid EXCEPT ![p] = NULL]
  /\ last' = [last EXCEPT ![p] = Result(f, FALSE, FALSE, "none")]

-----------------------------------------------------------------------------

\* system() makes its own child and gives its wait status, or -1.
do_system(p) ==
  /\ pc[p] = "app"
  /\ \E s \in Statuses \cup {"error"} :
       last' = [last EXCEPT ![p] = Result("do_system", s # "error", s # "error", s)]
  /\ UNCHANGED <<pc, call, pid, parent, fds, status, ran, copies, given_up>>

do_exec(p) ==
  /\ pc[p] = "app"
  /\ pc' = [pc EXCEPT ![p] = "fork"]
  /\ call' = [call EXCEPT ![p] = "do_exec"]
  /\ UNCHANGED <<pid, parent, fds, status, ran, last, copies, given_up>>

\* open(outputfile), which is not close-on-exec and which nothing closes.
do_exec_redirect(p) ==
  /\ pc[p] = "app"
  /\ fds[p] < OPEN_MAX
  /\ pc' = [pc EXCEPT ![p] = "fork"]
  /\ call' = [call EXCEPT ![p] = "do_exec_redirect"]
  /\ fds' = [fds EXCEPT ![p] = @ + 1]
  /\ UNCHANGED <<pid, parent, status, ran, last, copies, given_up>>

\* open may fail for the path, and fails when there is no descriptor left.
do_exec_redirect_open_fails(p) ==
  /\ pc[p] = "app"
  /\ ReturnFalse(p, "do_exec_redirect")
  /\ UNCHANGED <<parent, fds, status, ran, copies, given_up>>

fork(p) ==
  /\ pc[p] = "fork"
  /\ \E c \in Proc :
       /\ pc[c] = "none"
       /\ pc' = [pc EXCEPT ![p] = "wait", ![c] = "child"]
       /\ call' = [call EXCEPT ![c] = call[p]]
       /\ pid' = [pid EXCEPT ![p] = c]
       /\ parent' = [parent EXCEPT ![c] = p]
       /\ fds' = [fds EXCEPT ![c] = fds[p]]
       /\ last' = [last EXCEPT ![c] = last[p]]
       /\ UNCHANGED <<status, ran, copies, given_up>>

fork_fails_NoCheck(p) ==
  /\ pc[p] = "fork"
  /\ pc' = [pc EXCEPT ![p] = "wait"]
  /\ UNCHANGED <<call, pid, parent, fds, status, ran, last, copies, given_up>>

fork_fails(p) ==
  /\ pc[p] = "fork"
  /\ ReturnFalse(p, call[p])
  /\ UNCHANGED <<parent, fds, status, ran, copies, given_up>>

\* dup2(fd, 1) < 0 in the child: it returns from the function, as its parent will.
dup2_fails(p) ==
  /\ pc[p] = "child" /\ call[p] = "do_exec_redirect"
  /\ ReturnFalse(p, call[p])
  /\ copies' = copies \cup {p}
  /\ UNCHANGED <<parent, fds, status, ran, given_up>>

execv(p) ==
  /\ pc[p] = "child"
  /\ pc' = [pc EXCEPT ![p] = "command"]
  /\ ran' = [ran EXCEPT ![p] = TRUE]
  /\ last' = [last EXCEPT ![p] = NoResult]
  /\ UNCHANGED <<call, pid, parent, fds, status, copies, given_up>>

-----------------------------------------------------------------------------
(* The end of a process, and the wait for it.                              *)

\* The kernel closes the files and init adopts the children.
Ends(p, s) ==
  /\ pc' = [pc EXCEPT ![p] = "zombie"]
  /\ status' = [status EXCEPT ![p] = s]
  /\ call' = [call EXCEPT ![p] = "none"]
  /\ pid' = [pid EXCEPT ![p] = NULL]
  /\ fds' = [fds EXCEPT ![p] = 0]
  /\ parent' = [c \in Proc |-> IF parent[c] = p THEN NULL ELSE parent[c]]
  /\ last' = [last EXCEPT ![p] = NoResult]
  /\ UNCHANGED <<ran, copies, given_up>>

execv_fails_NoExit(p) ==
  /\ pc[p] = "child"
  /\ ReturnFalse(p, call[p])
  /\ UNCHANGED <<parent, fds, status, ran, copies, given_up>>

\* execv returns: exit(-1).
execv_fails(p) ==
  /\ pc[p] = "child"
  /\ Ends(p, "nonzero")

\* The command or a copy of the caller exits, or a signal kills a process.
process_ends(p) ==
  /\ p # Root
  /\ pc[p] \notin {"none", "zombie"}
  /\ \E s \in Statuses : /\ pc[p] \in {"app", "command"} \/ s = "killed"
                         /\ Ends(p, s)

\* The functions return what they make of the status of child c, which is gone.
Reaped(p, ret) ==
  LET c == pid[p]
  IN  /\ pc' = [pc EXCEPT ![p] = "app", ![c] = "none"]
      /\ call' = [call EXCEPT ![p] = "none"]
      /\ pid' = [pid EXCEPT ![p] = NULL]
      /\ parent' = [parent EXCEPT ![c] = NULL]
      /\ last' = [last EXCEPT ![p] = Result(call[p], ret, ran[c], status[c])]
      /\ status' = [status EXCEPT ![c] = "none"]
      /\ ran' = [ran EXCEPT ![c] = FALSE]
      /\ copies' = copies \ {c}
      /\ UNCHANGED <<fds, given_up>>

Waited(p) == pc[p] = "wait" /\ pc[pid[p]] = "zombie"

\* waitpid, then status != 0.
do_exec_returns(p) ==
  /\ Waited(p) /\ call[p] = "do_exec"
  /\ Reaped(p, status[pid[p]] = "zero")

do_exec_redirect_returns_NoHang(p) ==
  /\ pc[p] = "wait" /\ call[p] = "do_exec_redirect"
  /\ ReturnFalse(p, call[p])
  /\ UNCHANGED <<parent, fds, status, ran, copies, given_up>>

\* waitpid, then WEXITSTATUS(status) == 0 if WIFEXITED(status), else true.
do_exec_redirect_returns(p) ==
  /\ Waited(p) /\ call[p] = "do_exec_redirect"
  /\ Reaped(p, status[pid[p]] # "nonzero")

\* EINTR: return false; nobody waits for the child any more.
waitpid_fails(p) ==
  /\ pc[p] = "wait"
  /\ ReturnFalse(p, call[p])
  /\ given_up' = given_up \cup {pid[p]}
  /\ UNCHANGED <<parent, fds, status, ran, copies>>

init_reaps(p) ==
  /\ p # Root
  /\ pc[p] = "zombie" /\ parent[p] = NULL
  /\ pc' = [pc EXCEPT ![p] = "none"]
  /\ status' = [status EXCEPT ![p] = "none"]
  /\ ran' = [ran EXCEPT ![p] = FALSE]
  /\ copies' = copies \ {p}
  /\ given_up' = given_up \ {p}
  /\ UNCHANGED <<call, pid, parent, fds, last>>

-----------------------------------------------------------------------------

Calls(p) == \/ do_system(p) \/ do_exec(p)
            \/ do_exec_redirect(p) \/ do_exec_redirect_open_fails(p)

Runs(p) == \/ fork(p) \/ fork_fails(p) \/ dup2_fails(p) \/ execv(p) \/ execv_fails(p)
           \/ do_exec_returns(p) \/ do_exec_redirect_returns(p)

Next == \E p \in Proc : \/ Calls(p) \/ Runs(p) \/ waitpid_fails(p)
                        \/ process_ends(p) \/ init_reaps(p)

Spec == Init /\ [][Next]_vars

\* The kernel runs every process that is in one of the functions, and the
\* command ends.  No waitpid has to be interrupted, no process has to be killed,
\* and nothing makes a copy of the caller stop.
FairSpec ==
  /\ Spec
  /\ \A p \in Proc : /\ WF_vars(Runs(p))
                     /\ WF_vars(pc[p] = "command" /\ process_ends(p))

-----------------------------------------------------------------------------

Functions == {"none", "do_system", "do_exec", "do_exec_redirect"}

\* Types.  A process that waits has a child to wait for.
TypeOK ==
  /\ pc \in [Proc -> {"none", "app", "fork", "wait", "child", "command", "zombie"}]
  /\ call \in [Proc -> Functions]
  /\ pid \in [Proc -> Proc \cup {NULL}]
  /\ parent \in [Proc -> Proc \cup {NULL}]
  /\ \A p \in Proc : pc[p] = "wait" => pid[p] # NULL
  /\ fds \in [Proc -> Nat]
  /\ status \in [Proc -> Statuses \cup {"none"}]
  /\ ran \in [Proc -> BOOLEAN]
  /\ copies \subseteq Proc /\ given_up \subseteq Proc
  /\ last \in [Proc -> [call: Functions, ret: BOOLEAN, ran: BOOLEAN,
                        status: Statuses \cup {"none", "error"}]]

\* do_exec is true to its comment: true if and only if execv was successful and
\* the command's status was zero, once there is a status.  A child that came back
\* into the caller's code and exited with zero would pass for the command.
ExecTellsTheTruth ==
  \A p \in Proc : last[p].call = "do_exec" /\ last[p].status # "none" =>
    (last[p].ret <=> last[p].ran /\ last[p].status = "zero")

\* A function that returns has reaped its child, unless its waitpid failed:
\* calling it for ever leaves no other zombies.
NoChildLeft ==
  \A p, c \in Proc : pc[p] = "app" /\ parent[c] = p => c \in given_up

\* A child leaves through execv or exit: only one whose dup2 failed ever runs the
\* caller's code.
OneCaller ==
  \A p \in Proc \ {Root} : pc[p] \in {"app", "fork", "wait"} => p \in copies

\* If the command ends, the functions return to the caller, unless they wait for
\* a copy of the caller, which may go on for ever.
CallReturns == pc[Root] # "app" ~> pc[Root] = "app" \/ pid[Root] \in copies

\* The comment of do_exec_redirect: the file "will be closed at completion of the
\* function call".
OutputClosed == \A p \in Proc : pc[p] = "app" => fds[p] = 0

\* "All other parameters, see do_exec above": do_exec_redirect, too, is true if and
\* only if execv was successful and the command's status was zero, once there is
\* a status.
RedirectTellsTheTruth ==
  \A p \in Proc : last[p].call = "do_exec_redirect" /\ last[p].status # "none" =>
    (last[p].ret <=> last[p].ran /\ last[p].status = "zero")
=============================================================================

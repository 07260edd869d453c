------------------------- MODULE SystemCallsProofs -------------------------
(***************************************************************************)
(* Theorems about do_system, do_exec and do_exec_redirect, for every       *)
(* number of processes, every order in which they run and end, and every   *)
(* failure of fork, open, dup2, execv and waitpid.                         *)
(***************************************************************************)
EXTENDS SystemCalls, TLAPS

Caller == {"app", "fork", "wait"}

\* Who is whose child.  A process that has children runs the caller's code, and
\* it has given its child up or waits for it.
TreeInv ==
  /\ pc[Root] \in Caller /\ parent[Root] = NULL
  /\ \A p \in Proc : pc[p] = "wait" =>
       pid[p] \in Proc /\ parent[pid[p]] = p /\ pid[p] \notin given_up
  /\ \A p, c \in Proc : parent[c] = p =>
       /\ pc[p] \in Caller /\ pc[c] # "none"
       /\ c \in given_up \/ (pc[p] = "wait" /\ pid[p] = c)

\* A free process id has no history.
FreeInv == \A p \in Proc : pc[p] = "none" => p \notin copies /\ p \notin given_up

\* What a process has done when it ends with zero, and which function made the
\* child somebody waits for.
PastInv ==
  /\ \A p \in Proc : pc[p] = "child" => p \notin copies
  /\ \A p \in Proc : pc[p] = "command" => ran[p] = TRUE
  /\ \A p \in Proc : pc[p] = "zombie" =>
       /\ status[p] \in Statuses
       /\ status[p] = "zero" => ran[p] = TRUE \/ p \in copies
  /\ \A p \in Proc : pc[p] = "wait" =>
       /\ pc[pid[p]] = "child" => call[pid[p]] = call[p]
       /\ call[p] = "do_exec" => pid[p] \notin copies

\* TypeOK, the tree of processes and what is remembered of them.  The result of a
\* function is what it makes of its child's status, so the truth of it rests on
\* how a child can have come to that status.
IInv == TypeOK /\ TreeInv /\ FreeInv /\ PastInv /\ OneCaller /\ ExecTellsTheTruth

-----------------------------------------------------------------------------

LEMMA InitInv == Init => IInv
<1> SUFFICES ASSUME Init PROVE IInv
  OBVIOUS
<1>1. TypeOK
  BY SystemCallsAssumption DEF Init, TypeOK, Functions, Statuses, NoResult, Result
<1>2. TreeInv /\ FreeInv /\ PastInv /\ OneCaller
  BY SystemCallsAssumption DEF Init, TreeInv, FreeInv, PastInv, OneCaller, Caller
<1>3. ExecTellsTheTruth
  BY DEF Init, ExecTellsTheTruth, NoResult, Result
<1> QED
  BY <1>1, <1>2, <1>3 DEF IInv

\* Results that do not tell of a command keep what the others say.
LEMMA ResultKept ==
  ASSUME TypeOK, ExecTellsTheTruth, NEW p \in Proc, NEW r, last' = [last EXCEPT ![p] = r],
         r.call # "do_exec" \/ r.status = "none"
  PROVE  ExecTellsTheTruth'
<1>1. \A q \in Proc : last'[q] = IF q = p THEN r ELSE last[q]
  BY DEF TypeOK
<1> QED
  BY <1>1 DEF ExecTellsTheTruth

Results == [call: Functions, ret: BOOLEAN, ran: BOOLEAN,
            status: Statuses \cup {"none", "error"}]

LEMMA ResultType ==
  ASSUME NEW f \in Functions, NEW ret \in BOOLEAN, NEW r \in BOOLEAN,
         NEW s \in Statuses \cup {"none", "error"}
  PROVE  /\ Result(f, ret, r, s) \in Results
         /\ Result(f, ret, r, s).call = f /\ Result(f, ret, r, s).status = s
BY DEF Result, Results

LEMMA NoResultType == NoResult \in Results /\ NoResult.call = "none"
BY DEF NoResult, Result, Results, Functions

LEMMA LastType ==
  ASSUME TypeOK, NEW p \in Proc, NEW r \in Results, last' = [last EXCEPT ![p] = r]
  PROVE  last' \in [Proc -> Results]
BY DEF TypeOK, Results

-----------------------------------------------------------------------------

\* The functions as far as fork.
LEMMA SystemStep ==
  ASSUME IInv, NEW p \in Proc, do_system(p)
  PROVE  IInv'
<1>1. PICK s \in Statuses \cup {"error"} :
        last' = [last EXCEPT ![p] = Result("do_system", s # "error", s # "error", s)]
  BY DEF do_system
<1>2. Result("do_system", s # "error", s # "error", s) \in Results
  BY DEF Result, Results, Functions
<1>3. Result("do_system", s # "error", s # "error", s).call = "do_system"
  BY DEF Result
<1>4. ExecTellsTheTruth'
  BY <1>1, <1>3, ResultKept DEF IInv
<1>5. TypeOK'
  BY <1>1, <1>2, LastType DEF IInv, TypeOK, do_system, Results
<1>6. TreeInv' /\ FreeInv' /\ PastInv' /\ OneCaller'
  BY DEF IInv, do_system, TreeInv, FreeInv, PastInv, OneCaller
<1> QED
  BY <1>4, <1>5, <1>6 DEF IInv

LEMMA ExecStep ==
  ASSUME IInv, NEW p \in Proc, do_exec(p) \/ do_exec_redirect(p)
  PROVE  IInv'
<1>1. PICK f \in Functions :
        /\ pc[p] = "app" /\ pc' = [pc EXCEPT ![p] = "fork"]
        /\ call' = [call EXCEPT ![p] = f]
        /\ UNCHANGED <<pid, parent, status, ran, last, copies, given_up>>
  BY DEF do_exec, do_exec_redirect, Functions
<1>2. fds' \in [Proc -> Nat]
  BY DEF IInv, TypeOK, do_exec, do_exec_redirect
<1>3. TypeOK'
  BY <1>1, <1>2 DEF IInv, TypeOK
<1>4. ExecTellsTheTruth'
  BY <1>1 DEF IInv, ExecTellsTheTruth
<1>5. TreeInv'
  BY <1>1 DEF IInv, TypeOK, TreeInv, Caller
<1>6. FreeInv' /\ PastInv' /\ OneCaller'
  BY <1>1 DEF IInv, TypeOK, TreeInv, FreeInv, PastInv, OneCaller
<1> QED
  BY <1>3, <1>4, <1>5, <1>6 DEF IInv

\* A return without a status, of the caller or of a copy.
LEMMA ReturnType ==
  ASSUME IInv, NEW p \in Proc, NEW f \in Functions, ReturnFalse(p, f)
  PROVE  /\ pc' \in [Proc -> {"none", "app", "fork", "wait", "child", "command", "zombie"}]
         /\ call' \in [Proc -> Functions] /\ pid' \in [Proc -> Proc \cup {NULL}]
         /\ last' \in [Proc -> Results]
         /\ \A q \in Proc : pc'[q] = "wait" => pid'[q] # NULL
         /\ ExecTellsTheTruth'
<1>1. Result(f, FALSE, FALSE, "none") \in Results
  BY ResultType
<1>2. Result(f, FALSE, FALSE, "none").status = "none"
  BY DEF Result
<1>3. last' = [last EXCEPT ![p] = Result(f, FALSE, FALSE, "none")]
  BY DEF ReturnFalse
<1>4. ExecTellsTheTruth' /\ last' \in [Proc -> Results]
  BY <1>1, <1>2, <1>3, ResultKept, LastType DEF IInv
<1> QED
  BY <1>4 DEF IInv, TypeOK, ReturnFalse, Functions

LEMMA FailStep ==
  ASSUME IInv, NEW p \in Proc, do_exec_redirect_open_fails(p) \/ fork_fails(p)
  PROVE  IInv'
<1>1. PICK f \in Functions : ReturnFalse(p, f)
  BY DEF IInv, TypeOK, do_exec_redirect_open_fails, fork_fails, Functions
<1>2. /\ pc[p] \in {"app", "fork"}
      /\ UNCHANGED <<parent, fds, status, ran, copies, given_up>>
  BY DEF do_exec_redirect_open_fails, fork_fails
<1>3. TypeOK' /\ ExecTellsTheTruth'
  BY <1>1, <1>2, ReturnType DEF IInv, TypeOK, Results
<1>4. TreeInv' /\ FreeInv' /\ PastInv' /\ OneCaller'
  BY <1>1, <1>2 DEF IInv, TypeOK, ReturnFalse, TreeInv, FreeInv, PastInv, OneCaller, Caller
<1> QED
  BY <1>3, <1>4 DEF IInv

-----------------------------------------------------------------------------

\* fork: the child's id is one that nobody has and nobody is a child of.
LEMMA ForkStep ==
  ASSUME IInv, NEW p \in Proc, fork(p)
  PROVE  IInv'
<1>1. PICK c \in Proc :
        /\ pc[p] = "fork" /\ pc[c] = "none"
        /\ pc' = [pc EXCEPT ![p] = "wait", ![c] = "child"]
        /\ call' = [call EXCEPT ![c] = call[p]]
        /\ pid' = [pid EXCEPT ![p] = c]
        /\ parent' = [parent EXCEPT ![c] = p]
        /\ fds' = [fds EXCEPT ![c] = fds[p]]
        /\ last' = [last EXCEPT ![c] = last[p]]
        /\ UNCHANGED <<status, ran, copies, given_up>>
  BY DEF fork
<1>2. c # p /\ c \notin copies /\ c \notin given_up /\ c # Root
  BY <1>1 DEF IInv, FreeInv, TreeInv, Caller
<1>3. \A q \in Proc : parent[q] # c
  BY <1>1 DEF IInv, TreeInv, Caller
<1>4. TypeOK'
  BY <1>1, <1>2, SystemCallsAssumption DEF IInv, TypeOK
<1>5. ExecTellsTheTruth'
  BY <1>1 DEF IInv, TypeOK, ExecTellsTheTruth
<1>6. TreeInv'
  BY <1>1, <1>2, <1>3, SystemCallsAssumption DEF IInv, TypeOK, TreeInv, Caller
<1>7. FreeInv' /\ OneCaller'
  BY <1>1, <1>2 DEF IInv, TypeOK, FreeInv, OneCaller
<1>8. PastInv'
  BY <1>1, <1>2, <1>3 DEF IInv, TypeOK, TreeInv, PastInv
<1> QED
  BY <1>4, <1>5, <1>6, <1>7, <1>8 DEF IInv

\* dup2 fails: the child is a second caller, and the history says so.
LEMMA DupStep ==
  ASSUME IInv, NEW p \in Proc, dup2_fails(p)
  PROVE  IInv'
<1>1. /\ pc[p] = "child" /\ call[p] = "do_exec_redirect" /\ ReturnFalse(p, call[p])
      /\ copies' = copies \cup {p}
      /\ UNCHANGED <<parent, fds, status, ran, given_up>>
  BY DEF dup2_fails
<1>2. p # Root /\ \A q \in Proc : parent[q] # p
  BY <1>1 DEF IInv, TreeInv, Caller
<1>3. TypeOK' /\ ExecTellsTheTruth'
  BY <1>1, ReturnType DEF IInv, TypeOK, Results, Functions
<1>4. TreeInv' /\ FreeInv' /\ OneCaller'
  BY <1>1, <1>2 DEF IInv, TypeOK, ReturnFalse, TreeInv, FreeInv, OneCaller, Caller
<1>5. PastInv'
  BY <1>1, <1>2 DEF IInv, TypeOK, ReturnFalse, TreeInv, PastInv
<1> QED
  BY <1>3, <1>4, <1>5 DEF IInv

LEMMA ExecvStep ==
  ASSUME IInv, NEW p \in Proc, execv(p)
  PROVE  IInv'
<1>1. /\ pc[p] = "child" /\ pc' = [pc EXCEPT ![p] = "command"]
      /\ ran' = [ran EXCEPT ![p] = TRUE]
      /\ last' = [last EXCEPT ![p] = NoResult]
      /\ UNCHANGED <<call, pid, parent, fds, status, copies, given_up>>
  BY DEF execv
<1>2. p # Root /\ \A q \in Proc : parent[q] # p
  BY <1>1 DEF IInv, TreeInv, Caller
<1>3. ExecTellsTheTruth' /\ last' \in [Proc -> Results]
  BY <1>1, NoResultType, ResultKept, LastType DEF IInv
<1>4. TypeOK'
  BY <1>1, <1>3 DEF IInv, TypeOK, Results
<1>5. TreeInv' /\ FreeInv' /\ OneCaller'
  BY <1>1, <1>2 DEF IInv, TypeOK, TreeInv, FreeInv, OneCaller, Caller
<1>6. PastInv'
  BY <1>1, <1>2 DEF IInv, TypeOK, TreeInv, PastInv
<1> QED
  BY <1>3, <1>4, <1>5, <1>6 DEF IInv

-----------------------------------------------------------------------------

\* A process ends with zero only after its command ran, or in the caller's code.
LEMMA EndStep ==
  ASSUME IInv, NEW p \in Proc, execv_fails(p) \/ process_ends(p)
  PROVE  IInv'
<1>1. PICK s \in Statuses : Ends(p, s) /\ (pc[p] \in {"app", "command"} \/ s # "zero")
  BY DEF execv_fails, process_ends, Statuses
<1>2. p # Root /\ pc[p] \notin {"none", "zombie"}
  BY DEF IInv, TreeInv, Caller, execv_fails, process_ends
<1>3. /\ pc' = [pc EXCEPT ![p] = "zombie"] /\ status' = [status EXCEPT ![p] = s]
      /\ call' = [call EXCEPT ![p] = "none"] /\ pid' = [pid EXCEPT ![p] = NULL]
      /\ fds' = [fds EXCEPT ![p] = 0]
      /\ parent' = [c \in Proc |-> IF parent[c] = p THEN NULL ELSE parent[c]]
      /\ last' = [last EXCEPT ![p] = NoResult]
      /\ UNCHANGED <<ran, copies, given_up>>
  BY <1>1 DEF Ends
<1>4. ExecTellsTheTruth' /\ last' \in [Proc -> Results]
  BY <1>3, NoResultType, ResultKept, LastType DEF IInv
<1>5. TypeOK'
  BY <1>3, <1>4, SystemCallsAssumption DEF IInv, TypeOK, Results, Functions
<1>6. TreeInv'
  BY <1>2, <1>3, SystemCallsAssumption DEF IInv, TypeOK, TreeInv, Caller
<1>7. FreeInv' /\ OneCaller'
  BY <1>3 DEF IInv, TypeOK, FreeInv, OneCaller
<1>8. PastInv'
  <2>1. s = "zero" => ran[p] = TRUE \/ p \in copies
    BY <1>1, <1>2 DEF IInv, PastInv, OneCaller
  <2> QED
    BY <1>2, <1>3, <2>1 DEF IInv, TypeOK, TreeInv, PastInv
<1> QED
  BY <1>4, <1>5, <1>6, <1>7, <1>8 DEF IInv

\* The child that is waited for has ended, and its id is free again.
LEMMA ReapStep ==
  ASSUME IInv, NEW p \in Proc, do_exec_returns(p) \/ do_exec_redirect_returns(p)
  PROVE  IInv'
<1> DEFINE c == pid[p]
<1>1. PICK ret \in BOOLEAN :
        /\ Reaped(p, ret)
        /\ call[p] = "do_exec" => (ret <=> status[c] = "zero")
  BY DEF do_exec_returns, do_exec_redirect_returns
<1>2. pc[p] = "wait" /\ pc[c] = "zombie" /\ call[p] \in {"do_exec", "do_exec_redirect"}
  BY DEF do_exec_returns, do_exec_redirect_returns, Waited
<1>3. /\ c \in Proc /\ c # p /\ parent[c] = p /\ c # Root /\ c \notin given_up
      /\ \A q \in Proc : parent[q] # c
  BY <1>2, SystemCallsAssumption DEF IInv, TreeInv, Caller
<1> DEFINE r == Result(call[p], ret, ran[c], status[c])
<1>4. /\ pc' = [pc EXCEPT ![p] = "app", ![c] = "none"]
      /\ call' = [call EXCEPT ![p] = "none"]
      /\ pid' = [pid EXCEPT ![p] = NULL]
      /\ parent' = [parent EXCEPT ![c] = NULL]
      /\ last' = [last EXCEPT ![p] = r]
      /\ status' = [status EXCEPT ![c] = "none"]
      /\ ran' = [ran EXCEPT ![c] = FALSE]
      /\ copies' = copies \ {c}
      /\ UNCHANGED <<fds, given_up>>
  BY <1>1 DEF Reaped
<1>5. ran[c] \in BOOLEAN /\ status[c] \in Statuses /\ call[p] \in Functions
  BY <1>2, <1>3 DEF IInv, TypeOK, PastInv
<1>6. /\ r \in Results /\ r.call = call[p] /\ r.status = status[c]
      /\ r.ret = ret /\ r.ran = ran[c]
  <2>1. r \in Results
    BY <1>5, ResultType
  <2> QED
    BY <2>1 DEF Result
<1>7. status[c] = "zero" => ran[c] = TRUE \/ c \in copies
  BY <1>2, <1>3 DEF IInv, PastInv
<1>8. call[p] = "do_exec" => c \notin copies
  BY <1>2, <1>3 DEF IInv, PastInv
<1> HIDE DEF r
<1>9. ExecTellsTheTruth'
  <2>1. r.call = "do_exec" => (r.ret <=> r.ran /\ r.status = "zero")
    BY <1>1, <1>5, <1>6, <1>7, <1>8
  <2>2. \A q \in Proc : last'[q] = IF q = p THEN r ELSE last[q]
    BY <1>4 DEF IInv, TypeOK
  <2> QED
    BY <2>1, <2>2 DEF IInv, ExecTellsTheTruth
<1>10. TypeOK'
  <2>1. last' \in [Proc -> Results]
    BY <1>4, <1>6, LastType DEF IInv
  <2> QED
    BY <1>3, <1>4, <2>1 DEF IInv, TypeOK, Results, Functions
<1>11. TreeInv'
  BY <1>2, <1>3, <1>4, SystemCallsAssumption DEF IInv, TypeOK, TreeInv, Caller
<1>12. FreeInv' /\ OneCaller'
  BY <1>2, <1>3, <1>4 DEF IInv, TypeOK, FreeInv, OneCaller
<1>13. PastInv'
  BY <1>2, <1>3, <1>4 DEF IInv, TypeOK, TreeInv, PastInv
<1> QED
  BY <1>9, <1>10, <1>11, <1>12, <1>13 DEF IInv

LEMMA InterruptStep ==
  ASSUME IInv, NEW p \in Proc, waitpid_fails(p)
  PROVE  IInv'
<1>1. /\ pc[p] = "wait" /\ ReturnFalse(p, call[p])
      /\ given_up' = given_up \cup {pid[p]}
      /\ UNCHANGED <<parent, fds, status, ran, copies>>
  BY DEF waitpid_fails
<1>2. pid[p] \in Proc /\ parent[pid[p]] = p /\ pc[pid[p]] # "none" /\ call[p] \in Functions
  BY <1>1 DEF IInv, TypeOK, TreeInv
<1>3. TypeOK' /\ ExecTellsTheTruth'
  BY <1>1, <1>2, ReturnType DEF IInv, TypeOK, Results
<1>4. TreeInv'
  BY <1>1, <1>2 DEF IInv, TypeOK, ReturnFalse, TreeInv, Caller
<1>5. FreeInv' /\ PastInv' /\ OneCaller'
  BY <1>1, <1>2 DEF IInv, TypeOK, ReturnFalse, TreeInv, FreeInv, PastInv, OneCaller
<1> QED
  BY <1>3, <1>4, <1>5 DEF IInv

LEMMA InitReapsStep ==
  ASSUME IInv, NEW p \in Proc, init_reaps(p)
  PROVE  IInv'
<1>1. \A q \in Proc : parent[q] # p
  BY DEF IInv, TreeInv, Caller, init_reaps
<1>2. TypeOK'
  BY DEF IInv, TypeOK, init_reaps
<1>3. ExecTellsTheTruth'
  BY DEF IInv, init_reaps, ExecTellsTheTruth
<1>4. TreeInv'
  BY <1>1, SystemCallsAssumption DEF IInv, TypeOK, init_reaps, TreeInv, Caller
<1>5. FreeInv' /\ PastInv' /\ OneCaller'
  BY <1>1, SystemCallsAssumption
  DEF IInv, TypeOK, init_reaps, TreeInv, FreeInv, PastInv, OneCaller
<1> QED
  BY <1>2, <1>3, <1>4, <1>5 DEF IInv

-----------------------------------------------------------------------------

LEMMA NextInv == IInv /\ [Next]_vars => IInv'
<1> SUFFICES ASSUME IInv, [Next]_vars PROVE IInv'
  OBVIOUS
<1>1. CASE UNCHANGED vars
  BY <1>1 DEF vars, IInv, TypeOK, TreeInv, FreeInv, PastInv, OneCaller,
              ExecTellsTheTruth
<1>2. ASSUME NEW p \in Proc, Calls(p) PROVE IInv'
  BY <1>2, SystemStep, ExecStep, FailStep DEF Calls
<1>3. ASSUME NEW p \in Proc, Runs(p) PROVE IInv'
  BY <1>3, ForkStep, FailStep, DupStep, ExecvStep, EndStep, ReapStep DEF Runs
<1>4. ASSUME NEW p \in Proc, waitpid_fails(p) \/ process_ends(p) \/ init_reaps(p)
      PROVE IInv'
  BY <1>4, InterruptStep, EndStep, InitReapsStep
<1> QED
  BY <1>1, <1>2, <1>3, <1>4 DEF Next

\* However the processes of systemcalls.c run, fail and end, the inductive
\* invariant holds.
THEOREM SystemCallsInvariant == Spec => []IInv
BY InitInv, NextInv, PTL DEF Spec

\* Types; in particular no process waits for a child it does not have, although
\* fork may fail.
THEOREM SystemCallsTyped == Spec => []TypeOK
BY SystemCallsInvariant, PTL DEF IInv

\* do_exec returns true exactly for a command that was executed and ended with
\* zero, whatever else the program has forked meanwhile.
THEOREM ExecIsTrue == Spec => []ExecTellsTheTruth
BY SystemCallsInvariant, PTL DEF IInv

\* A caller that is in none of the functions has no child but those whose
\* waitpid failed.
THEOREM ChildrenAreReaped == Spec => []NoChildLeft
<1>1. IInv => NoChildLeft
  BY DEF IInv, TreeInv, NoChildLeft
<1> QED
  BY <1>1, SystemCallsInvariant, PTL

\* Only a child whose dup2 failed comes back into the caller's code.
THEOREM OnlyCopiesReturn == Spec => []OneCaller
BY SystemCallsInvariant, PTL DEF IInv
=============================================================================

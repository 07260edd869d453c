----------------------------- MODULE Threading -----------------------------
(***************************************************************************)
(* examples/threading/threading.c: threads that sleep, obtain a mutex,     *)
(* hold it and release it, each with a thread_data of its own that its     *)
(* joiner frees.  Time passes in microseconds, the unit of usleep.         *)
(***************************************************************************)
EXTENDS Naturals, FiniteSetsExt

CONSTANTS
  Thread,     \* calls of start_thread_obtaining_mutex
  Addr,       \* addresses malloc may give
  NULL,
  Waits,      \* values of wait_to_obtain_ms and wait_to_release_ms
  US_PER_MS   \* 1000; fewer where that only makes the model smaller

thread_data == [wait_to_obtain_ms: Waits, wait_to_release_ms: Waits,
                thread_complete_success: BOOLEAN]

\* A wait is an int: there is a longest one.
ASSUME ThreadingAssumption ==
  /\ NULL \notin Thread \cup Addr \cup thread_data
  /\ Waits \subseteq Nat
  /\ \E w \in Waits : \A v \in Waits : v <= w
  /\ US_PER_MS \in Nat \ {0}

VARIABLES
  pc,      \* where each thread is
  param,   \* its thread_param
  retval,  \* what it returned, for pthread_join
  data,    \* the thread_data at each address, NULL if it is free
  mutex,   \* who holds the mutex all threads are given
  slept    \* how long it has been in the usleep it is in

vars == <<pc, param, retval, data, mutex, slept>>

Init ==
  /\ pc = [t \in Thread |-> "none"]
  /\ param = [t \in Thread |-> NULL]
  /\ retval = [t \in Thread |-> NULL]
  /\ data = [a \in Addr |-> NULL]
  /\ mutex = NULL
  /\ slept = [t \in Thread |-> 0]

NewData_NoInit(obtain, release) ==
  [wait_to_obtain_ms |-> obtain, wait_to_release_ms |-> release,
   thread_complete_success |-> NULL]

\* A thread_data as it is passed to pthread_create.
NewData(obtain, release) ==
  [wait_to_obtain_ms |-> obtain, wait_to_release_ms |-> release,
   thread_complete_success |-> FALSE]

start_thread_obtaining_mutex_Static(t) ==
  /\ pc[t] = "none"
  /\ \E obtain, release \in Waits :
       LET a == CHOOSE a \in Addr : TRUE
       IN  /\ data' = [data EXCEPT ![a] = NewData(obtain, release)]
           /\ param' = [param EXCEPT ![t] = a]
  /\ pc' = [pc EXCEPT ![t] = "obtain"]
  /\ UNCHANGED <<retval, mutex, slept>>

\* malloc, and pthread_create is successful.
start_thread_obtaining_mutex(t) ==
  /\ pc[t] = "none"
  /\ \E obtain, release \in Waits, a \in Addr :
       /\ data[a] = NULL
       /\ data' = [data EXCEPT ![a] = NewData(obtain, release)]
       /\ param' = [param EXCEPT ![t] = a]
  /\ pc' = [pc EXCEPT ![t] = "obtain"]
  /\ UNCHANGED <<retval, mutex, slept>>

\* pthread_create fails: the result is false and nobody has the address any more.
pthread_create_fails(t) ==
  /\ pc[t] = "none"
  /\ \E obtain, release \in Waits, a \in Addr :
       /\ data[a] = NULL
       /\ data' = [data EXCEPT ![a] = NewData(obtain, release)]
  /\ pc' = [pc EXCEPT ![t] = "failed"]
  /\ UNCHANGED <<param, retval, mutex, slept>>

-----------------------------------------------------------------------------
(* threadfunc                                                              *)

\* A microsecond passes.  Beyond the longest wait the count makes no difference.
MaxSleep == Max(Waits) * US_PER_MS
Asleep(t) == pc[t] \in {"obtain", "release"}
Tick ==
  /\ \E t \in Thread : Asleep(t) /\ slept[t] < MaxSleep
  /\ slept' = [t \in Thread |-> IF Asleep(t) /\ slept[t] < MaxSleep
                                THEN slept[t] + 1 ELSE slept[t]]
  /\ UNCHANGED <<pc, param, retval, data, mutex>>

Returns_Nothing(t) ==
  /\ pc' = [pc EXCEPT ![t] = "returned"]
  /\ retval' = [retval EXCEPT ![t] = NULL]

\* return thread_param
Returns(t) ==
  /\ pc' = [pc EXCEPT ![t] = "returned"]
  /\ retval' = [retval EXCEPT ![t] = param[t]]

\* The usleep before the lock is over.
waited_to_obtain(t) ==
  /\ pc[t] = "obtain"
  /\ slept[t] >= data[param[t]].wait_to_obtain_ms
  /\ pc' = [pc EXCEPT ![t] = "lock"]
  /\ UNCHANGED <<param, retval, data, mutex, slept>>

pthread_mutex_lock(t) ==
  /\ pc[t] = "lock"
  /\ mutex = NULL
  /\ mutex' = t
  /\ data' = [data EXCEPT ![param[t]].thread_complete_success = TRUE]
  /\ slept' = [slept EXCEPT ![t] = 0]
  /\ pc' = [pc EXCEPT ![t] = "release"]
  /\ UNCHANGED <<param, retval>>

pthread_mutex_lock_fails(t) ==
  /\ pc[t] = "lock"
  /\ Returns(t)
  /\ UNCHANGED <<param, data, mutex, slept>>

pthread_mutex_unlock_Forgotten(t) ==
  /\ pc[t] = "release"
  /\ slept[t] >= data[param[t]].wait_to_release_ms
  /\ Returns(t)
  /\ UNCHANGED <<param, data, mutex, slept>>

\* The usleep after the lock is over.  An unlock by the owner does not fail.
pthread_mutex_unlock(t) ==
  /\ pc[t] = "release"
  /\ slept[t] >= data[param[t]].wait_to_release_ms
  /\ mutex' = NULL
  /\ Returns(t)
  /\ UNCHANGED <<param, data, slept>>

\* The caller joins the thread and frees what it returned, as threading.h says.
pthread_join(t) ==
  /\ pc[t] = "returned"
  /\ data' = [a \in Addr |-> IF a = retval[t] THEN NULL ELSE data[a]]
  /\ pc' = [pc EXCEPT ![t] = "joined"]
  /\ slept' = [slept EXCEPT ![t] = 0]
  /\ UNCHANGED <<param, retval, mutex>>

\* threadfunc without its failure.
threadfunc(t) == waited_to_obtain(t) \/ pthread_mutex_lock(t) \/ pthread_mutex_unlock(t)

Next == \/ Tick
        \/ \E t \in Thread : \/ start_thread_obtaining_mutex(t) \/ pthread_create_fails(t)
                             \/ threadfunc(t) \/ pthread_mutex_lock_fails(t)
                             \/ pthread_join(t)

Spec == Init /\ [][Next]_vars

\* Time passes and every thread is run.  A thread locks once, so a mutex that is
\* free now and then reaches it.  No lock has to fail, nobody has to start or to
\* join.
FairSpec == Spec /\ WF_vars(Tick) /\ \A t \in Thread : WF_vars(threadfunc(t))

-----------------------------------------------------------------------------

Live(t) == pc[t] \in {"obtain", "lock", "release", "returned"}

\* Types.  No thread sleeps for longer than the longest wait it may ask for.
TypeOK ==
  /\ pc \in [Thread -> {"none", "failed", "obtain", "lock", "release", "returned", "joined"}]
  /\ param \in [Thread -> Addr \cup {NULL}]
  /\ retval \in [Thread -> Addr \cup {NULL}]
  /\ data \in [Addr -> thread_data \cup {NULL}]
  /\ mutex \in Thread \cup {NULL}
  /\ slept \in [Thread -> 0 .. MaxSleep]

\* Every thread_data in use belongs to one thread: no thread is given the waits,
\* or reports the success, of another, and none is freed before its thread ends.
DataIsPrivate ==
  \A t, u \in Thread :
    /\ Live(t) => param[t] # NULL /\ data[param[t]] # NULL
    /\ Live(t) /\ Live(u) /\ param[t] = param[u] => t = u

\* All memory comes back, but for what a failed pthread_create leaves behind.
NoDataLost ==
  Quantify(Addr, LAMBDA a : data[a] # NULL) =
    Quantify(Thread, LAMBDA t : Live(t) \/ pc[t] = "failed")

\* A thread whose joiner sees success has held the mutex, and no thread returns
\* with it, whether it shows success or not.
SuccessIsHonest ==
  \A t \in Thread : Live(t) =>
    /\ data[param[t]].thread_complete_success => pc[t] \in {"release", "returned"}
    /\ pc[t] = "release" => data[param[t]].thread_complete_success
    /\ mutex = t <=> pc[t] = "release"

\* Every thread that is started returns, however the others wait and fail.
ThreadReturns == \A t \in Thread : pc[t] = "obtain" ~> pc[t] = "returned"

\* The comment of start_thread_obtaining_mutex: the thread sleeps
\* wait_to_obtain_ms "number of milliseconds" before it obtains the mutex.
WaitsMilliseconds ==
  \A t \in Thread : pc[t] = "lock" =>
    slept[t] >= data[param[t]].wait_to_obtain_ms * US_PER_MS
=============================================================================

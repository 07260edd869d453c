-------------------------- MODULE ThreadingProofs --------------------------
(***************************************************************************)
(* Theorems about the threads of examples/threading: for every number of   *)
(* threads and addresses, every choice of waits and every interleaving.    *)
(***************************************************************************)
EXTENDS Threading, FiniteSetTheorems, TLAPS

\* The mutex belongs to the thread that sleeps with it, and a thread that has
\* returned has returned its thread_param.
ThreadInv ==
  /\ \A t \in Thread : mutex = t <=> pc[t] = "release"
  /\ \A t \in Thread : pc[t] = "returned" => retval[t] = param[t]

\* The memory in use, and the calls it was allocated for.
Used == {a \in Addr : data[a] # NULL}
Busy == {t \in Thread : Live(t) \/ pc[t] = "failed"}

Counted == /\ IsFiniteSet(Used) /\ IsFiniteSet(Busy)
           /\ Cardinality(Used) = Cardinality(Busy)

\* DataIsPrivate is what makes the other parts inductive: a thread that writes or
\* frees its thread_data leaves those of all others alone.
IInv == TypeOK /\ DataIsPrivate /\ ThreadInv /\ SuccessIsHonest /\ Counted

-----------------------------------------------------------------------------

LEMMA MaxSleepType == MaxSleep \in Nat
<1>1. PICK w \in Waits : \A v \in Waits : v <= w
  BY ThreadingAssumption
<1>2. w \in Nat /\ \A v \in Waits : w >= v
  BY <1>1, ThreadingAssumption
<1>3. Max(Waits) \in Waits
  BY <1>2 DEF Max
<1>4. Max(Waits) \in Nat /\ US_PER_MS \in Nat
  BY <1>3, ThreadingAssumption
<1> QED
  BY <1>4 DEF MaxSleep

LEMMA InitInv == Init => IInv
<1> SUFFICES ASSUME Init PROVE IInv
  OBVIOUS
<1>1. TypeOK
  BY MaxSleepType DEF Init, TypeOK
<1>2. DataIsPrivate /\ SuccessIsHonest
  BY DEF Init, DataIsPrivate, SuccessIsHonest, Live
<1>3. ThreadInv
  BY ThreadingAssumption DEF Init, ThreadInv
<1>4. Used = {} /\ Busy = {}
  BY DEF Init, Used, Busy, Live
<1> QED
  BY <1>1, <1>2, <1>3, <1>4, FS_EmptySet DEF IInv, Counted

\* The thread_data of a thread that lives.
LEMMA LiveData ==
  ASSUME IInv, NEW t \in Thread, Live(t)
  PROVE  /\ param[t] \in Addr /\ data[param[t]] \in thread_data
         /\ \A u \in Thread : Live(u) /\ param[u] = param[t] => u = t
BY DEF IInv, TypeOK, DataIsPrivate

\* A step that allocates, for start_thread_obtaining_mutex or in vain.
LEMMA Allocates ==
  ASSUME IInv, NEW t \in Thread, NEW a \in Addr, data[a] = NULL,
         NEW d, d # NULL, data' = [data EXCEPT ![a] = d],
         pc[t] = "none", NEW p \in {"obtain", "failed"}, pc' = [pc EXCEPT ![t] = p]
  PROVE  Counted'
<1>1. data \in [Addr -> thread_data \cup {NULL}] /\ pc \in [Thread -> {"none", "failed",
         "obtain", "lock", "release", "returned", "joined"}]
  BY DEF IInv, TypeOK
<1>2. Used' = Used \cup {a} /\ a \notin Used
  BY <1>1 DEF Used
<1>3. Busy' = Busy \cup {t} /\ t \notin Busy
  BY <1>1 DEF Busy, Live
<1>4. IsFiniteSet(Used) /\ IsFiniteSet(Busy) /\ Cardinality(Used) = Cardinality(Busy)
  BY DEF IInv, Counted
<1>5. /\ IsFiniteSet(Used \cup {a})
      /\ Cardinality(Used \cup {a}) = Cardinality(Used) + 1
  BY <1>2, <1>4, FS_AddElement
<1>6. /\ IsFiniteSet(Busy \cup {t})
      /\ Cardinality(Busy \cup {t}) = Cardinality(Busy) + 1
  BY <1>3, <1>4, FS_AddElement
<1> QED
  BY <1>2, <1>3, <1>4, <1>5, <1>6 DEF Counted

\* A step that changes no memory and ends no thread.
LEMMA KeepsCount ==
  ASSUME IInv, Used' = Used, Busy' = Busy
  PROVE  Counted'
BY DEF IInv, Counted

LEMMA StartInv ==
  ASSUME IInv, NEW t \in Thread, start_thread_obtaining_mutex(t)
  PROVE  IInv'
<1>1. PICK obtain \in Waits, release \in Waits, a \in Addr :
        /\ data[a] = NULL
        /\ data' = [data EXCEPT ![a] = NewData(obtain, release)]
        /\ param' = [param EXCEPT ![t] = a]
  BY DEF start_thread_obtaining_mutex
<1>2. /\ pc[t] = "none" /\ pc' = [pc EXCEPT ![t] = "obtain"]
      /\ UNCHANGED <<retval, mutex, slept>>
  BY DEF start_thread_obtaining_mutex
<1> DEFINE d == NewData(obtain, release)
<1>3. d \in thread_data /\ d.thread_complete_success = FALSE
  BY DEF NewData, thread_data
<1>4. d # NULL
  BY <1>3, ThreadingAssumption
<1> HIDE DEF d
<1>5. \A u \in Thread \ {t} : Live(u) => param[u] # a
  BY <1>1 DEF IInv, DataIsPrivate
<1>6. TypeOK'
  BY <1>1, <1>2, <1>3 DEF IInv, TypeOK, d
<1>7. DataIsPrivate'
  BY <1>1, <1>2, <1>4, <1>5, ThreadingAssumption
     DEF IInv, TypeOK, DataIsPrivate, Live, d
<1>8. ThreadInv'
  BY <1>1, <1>2 DEF IInv, TypeOK, ThreadInv
<1>9. SuccessIsHonest'
  BY <1>1, <1>2, <1>3, <1>5 DEF IInv, TypeOK, ThreadInv, SuccessIsHonest, Live, d
<1>10. Counted'
  BY <1>1, <1>2, <1>4, Allocates DEF d
<1> QED
  BY <1>6, <1>7, <1>8, <1>9, <1>10 DEF IInv

LEMMA CreateFailsInv ==
  ASSUME IInv, NEW t \in Thread, pthread_create_fails(t)
  PROVE  IInv'
<1>1. PICK obtain \in Waits, release \in Waits, a \in Addr :
        /\ data[a] = NULL
        /\ data' = [data EXCEPT ![a] = NewData(obtain, release)]
  BY DEF pthread_create_fails
<1>2. /\ pc[t] = "none" /\ pc' = [pc EXCEPT ![t] = "failed"]
      /\ UNCHANGED <<param, retval, mutex, slept>>
  BY DEF pthread_create_fails
<1> DEFINE d == NewData(obtain, release)
<1>3. d \in thread_data
  BY DEF NewData, thread_data
<1>4. d # NULL
  BY <1>3, ThreadingAssumption
<1> HIDE DEF d
<1>5. \A u \in Thread \ {t} : Live(u) => param[u] # a
  BY <1>1 DEF IInv, DataIsPrivate
<1>6. TypeOK'
  BY <1>1, <1>2, <1>3 DEF IInv, TypeOK, d
<1>7. DataIsPrivate'
  BY <1>1, <1>2, <1>5 DEF IInv, TypeOK, DataIsPrivate, Live
<1>8. ThreadInv'
  BY <1>1, <1>2 DEF IInv, TypeOK, ThreadInv
<1>9. SuccessIsHonest'
  BY <1>1, <1>2, <1>5 DEF IInv, TypeOK, ThreadInv, SuccessIsHonest, Live
<1>10. Counted'
  BY <1>1, <1>2, <1>4, Allocates DEF d
<1> QED
  BY <1>6, <1>7, <1>8, <1>9, <1>10 DEF IInv

LEMMA TickInv ==
  ASSUME IInv, Tick
  PROVE  IInv'
<1>1. UNCHANGED <<pc, param, retval, data, mutex>>
  BY DEF Tick
<1>2. slept' \in [Thread -> 0 .. MaxSleep]
  BY MaxSleepType DEF Tick, IInv, TypeOK
<1>3. TypeOK'
  BY <1>1, <1>2 DEF IInv, TypeOK
<1>4. DataIsPrivate' /\ ThreadInv' /\ SuccessIsHonest'
  BY <1>1 DEF IInv, DataIsPrivate, ThreadInv, SuccessIsHonest, Live
<1>5. Counted'
  BY <1>1 DEF IInv, Counted, Used, Busy, Live
<1> QED
  BY <1>3, <1>4, <1>5 DEF IInv

\* A live thread goes on or returns, and changes no memory.
LEMMA GoesOnInv ==
  ASSUME IInv, NEW t \in Thread,
         \/ waited_to_obtain(t) \/ pthread_mutex_lock_fails(t) \/ pthread_mutex_unlock(t)
  PROVE  IInv'
<1>1. /\ Live(t) /\ UNCHANGED <<param, data, slept>>
      /\ \/ /\ pc[t] = "obtain" /\ pc' = [pc EXCEPT ![t] = "lock"]
            /\ UNCHANGED <<retval, mutex>>
         \/ /\ pc[t] = "lock" /\ pc' = [pc EXCEPT ![t] = "returned"]
            /\ retval' = [retval EXCEPT ![t] = param[t]] /\ UNCHANGED mutex
         \/ /\ pc[t] = "release" /\ pc' = [pc EXCEPT ![t] = "returned"]
            /\ retval' = [retval EXCEPT ![t] = param[t]] /\ mutex' = NULL
  BY DEF waited_to_obtain, pthread_mutex_lock_fails, pthread_mutex_unlock, Returns, Live
<1>2. TypeOK'
  BY <1>1 DEF IInv, TypeOK
<1>3. DataIsPrivate'
  BY <1>1 DEF IInv, TypeOK, DataIsPrivate, Live
<1>4. ThreadInv'
  BY <1>1, ThreadingAssumption DEF IInv, TypeOK, ThreadInv
<1>5. SuccessIsHonest'
  BY <1>1, <1>4 DEF IInv, TypeOK, ThreadInv, SuccessIsHonest, Live
<1>6. Counted'
  <2>1. Used' = Used /\ Busy' = Busy
    BY <1>1 DEF IInv, TypeOK, Used, Busy, Live
  <2> QED
    BY <2>1, KeepsCount
<1> QED
  BY <1>2, <1>3, <1>4, <1>5, <1>6 DEF IInv

LEMMA LockInv ==
  ASSUME IInv, NEW t \in Thread, pthread_mutex_lock(t)
  PROVE  IInv'
<1> DEFINE a == param[t]
           d == [data[a] EXCEPT !.thread_complete_success = TRUE]
<1>1. /\ pc[t] = "lock" /\ pc' = [pc EXCEPT ![t] = "release"]
      /\ mutex = NULL /\ mutex' = t
      /\ data' = [data EXCEPT ![a].thread_complete_success = TRUE]
      /\ slept' = [slept EXCEPT ![t] = 0]
      /\ UNCHANGED <<param, retval>>
  BY DEF pthread_mutex_lock
<1>2. /\ a \in Addr /\ data[a] \in thread_data
      /\ \A u \in Thread \ {t} : Live(u) => param[u] # a
  BY <1>1, LiveData DEF Live
<1>3. d \in thread_data /\ d.thread_complete_success = TRUE
  BY <1>2 DEF thread_data
<1>4. data' = [data EXCEPT ![a] = d]
  BY <1>1
<1>5. d # NULL /\ data[a] # NULL
  BY <1>2, <1>3, ThreadingAssumption
<1> HIDE DEF a, d
<1>6. TypeOK'
  <2>1. slept' \in [Thread -> 0 .. MaxSleep]
    BY <1>1, MaxSleepType DEF IInv, TypeOK
  <2>2. data' \in [Addr -> thread_data \cup {NULL}]
    BY <1>2, <1>3, <1>4 DEF IInv, TypeOK
  <2> QED
    BY <1>1, <2>1, <2>2 DEF IInv, TypeOK
<1>7. DataIsPrivate'
  <2>1. \A u \in Thread : Live(u)' <=> Live(u)
    BY <1>1 DEF IInv, TypeOK, Live
  <2>2. \A b \in Addr : data[b] # NULL => data'[b] # NULL
    BY <1>2, <1>4, <1>5 DEF IInv, TypeOK
  <2>3. param' = param /\ \A u \in Thread : param[u] # NULL => param[u] \in Addr
    BY <1>1 DEF IInv, TypeOK
  <2>4. DataIsPrivate
    BY DEF IInv
  <2> QED
    BY <2>1, <2>2, <2>3, <2>4 DEF DataIsPrivate
<1>8. ThreadInv'
  BY <1>1, ThreadingAssumption DEF IInv, TypeOK, ThreadInv
<1>9. SuccessIsHonest'
  BY <1>1, <1>2, <1>3, <1>4, <1>8 DEF IInv, TypeOK, ThreadInv, SuccessIsHonest, Live, a
<1>10. Counted'
  <2>1. Used' = Used /\ Busy' = Busy
    BY <1>1, <1>2, <1>4, <1>5 DEF IInv, TypeOK, Used, Busy, Live
  <2> QED
    BY <2>1, KeepsCount
<1> QED
  BY <1>6, <1>7, <1>8, <1>9, <1>10 DEF IInv

LEMMA JoinInv ==
  ASSUME IInv, NEW t \in Thread, pthread_join(t)
  PROVE  IInv'
<1> DEFINE a == param[t]
<1>1. /\ pc[t] = "returned" /\ pc' = [pc EXCEPT ![t] = "joined"] /\ retval[t] = a
      /\ slept' = [slept EXCEPT ![t] = 0]
      /\ UNCHANGED <<param, retval, mutex>>
  BY DEF pthread_join, IInv, ThreadInv
<1>2. data' = [b \in Addr |-> IF b = a THEN NULL ELSE data[b]]
  BY <1>1 DEF pthread_join
<1>3. /\ a \in Addr /\ data[a] \in thread_data
      /\ \A u \in Thread \ {t} : Live(u) => param[u] # a
  BY <1>1, LiveData DEF Live
<1>4. data[a] # NULL
  BY <1>3, ThreadingAssumption
<1> HIDE DEF a
<1>6. TypeOK'
  BY <1>1, <1>2, MaxSleepType DEF IInv, TypeOK
<1>7. DataIsPrivate'
  BY <1>1, <1>2, <1>3 DEF IInv, TypeOK, DataIsPrivate, Live
<1>8. ThreadInv'
  BY <1>1 DEF IInv, TypeOK, ThreadInv
<1>9. SuccessIsHonest'
  <2>1. ASSUME NEW u \in Thread, Live(u)'
        PROVE  u # t /\ Live(u) /\ pc'[u] = pc[u] /\ data'[param'[u]] = data[param[u]]
    BY <1>1, <1>2, <1>3, <2>1 DEF IInv, TypeOK, DataIsPrivate, Live
  <2> QED
    BY <1>1, <2>1 DEF IInv, SuccessIsHonest
<1>10. Counted'
  <2>1. Used' = Used \ {a} /\ a \in Used
    BY <1>2, <1>3, <1>4 DEF IInv, TypeOK, Used
  <2>2. Busy' = Busy \ {t} /\ t \in Busy
    BY <1>1 DEF IInv, TypeOK, Busy, Live
  <2>3. IsFiniteSet(Used) /\ IsFiniteSet(Busy) /\ Cardinality(Used) = Cardinality(Busy)
    BY DEF IInv, Counted
  <2>4. IsFiniteSet(Used \ {a}) /\ Cardinality(Used \ {a}) = Cardinality(Used) - 1
    BY <2>1, <2>3, FS_RemoveElement
  <2>5. IsFiniteSet(Busy \ {t}) /\ Cardinality(Busy \ {t}) = Cardinality(Busy) - 1
    BY <2>2, <2>3, FS_RemoveElement
  <2> QED
    BY <2>1, <2>2, <2>3, <2>4, <2>5 DEF Counted
<1> QED
  BY <1>6, <1>7, <1>8, <1>9, <1>10 DEF IInv

LEMMA StepInv == IInv /\ [Next]_vars => IInv'
<1> SUFFICES ASSUME IInv, [Next]_vars PROVE IInv'
  OBVIOUS
<1>1. CASE UNCHANGED vars
  BY <1>1 DEF vars, IInv, TypeOK, DataIsPrivate, ThreadInv, SuccessIsHonest, Counted,
     Used, Busy, Live
<1> QED
  BY <1>1, TickInv, StartInv, CreateFailsInv, GoesOnInv, LockInv, JoinInv
     DEF Next, threadfunc

-----------------------------------------------------------------------------

\* The inductive invariant of the threads.
THEOREM ThreadsInvariant == Spec => []IInv
BY InitInv, StepInv, PTL DEF Spec

\* Types, and no thread sleeps for longer than the longest wait.
THEOREM ThreadsTyped == Spec => []TypeOK
<1>1. IInv => TypeOK
  BY DEF IInv
<1> QED
  BY <1>1, ThreadsInvariant, PTL

\* malloc gives every call of start_thread_obtaining_mutex a thread_data of its
\* own, which stays until its thread is joined.
THEOREM ThreadsDataPrivate == Spec => []DataIsPrivate
<1>1. IInv => DataIsPrivate
  BY DEF IInv
<1> QED
  BY <1>1, ThreadsInvariant, PTL

\* threadfunc sets thread_complete_success while it has the mutex, and gives the
\* mutex back before it returns.
THEOREM ThreadsHonest == Spec => []SuccessIsHonest
<1>1. IInv => SuccessIsHonest
  BY DEF IInv
<1> QED
  BY <1>1, ThreadsInvariant, PTL

\* The joiner frees what the thread returned: as many thread_data are in use as
\* there are threads not joined yet and failed calls of pthread_create.
THEOREM ThreadsLoseNothing == Spec => []NoDataLost
<1>1. IInv => NoDataLost
  BY DEF IInv, Counted, Used, Busy, NoDataLost, Quantify
<1> QED
  BY <1>1, ThreadsInvariant, PTL
=============================================================================

-------------------------- MODULE AesdSocketProofs --------------------------
(***************************************************************************)
(* What AesdSocket promises, for every set of connections, every text,     *)
(* every interleaving of threads and clients, every failure, every signal  *)
(* and every restart:                                                      *)
(*   - no thread and no walk of clean_threads uses a thread_info_t that was*)
(*     freed, and the list holds exactly the others;                       *)
(*   - main leaves nothing behind when it returns;                         *)
(*   - types; SIGPIPE; the text of a connection stays together and ends its*)
(*     answer; and the whole is an implementation of LineService.          *)
(*                                                                         *)
(* NoUseAfterFree says nothing of the pointers in the list, along which    *)
(* clean_threads comes to the next entry, nor of the connections that wait *)
(* for accept, which is to make an entry for each.  SafeInv adds both, and *)
(* the later invariants stand on it, one on the other: ExitInv, TypeInv,   *)
(* StoreInv, TextInv.                                                      *)
(***************************************************************************)
EXTENDS AesdSocket, CircularBufferLemmas, FiniteSetTheorems

LP == INSTANCE ListProofs WITH Node <- Conn

Place == Before \cup After \cup {"cut"}
End   == {"idle", "open", "shut", "closed", "broken", "reset", "cut"}

ListTypes ==
  /\ pc \in [Conn -> Place] /\ peer \in [Conn -> End]
  /\ backlog \in Seq(Conn) /\ tinfo \in SUBSET Conn
  /\ head \in LIST_HEAD /\ datap \in Conn \cup {NULL}

\* The list holds the entries that are not freed, and all of them, in one row.
Listed == Linked(head, tinfo) /\ LP!Ordered(head, tinfo)

\* A connection that waits for accept waits once and has no thread yet, and
\* neither has a client that has not connected; an entry has had a thread.
Queued ==
  /\ \A i \in 1 .. Len(backlog) : pc[backlog[i]] = "none" /\ peer[backlog[i]] # "idle"
  /\ \A i, j \in 1 .. Len(backlog) : backlog[i] = backlog[j] => i = j
  /\ \A c \in Conn : peer[c] = "idle" => pc[c] = "none"
  /\ \A c \in tinfo : pc[c] # "none"

SafeInv == ListTypes /\ Listed /\ Queued /\ NoUseAfterFree

-----------------------------------------------------------------------------
(* ListProofs in terms of the server's list.                               *)

LEMMA SameList ==
  /\ LP!Pointers
  /\ LP!LIST_HEAD = LIST_HEAD
  /\ \A l, S : LP!Linked(l, S) = Linked(l, S)
  /\ \A l, e : LP!LIST_INSERT_HEAD(l, e) = LIST_INSERT_HEAD(l, e)
  /\ \A l, e : LP!Free(LP!LIST_REMOVE(l, e), e) = Free(LIST_REMOVE(l, e), e)
<1>1. LP!Pointers
  BY ConnAssumption DEF LP!Pointers
<1>2. LP!LIST_HEAD = LIST_HEAD
  BY DEF LP!LIST_HEAD, LIST_HEAD
<1>3. \A l, S : LP!Linked(l, S) = Linked(l, S)
  BY Zenon DEF LP!Linked, Linked, LP!Deref, Deref
<1>4. \A l, e : LP!LIST_INSERT_HEAD(l, e) = LIST_INSERT_HEAD(l, e)
  BY Zenon DEF LP!LIST_INSERT_HEAD, LIST_INSERT_HEAD, LP!SetPrev, SetPrev
<1>5. \A l, e : LP!Free(LP!LIST_REMOVE(l, e), e) = Free(LIST_REMOVE(l, e), e)
  BY ZenonT(60) DEF LP!Free, Free, LP!LIST_REMOVE, LIST_REMOVE, LP!Store, Store,
               LP!SetPrev, SetPrev
<1> QED
  BY <1>1, <1>2, <1>3, <1>4, <1>5

\* accept's LIST_INSERT_HEAD.
LEMMA Inserted ==
  ASSUME NEW l \in LIST_HEAD, NEW S \in SUBSET Conn, NEW e \in Conn \ S,
         Linked(l, S), LP!Ordered(l, S)
  PROVE  LET r == LIST_INSERT_HEAD(l, e)
         IN  r \in LIST_HEAD /\ Linked(r, S \cup {e}) /\ LP!Ordered(r, S \cup {e})
BY SameList, LP!InsertKeepsLinked, LP!InsertKeepsOrdered

\* clean_threads' LIST_REMOVE and free.
LEMMA Removed ==
  ASSUME NEW l \in LIST_HEAD, NEW S \in SUBSET Conn, NEW e \in S,
         Linked(l, S), LP!Ordered(l, S)
  PROVE  LET r == Free(LIST_REMOVE(l, e), e)
         IN  /\ r \in LIST_HEAD /\ Linked(r, S \ {e}) /\ LP!Ordered(r, S \ {e})
             /\ l.le_next[e] # e
BY SameList, LP!RemoveKeepsLinked, LP!RemoveKeepsOrdered

\* The walk starts at an entry and goes from entry to entry.
LEMMA Walk ==
  ASSUME NEW l, NEW S, Linked(l, S)
  PROVE  /\ LIST_FIRST(l) \in S \cup {NULL}
         /\ \A e \in S : LIST_NEXT(l, e) \in S \cup {NULL}
BY DEF Linked, LIST_FIRST, LIST_NEXT

LEMMA EmptyList ==
  LIST_INIT \in LIST_HEAD /\ Linked(LIST_INIT, {}) /\ LP!Ordered(LIST_INIT, {})
<1>1. LIST_INIT \in LIST_HEAD /\ Linked(LIST_INIT, {})
  BY DEF LIST_INIT, LIST_HEAD, Linked
<1>2. [e \in Conn |-> 0] \in [Conn -> Int] /\ LP!Sorts(LIST_INIT, {}, [e \in Conn |-> 0])
  BY DEF LP!Sorts
<1> QED
  BY <1>1, <1>2 DEF LP!Ordered

-----------------------------------------------------------------------------
(* The invariant.                                                          *)

LEMMA SafeInit == Init => SafeInv
<1> SUFFICES ASSUME Init PROVE SafeInv
  OBVIOUS
<1>1. ListTypes
  BY EmptyList DEF Init, ListTypes, Place, Before, End
<1>2. Listed
  BY EmptyList DEF Init, Listed
<1>3. Queued /\ NoUseAfterFree
  BY DEF Init, Queued, NoUseAfterFree
<1> QED
  BY <1>1, <1>2, <1>3 DEF SafeInv

listvars == <<pc, peer, backlog, tinfo, head, datap>>

LEMMA SafeStutter == SafeInv /\ UNCHANGED listvars => SafeInv'
BY DEF SafeInv, ListTypes, Listed, Queued, NoUseAfterFree, listvars

\* The list stays as it is, and the walk goes on within it or ends.
LEMMA SafeWalk ==
  ASSUME SafeInv, UNCHANGED <<pc, peer, backlog, tinfo, head>>,
         datap' \in tinfo \cup {NULL}
  PROVE  SafeInv'
BY DEF SafeInv, ListTypes, Listed, Queued, NoUseAfterFree

\* A client acts on its own end: no connection becomes idle.
LEMMA SafeClient ==
  ASSUME SafeInv, UNCHANGED <<pc, backlog, tinfo, head, datap>>,
         NEW c \in Conn, peer[c] # "idle", NEW q \in End \ {"idle"},
         peer' = [peer EXCEPT ![c] = q]
  PROVE  SafeInv'
BY DEF SafeInv, ListTypes, Listed, Queued, NoUseAfterFree

\* A thread goes from one of its places to another.
LEMMA SafeThread ==
  ASSUME SafeInv, UNCHANGED <<peer, backlog, tinfo, head, datap>>,
         NEW c \in Conn, pc[c] \notin {"none", "exited", "stillborn", "cut"},
         NEW p \in Place \ {"none"}, pc' = [pc EXCEPT ![c] = p]
  PROVE  SafeInv'
BY DEF SafeInv, ListTypes, Listed, Queued, NoUseAfterFree

LEMMA SafeConnect ==
  ASSUME SafeInv, NEW c \in Conn, client_connect(c)
  PROVE  SafeInv'
<1>1. /\ peer[c] = "idle" /\ peer' = [peer EXCEPT ![c] = "open"]
      /\ backlog' = Append(backlog, c)
      /\ UNCHANGED <<pc, tinfo, head, datap>>
  BY DEF client_connect, ClientStep, threads
<1>2. backlog \in Seq(Conn)
  BY DEF SafeInv, ListTypes
<1>3. /\ backlog' \in Seq(Conn) /\ Len(backlog') = Len(backlog) + 1
      /\ \A i \in 1 .. Len(backlog) : backlog'[i] = backlog[i] /\ backlog[i] \in Conn
      /\ backlog'[Len(backlog) + 1] = c
  BY <1>1, <1>2
<1>4. Len(backlog) \in Nat
  BY <1>2
<1>5. ListTypes'
  BY <1>1, <1>3 DEF SafeInv, ListTypes, End
<1>6. Listed' /\ NoUseAfterFree'
  BY <1>1 DEF SafeInv, Listed, NoUseAfterFree
<1>7. \A i \in 1 .. Len(backlog') : pc'[backlog'[i]] = "none" /\ peer'[backlog'[i]] # "idle"
  BY <1>1, <1>3, <1>4 DEF SafeInv, Queued, ListTypes
<1>8. \A i \in 1 .. Len(backlog) : backlog[i] # c
  BY <1>1 DEF SafeInv, Queued
<1>9. \A i, j \in 1 .. Len(backlog') : backlog'[i] = backlog'[j] => i = j
  BY <1>3, <1>4, <1>8 DEF SafeInv, Queued
<1>10. /\ \A d \in Conn : peer'[d] = "idle" => pc'[d] = "none"
       /\ \A d \in tinfo' : pc'[d] # "none"
  BY <1>1 DEF SafeInv, Queued, ListTypes
<1> QED
  BY <1>5, <1>6, <1>7, <1>9, <1>10 DEF SafeInv, Queued

LEMMA SafeAccept ==
  ASSUME SafeInv, accept
  PROVE  SafeInv'
<1> DEFINE c == Head(backlog)
<1>1. /\ backlog # << >> /\ backlog' = Tail(backlog)
      /\ tinfo' = tinfo \cup {c}
      /\ head' = LIST_INSERT_HEAD(head, c) /\ datap' = LIST_FIRST(head')
      /\ peer' = peer
  BY DEF accept, MainStep, clients
<1>2. PICK born \in pthread_create : pc' = [pc EXCEPT ![c] = born]
  BY DEF accept
<1>3. born \in {"start", "stillborn"}
  BY <1>2 DEF pthread_create
<1>4. /\ backlog \in Seq(Conn) /\ Len(backlog) \in Nat /\ Len(backlog) > 0
      /\ c = backlog[1] /\ c \in Conn
  BY <1>1 DEF SafeInv, ListTypes
<1>5. /\ backlog' \in Seq(Conn) /\ Len(backlog') = Len(backlog) - 1
      /\ \A i \in 1 .. Len(backlog') : backlog'[i] = backlog[i + 1] /\ i + 1 \in 1 .. Len(backlog)
  BY <1>1, <1>4
<1>6. pc[c] = "none" /\ peer[c] # "idle" /\ c \notin tinfo
  BY <1>4 DEF SafeInv, Queued
<1> HIDE DEF c
<1>7. head' \in LIST_HEAD /\ Listed'
  BY <1>1, <1>4, <1>6, Inserted DEF SafeInv, ListTypes, Listed
<1>8. datap' \in tinfo' \cup {NULL}
  BY <1>1, <1>7, Walk DEF Listed
<1>9. ListTypes'
  BY <1>1, <1>2, <1>3, <1>4, <1>5, <1>7, <1>8
     DEF SafeInv, ListTypes, Place, Before
<1>10. NoUseAfterFree'
  BY <1>1, <1>2, <1>4, <1>8 DEF SafeInv, ListTypes, NoUseAfterFree
<1>11. \A i \in 1 .. Len(backlog') :
         pc'[backlog'[i]] = "none" /\ peer'[backlog'[i]] # "idle"
  <2> SUFFICES ASSUME NEW i \in 1 .. Len(backlog')
               PROVE  pc'[backlog'[i]] = "none" /\ peer'[backlog'[i]] # "idle"
    OBVIOUS
  <2>1. backlog'[i] = backlog[i + 1] /\ i + 1 \in 1 .. Len(backlog) /\ i + 1 # 1
    BY <1>4, <1>5
  <2>2. backlog[i + 1] # c /\ backlog[i + 1] \in Conn
    BY <1>4, <2>1 DEF SafeInv, Queued
  <2> QED
    BY <1>1, <1>2, <2>1, <2>2 DEF SafeInv, Queued, ListTypes
<1>12. \A i, j \in 1 .. Len(backlog') : backlog'[i] = backlog'[j] => i = j
  BY <1>4, <1>5 DEF SafeInv, Queued
<1>13. /\ \A d \in Conn : peer'[d] = "idle" => pc'[d] = "none"
       /\ \A d \in tinfo' : pc'[d] # "none"
  BY <1>1, <1>2, <1>3, <1>4, <1>6 DEF SafeInv, Queued, ListTypes
<1> QED
  BY <1>7, <1>9, <1>10, <1>11, <1>12, <1>13 DEF SafeInv, Queued

LEMMA SafeClean ==
  ASSUME SafeInv, clean_threads
  PROVE  SafeInv'
<1>1. /\ datap # NULL /\ pc[datap] \in {"exited", "stillborn"}
      /\ datap' = LIST_NEXT(head, datap)
      /\ head' = Free(LIST_REMOVE(head, datap), datap)
      /\ tinfo' = tinfo \ {datap}
      /\ UNCHANGED <<pc, peer, backlog>>
  BY DEF clean_threads, Joined, MainStep, clients
<1>2. datap \in tinfo
  BY <1>1 DEF SafeInv, NoUseAfterFree
<1>3. head' \in LIST_HEAD /\ Listed' /\ head.le_next[datap] # datap
  BY <1>1, <1>2, Removed DEF SafeInv, ListTypes, Listed
<1>4. datap' \in tinfo' \cup {NULL}
  BY <1>1, <1>2, <1>3, Walk DEF SafeInv, Listed, LIST_NEXT
<1>5. ListTypes'
  BY <1>1, <1>3, <1>4 DEF SafeInv, ListTypes
<1>6. NoUseAfterFree'
  BY <1>1, <1>4 DEF SafeInv, NoUseAfterFree
<1>7. Queued'
  BY <1>1 DEF SafeInv, Queued
<1> QED
  BY <1>3, <1>5, <1>6, <1>7 DEF SafeInv

LEMMA SafeBlank ==
  ASSUME SafeInv, NEW p, Blank(p)
  PROVE  SafeInv'
<1>1. /\ backlog' = << >> /\ head' = LIST_INIT /\ datap' = NULL /\ tinfo' = {}
      /\ pc' = [c \in Conn |-> IF peer[c] = "idle" THEN "none" ELSE "cut"]
      /\ peer' = [c \in Conn |-> IF peer[c] = "idle" THEN "idle" ELSE "cut"]
  BY DEF Blank
<1>2. ListTypes'
  BY <1>1, EmptyList DEF ListTypes, Place, Before, End
<1>3. Listed'
  BY <1>1, EmptyList DEF Listed
<1>4. Queued' /\ NoUseAfterFree'
  BY <1>1 DEF Queued, NoUseAfterFree
<1> QED
  BY <1>2, <1>3, <1>4 DEF SafeInv

-----------------------------------------------------------------------------
(* Every action keeps it.                                                  *)

LEMMA SafeMain ==
  ASSUME SafeInv, Main
  PROVE  SafeInv'
<1> USE DEF MainStep, OnlyMain, main, threads, clients, listvars
<1>1. CASE \/ handle_flags \/ daemon \/ set_signal_handler
           \/ get_listener \/ listen \/ reap_dead_processes
  BY <1>1, SafeStutter DEF handle_flags, daemon, set_signal_handler, get_listener,
     listen, reap_dead_processes, Startup
<1>2. CASE \/ startup_fails \/ get_listener_fails \/ join_stillborn \/ main_exit
  BY <1>2, SafeStutter DEF startup_fails, get_listener_fails, join_stillborn,
     main_exit, vars
<1>3. CASE poll \/ accept_fails \/ clean_threads_done
  BY <1>3, SafeStutter DEF poll, accept_fails, clean_threads_done
<1>4. CASE loop_test
  BY <1>4, SafeWalk, Walk DEF loop_test, SafeInv, Listed
<1>5. CASE no_request
  BY <1>5, SafeWalk, Walk DEF no_request, SafeInv, Listed
<1>6. CASE clean_threads_skip
  BY <1>6, SafeWalk, Walk DEF clean_threads_skip, SafeInv, Listed, NoUseAfterFree
<1> QED
  BY <1>1, <1>2, <1>3, <1>4, <1>5, <1>6, SafeAccept, SafeClean DEF Main

LEMMA SafeThreads ==
  ASSUME SafeInv, NEW c \in Conn, Thread(c)
  PROVE  SafeInv'
<1> USE DEF ThreadStep, main, threads, Place, Before, After
<1>1. CASE thread_work_open(c)
  BY <1>1, SafeThread DEF thread_work_open
<1>2. CASE thread_work_open_fails(c)
  BY <1>2, SafeStutter DEF thread_work_open_fails, listvars
<1>3. CASE recv_data(c) \/ recv_eof(c) \/ recv_error(c)
  <2>1. PICK n : AfterRecv(c, n)
    BY <1>3 DEF recv_data, recv_eof, recv_error
  <2>2. PICK p \in {"recv", "seek"} : pc' = [pc EXCEPT ![c] = p]
    BY <2>1 DEF AfterRecv
  <2>3. RecvStep(c)
    BY <1>3 DEF recv_data, recv_eof, recv_error
  <2> QED
    BY <2>2, <2>3, SafeThread DEF RecvStep
<1>4. CASE send_file(c)
  BY <1>4, SafeThread DEF send_file
<1>5. CASE send_turn(c)
  <2>1. /\ UNCHANGED <<pc, backlog, tinfo, head, datap>> /\ pc[c] = "send"
        /\ peer' = [peer EXCEPT ![c] = IF @ = "closed" THEN "broken" ELSE @]
    BY <1>5 DEF send_turn, SendStep
  <2>2. peer[c] # "idle" /\ peer[c] \in End
    BY <2>1 DEF SafeInv, Queued, ListTypes
  <2>3. PICK q \in End \ {"idle"} : peer' = [peer EXCEPT ![c] = q]
    BY <2>1, <2>2 DEF End
  <2> QED
    BY <2>1, <2>2, <2>3, SafeClient
<1>6. CASE send_to_reset(c)
  BY <1>6, SafeStutter DEF send_to_reset, SendStep, listvars
<1>7. CASE thread_work_unlock(c) \/ thread_work_finish(c) \/ thread_work_exit(c)
  BY <1>7, SafeThread DEF thread_work_unlock, thread_work_finish, thread_work_exit
<1> QED
  BY <1>1, <1>2, <1>3, <1>4, <1>5, <1>6, <1>7 DEF Thread

LEMMA SafeClients ==
  ASSUME SafeInv, NEW c \in Conn,
         \/ client_connect(c) \/ client_send(c) \/ client_shutdown(c)
         \/ client_hangs_up(c)
  PROVE  SafeInv'
<1> USE DEF ClientStep, threads
<1>1. CASE client_send(c)
  BY <1>1, SafeStutter DEF client_send, listvars
<1>2. CASE client_shutdown(c)
  BY <1>2, SafeClient DEF client_shutdown, End
<1>3. CASE client_hangs_up(c)
  <2>1. PICK q \in {"closed", "reset"} : peer' = [peer EXCEPT ![c] = q]
    BY <1>3 DEF client_hangs_up
  <2> QED
    BY <1>3, <2>1, SafeClient DEF client_hangs_up, End
<1> QED
  BY <1>1, <1>2, <1>3, SafeConnect

LEMMA SafeNext == SafeInv /\ [Next]_vars => SafeInv'
<1> SUFFICES ASSUME SafeInv, [Next]_vars PROVE SafeInv'
  OBVIOUS
<1>1. CASE signal_handler \/ signal_default
  BY <1>1, SafeStutter DEF signal_handler, signal_default, SignalStep, threads,
     clients, listvars
<1>2. CASE stop_kills \/ start
  BY <1>2, SafeBlank DEF stop_kills, start
<1>3. CASE Ended \/ UNCHANGED vars
  BY <1>3, SafeStutter DEF Ended, vars, main, threads, clients, listvars
<1> QED
  BY <1>1, <1>2, <1>3, SafeMain, SafeClients, SafeThreads DEF Next

-----------------------------------------------------------------------------

\* The inductive invariant of the server's list: LIST_INSERT_HEAD, LIST_REMOVE
\* and free keep it linked and in one row, and accept makes one entry and
\* one thread for a connection, over all restarts.
THEOREM ListInvariant == Spec => []SafeInv
BY SafeInit, SafeNext, PTL DEF Spec

\* thread_work reads its thread_info_t up to close, and clean_threads frees it
\* only after pthread_join: nobody uses a freed one.
THEOREM ServerMemorySafe == Spec => []NoUseAfterFree
<1>1. SafeInv => NoUseAfterFree
  BY DEF SafeInv
<1> QED
  BY <1>1, ListInvariant, PTL

-----------------------------------------------------------------------------
(* What is left when main returns.  Nothing, because the final walk removes*)
(* the first entry until there is none, and what a thread owns (descriptor,*)
(* mutex, seekto_arg) it gives back at a place of its own.                 *)

HasFd   == {"start", "recv", "seek", "send", "unlocked", "finished", "stillborn"}
HasLock == {"recv", "seek", "send"}
HasArg  == {"recv", "seek"}

\* Who owns what.
Owned ==
  /\ fds \in SUBSET Conn /\ \A c \in fds : pc[c] \in HasFd
  /\ \A c \in Conn : pc[c] \in HasLock => fptr_mutex = c
  /\ fptr_mutex # NULL => fptr_mutex \in Conn /\ pc[fptr_mutex] \in HasLock
  /\ seekto_arg # NULL => fptr_mutex # NULL /\ pc[fptr_mutex] \in HasArg
  /\ CharDevice => file = NULL

\* The final walk is always at the first entry.
AtFirst == mpc = "final" => datap = LIST_FIRST(head)

ExitInv == SafeInv /\ Owned /\ AtFirst /\ CleanExit

LEMMA ExitInit == Init => ExitInv
<1> SUFFICES ASSUME Init PROVE ExitInv
  OBVIOUS
<1>1. Owned
  BY DEF Init, Owned, HasLock
<1>2. AtFirst /\ CleanExit
  BY DEF Init, AtFirst, CleanExit
<1> QED
  BY <1>1, <1>2, SafeInit DEF ExitInv

ownvars == <<pc, fds, fptr_mutex, seekto_arg, file>>

LEMMA OwnedStutter == Owned /\ UNCHANGED ownvars => Owned'
BY DEF Owned, ownvars, CharDevice

LEMMA OwnedMain ==
  ASSUME SafeInv, Owned, Main
  PROVE  Owned'
<1> USE DEF MainStep, OnlyMain, threads, stdio, device, ownvars
<1>1. CASE \/ handle_flags \/ daemon \/ set_signal_handler
           \/ get_listener \/ listen \/ reap_dead_processes
  BY <1>1, OwnedStutter DEF handle_flags, daemon, set_signal_handler, get_listener,
     listen, reap_dead_processes, Startup
<1>2. CASE \/ startup_fails \/ get_listener_fails \/ join_stillborn
  BY <1>2, OwnedStutter DEF startup_fails, get_listener_fails, join_stillborn, vars
<1>3. CASE \/ poll \/ accept_fails \/ clean_threads_done \/ loop_test \/ no_request
           \/ clean_threads_skip \/ clean_threads
  BY <1>3, OwnedStutter DEF poll, accept_fails, clean_threads_done, loop_test,
     no_request, clean_threads_skip, clean_threads
<1>4. CASE main_exit
  BY <1>4 DEF main_exit, FileAtExit, Owned, CharDevice
<1>5. CASE accept
  <2> DEFINE c == Head(backlog)
  <2>1. /\ backlog # << >> /\ fds' = fds \cup {c}
        /\ UNCHANGED <<fptr_mutex, seekto_arg, file>>
    BY <1>5 DEF accept
  <2>2. PICK born \in {"start", "stillborn"} : pc' = [pc EXCEPT ![c] = born]
    BY <1>5 DEF accept, pthread_create
  <2>3. c \in Conn /\ pc[c] = "none"
    BY <2>1 DEF SafeInv, ListTypes, Queued
  <2> HIDE DEF c
  <2>4. pc \in [Conn -> Place]
    BY DEF SafeInv, ListTypes
  <2> QED
    BY <2>1, <2>2, <2>3, <2>4 DEF Owned, HasFd, HasLock, HasArg, CharDevice
<1> QED
  BY <1>1, <1>2, <1>3, <1>4, <1>5 DEF Main

LEMMA OwnedThread ==
  ASSUME SafeInv, Owned, NEW c \in Conn, Thread(c)
  PROVE  Owned'
<1> USE DEF ThreadStep, HasFd, HasLock, HasArg
<1>0. pc \in [Conn -> Place] /\ c # NULL
  BY ConnAssumption DEF SafeInv, ListTypes
<1>1. CASE thread_work_open(c)
  <2>1. /\ pc[c] = "start" /\ pc' = [pc EXCEPT ![c] = "recv"]
        /\ fptr_mutex = NULL /\ fptr_mutex' = c /\ UNCHANGED <<fds, seekto_arg>>
        /\ CharDevice => file' = file
    BY <1>1 DEF thread_work_open, Lockable, Opened
  <2>2. seekto_arg = NULL /\ \A d \in Conn : pc[d] \notin HasLock
    BY <2>1, ConnAssumption DEF Owned
  <2> QED
    BY <1>0, <2>1, <2>2 DEF Owned, CharDevice
<1>2. CASE thread_work_open_fails(c)
  BY <1>2, OwnedStutter DEF thread_work_open_fails, threads, stdio, device, ownvars
<1>3. CASE recv_data(c) \/ recv_eof(c) \/ recv_error(c)
  <2>1. PICK n : AfterRecv(c, n)
    BY <1>3 DEF recv_data, recv_eof, recv_error
  <2>2. PICK p \in HasArg : pc' = [pc EXCEPT ![c] = p]
    BY <2>1 DEF AfterRecv
  <2>3. pc[c] = "recv" /\ UNCHANGED <<fds, fptr_mutex, file>>
    BY <1>3 DEF recv_data, recv_eof, recv_error, RecvStep, device
  <2>4. fptr_mutex = c
    BY <2>3 DEF Owned
  <2> QED
    BY <1>0, <2>2, <2>3, <2>4 DEF Owned, CharDevice
<1>4. CASE send_file(c)
  <2>1. /\ pc[c] = "seek" /\ pc' = [pc EXCEPT ![c] = "send"]
        /\ seekto_arg' = NULL /\ UNCHANGED <<fds, fptr_mutex>>
    BY <1>4 DEF send_file, ArgAfter
  <2>2. CharDevice => file' = file
    BY <1>4 DEF send_file, Flush, device
  <2> QED
    BY <1>0, <2>1, <2>2 DEF Owned, CharDevice
<1>5. CASE send_turn(c) \/ send_to_reset(c)
  BY <1>5, OwnedStutter DEF send_turn, send_to_reset, SendStep, threads, stdio,
     device, ownvars
<1>6. CASE thread_work_unlock(c)
  BY <1>0, <1>6 DEF thread_work_unlock, MutexAfter, device, Owned, CharDevice
<1>7. CASE thread_work_finish(c)
  BY <1>0, <1>7 DEF thread_work_finish, stdio, device, Owned, CharDevice
<1>8. CASE thread_work_exit(c)
  BY <1>0, <1>8 DEF thread_work_exit, FdsAfter, stdio, device, Owned, CharDevice
<1> QED
  BY <1>1, <1>2, <1>3, <1>4, <1>5, <1>6, <1>7, <1>8 DEF Thread

LEMMA OwnedBlank ==
  ASSUME Owned, NEW p, Blank(p)
  PROVE  Owned'
BY DEF Blank, device, Owned, HasLock, CharDevice

LEMMA OwnedNext == SafeInv /\ Owned /\ [Next]_vars => Owned'
<1> SUFFICES ASSUME SafeInv, Owned, [Next]_vars PROVE Owned'
  OBVIOUS
<1> USE DEF threads, stdio, device, ownvars
<1>1. CASE signal_handler \/ signal_default
  BY <1>1, OwnedStutter DEF signal_handler, signal_default, SignalStep
<1>2. CASE stop_kills \/ start
  BY <1>2, OwnedBlank DEF stop_kills, start
<1>3. ASSUME NEW c \in Conn, \/ client_connect(c) \/ client_send(c)
                             \/ client_shutdown(c) \/ client_hangs_up(c)
      PROVE  Owned'
  BY <1>3, OwnedStutter DEF client_connect, client_send, client_shutdown,
     client_hangs_up, ClientStep
<1>4. CASE Ended \/ UNCHANGED vars
  BY <1>4, OwnedStutter DEF Ended, vars
<1> QED
  BY <1>1, <1>2, <1>3, <1>4, OwnedMain, OwnedThread DEF Next

LEMMA AtFirstNext == SafeInv /\ AtFirst /\ [Next]_vars => AtFirst'
<1> SUFFICES ASSUME SafeInv, AtFirst, [Next]_vars, mpc' = "final"
             PROVE  datap' = LIST_FIRST(head')
  BY DEF AtFirst, LIST_FIRST
<1>1. CASE UNCHANGED <<mpc, datap, head>>
  BY <1>1 DEF AtFirst
<1>2. CASE loop_test
  BY <1>2 DEF loop_test
<1>3. CASE clean_threads_skip
  BY <1>3 DEF clean_threads_skip, Cleaned, wait
<1>4. CASE clean_threads
  <2>1. /\ datap # NULL /\ mpc = "final" /\ datap = head.lh_first
        /\ datap' = head.le_next[datap]
        /\ head' = Free(LIST_REMOVE(head, datap), datap)
    BY <1>4 DEF clean_threads, AtFirst, LIST_FIRST, LIST_NEXT
  <2>2. datap \in Conn /\ head \in LIST_HEAD /\ head.le_prev[datap] = "lh_first"
    BY <2>1 DEF SafeInv, ListTypes, Listed, Linked
  <2>3. head'.lh_first = head.le_next[datap]
    BY <2>1, <2>2, ConnAssumption
       DEF LIST_HEAD, Free, LIST_REMOVE, Store, SetPrev
  <2> QED
    BY <2>1, <2>3 DEF LIST_FIRST
<1>5. CASE Main /\ ~loop_test /\ ~clean_threads_skip /\ ~clean_threads
  <2> USE DEF MainStep, OnlyMain, main
  <2>1. CASE \/ handle_flags \/ daemon \/ set_signal_handler
             \/ get_listener \/ listen \/ reap_dead_processes
    BY <2>1 DEF handle_flags, daemon, set_signal_handler, get_listener, listen,
       reap_dead_processes, Startup
  <2>2. CASE \/ startup_fails \/ get_listener_fails \/ join_stillborn \/ main_exit
    BY <1>1, <2>2 DEF startup_fails, get_listener_fails, join_stillborn, main_exit, vars
  <2>3. CASE poll \/ no_request \/ accept \/ accept_fails \/ clean_threads_done
    BY <2>3 DEF poll, no_request, AfterNoRequest, accept, accept_fails, clean_threads_done
  <2> QED
    BY <1>5, <2>1, <2>2, <2>3 DEF Main
<1>6. CASE signal_handler \/ signal_default
  BY <1>1, <1>6 DEF signal_handler, signal_default, SignalStep
<1>7. CASE stop_kills \/ start
  BY <1>7 DEF stop_kills, start, Blank
<1>8. ASSUME NEW c \in Conn, \/ client_connect(c) \/ client_send(c)
                             \/ client_shutdown(c) \/ client_hangs_up(c)
      PROVE  UNCHANGED <<mpc, datap, head>>
  BY <1>8 DEF client_connect, client_send, client_shutdown, client_hangs_up, ClientStep
<1>9. ASSUME NEW c \in Conn, Thread(c)
      PROVE  UNCHANGED <<mpc, datap, head>>
  BY <1>9 DEF Thread, thread_work_open, thread_work_open_fails, recv_data, recv_eof,
     recv_error, RecvStep, send_file, send_turn, send_to_reset, SendStep,
     thread_work_unlock, thread_work_finish, thread_work_exit, ThreadStep, main
<1>10. CASE Ended \/ UNCHANGED vars
  BY <1>1, <1>10 DEF Ended, vars, main
<1> QED
  BY <1>1, <1>2, <1>3, <1>4, <1>5, <1>6, <1>7, <1>8, <1>9, <1>10 DEF Next

\* Only main's return ends the process in order.
LEMMA OnlyExit ==
  ASSUME [Next]_vars, proc' = "exited"
  PROVE  main_exit \/ UNCHANGED vars
<1>1. CASE signal_handler \/ signal_default
  BY <1>1 DEF signal_handler, signal_default, SignalStep, Running
<1>2. CASE stop_kills \/ start
  BY <1>2 DEF stop_kills, start, Blank
<1>3. ASSUME NEW c \in Conn, \/ client_connect(c) \/ client_send(c)
                             \/ client_shutdown(c) \/ client_hangs_up(c)
      PROVE  FALSE
  BY <1>3 DEF client_connect, client_send, client_shutdown, client_hangs_up,
     ClientStep, Running
<1>4. ASSUME NEW c \in Conn, Thread(c)
      PROVE  FALSE
  BY <1>4 DEF Thread, thread_work_open, thread_work_open_fails, recv_data, recv_eof,
     recv_error, RecvStep, send_file, send_turn, send_to_reset, SendStep,
     thread_work_unlock, thread_work_finish, thread_work_exit, ThreadStep, Running
<1>5. CASE Main /\ ~main_exit
  <2> USE DEF MainStep, OnlyMain, Running
  <2>1. CASE \/ handle_flags \/ daemon \/ set_signal_handler
             \/ get_listener \/ listen \/ reap_dead_processes
    BY <2>1 DEF handle_flags, daemon, set_signal_handler, get_listener, listen,
       reap_dead_processes, Startup
  <2>2. CASE \/ startup_fails \/ get_listener_fails \/ join_stillborn
    BY <2>2 DEF startup_fails, get_listener_fails, join_stillborn, vars
  <2>3. CASE \/ poll \/ no_request \/ accept \/ accept_fails \/ clean_threads_done
             \/ loop_test \/ clean_threads_skip \/ clean_threads
    BY <2>3 DEF poll, no_request, accept, accept_fails, clean_threads_done,
       loop_test, clean_threads_skip, clean_threads
  <2> QED
    BY <1>5, <2>1, <2>2, <2>3 DEF Main
<1> QED
  BY <1>1, <1>2, <1>3, <1>4, <1>5 DEF Next, Ended

\* main returns when the final walk has come to the end of the list.
LEMMA MainExitIsClean ==
  ASSUME SafeInv, Owned, AtFirst, main_exit
  PROVE  CleanExit'
<1>1. /\ mpc = "final" /\ datap = NULL
      /\ UNCHANGED <<pc, tinfo, fds, fptr_mutex, seekto_arg>>
      /\ file' = IF CharDevice THEN file ELSE NULL
  BY DEF main_exit, FileAtExit, MainStep, threads, stdio
<1>2. tinfo = {}
  <2>1. head.lh_first = NULL
    BY <1>1 DEF AtFirst, LIST_FIRST
  <2> QED
    BY <2>1, LP!NothingBeside DEF SafeInv, Listed
<1>3. \A c \in Conn : pc[c] \in {"none", "exited", "stillborn", "cut"}
  BY <1>2 DEF SafeInv, NoUseAfterFree
<1>4. /\ \A c \in fds : pc[c] = "stillborn"
      /\ fptr_mutex = NULL /\ seekto_arg = NULL /\ file' = NULL
  BY <1>1, <1>3 DEF Owned, HasFd, HasLock, HasArg
<1> QED
  BY <1>1, <1>2, <1>3, <1>4 DEF CleanExit

LEMMA ExitNext == ExitInv /\ [Next]_vars => ExitInv'
<1> SUFFICES ASSUME ExitInv, [Next]_vars PROVE CleanExit'
  BY SafeNext, OwnedNext, AtFirstNext DEF ExitInv
<1>1. CASE UNCHANGED vars
  BY <1>1 DEF ExitInv, CleanExit, vars, threads, stdio, device
<1>2. CASE main_exit
  BY <1>2, MainExitIsClean DEF ExitInv
<1>3. CASE proc' # "exited"
  BY <1>3 DEF CleanExit
<1> QED
  BY <1>1, <1>2, <1>3, OnlyExit

\* Whenever main returns, every thread has ended and every thread_info_t, the
\* mutex, seekto_arg and all descriptors (but those of connections whose
\* pthread_create failed) are given back, and the file is gone.
THEOREM ServerExitsClean == Spec => []CleanExit
<1>1. ExitInv => CleanExit
  BY DEF ExitInv
<1> QED
  BY <1>1, ExitInit, ExitNext, PTL DEF Spec

-----------------------------------------------------------------------------
(* LIST_FOREACH visits the entries of an ordered list, each in its turn.   *)

LEMMA VisitedExact ==
  ASSUME NEW l \in LIST_HEAD, NEW S \in SUBSET Conn, Linked(l, S), LP!Ordered(l, S)
  PROVE  Visited(l) = S
<1> DEFINE N == Cardinality(Conn)
           V == Conn \cup {NULL}
           Step(p) == IF p = NULL THEN NULL ELSE l.le_next[p]
           Rec(g) == g = [i \in 1 .. N |-> IF i = 1 THEN l.lh_first
                            ELSE IF g[i - 1] = NULL THEN NULL ELSE l.le_next[g[i - 1]]]
           at == CHOOSE g : Rec(g)
<1>1. N \in Nat /\ IsFiniteSet(S)
  BY ConnAssumption, FS_CardinalityType, FS_Subset
<1>2. l.lh_first \in V /\ \A p \in V : Step(p) \in V
  BY DEF LIST_HEAD
<1>3. \E g : Rec(g)
  <2> DEFINE G == [i \in 1 .. N |-> [p \in V |-> Step(p)]]
  <2>1. G \in [1 .. N -> [V -> V]]
    BY <1>2
  <2>2. PICK f : Recurs(f, N, V, l.lh_first, G)
    <3> HIDE DEF G, V, N
    <3> QED
      BY <1>1, <1>2, <2>1, Recursion
  <2>3. /\ f \in [0 .. N -> V] /\ f[0] = l.lh_first
        /\ \A i \in 1 .. N : f[i] = Step(f[i - 1])
    <3>1. /\ f \in [0 .. N -> V] /\ f[0] = l.lh_first
          /\ \A i \in 1 .. N : f[i] = G[i][f[i - 1]]
      BY <2>2 DEF Recurs
    <3>2. ASSUME NEW i \in 1 .. N PROVE f[i] = Step(f[i - 1])
      <4>1. i - 1 \in 0 .. N
        BY <1>1
      <4>2. f[i - 1] \in V
        BY <3>1, <4>1
      <4> HIDE DEF V, N, Step
      <4> QED
        BY <3>1, <4>2
    <3> QED
      BY <3>1, <3>2
  <2> DEFINE g == [i \in 1 .. N |-> f[i - 1]]
  <2>4. ASSUME NEW i \in 1 .. N
        PROVE  g[i] = IF i = 1 THEN l.lh_first ELSE Step(g[i - 1])
    <3>1. CASE i = 1
      BY <2>3, <3>1
    <3>2. CASE i # 1
      <4>1. i - 1 \in 1 .. N /\ g[i - 1] = f[(i - 1) - 1] /\ g[i] = f[i - 1]
        BY <1>1, <3>2
      <4> HIDE DEF g, Step
      <4> QED
        BY <2>3, <3>2, <4>1
    <3> QED
      BY <3>1, <3>2
  <2>5. g = [i \in 1 .. N |-> IF i = 1 THEN l.lh_first ELSE Step(g[i - 1])]
    <3>1. g = [i \in 1 .. N |-> g[i]]
      OBVIOUS
    <3> HIDE DEF g, Step, N
    <3> QED
      BY <2>4, <3>1
  <2>6. Rec(g)
    BY <2>5
  <2> HIDE DEF g, Rec
  <2> QED
    BY <2>6
<1>4. Rec(at)
  <2> HIDE DEF Rec
  <2> QED
    BY <1>3
<1>5. Visited(l) = {at[i] : i \in 1 .. N} \ {NULL}
  <2>1. Visited(l) = {at[i] : i \in DOMAIN at} \ {NULL}
    BY DEF Visited
  <2>2. DOMAIN at = 1 .. N
    <3> HIDE DEF at, N
    <3> QED
      BY <1>4
  <2> HIDE DEF at, N
  <2> QED
    BY <2>1, <2>2
<1> HIDE DEF at
<1>6. /\ N > 0 => at[1] = l.lh_first
      /\ \A i \in 1 .. N - 1 : at[i + 1] = Step(at[i])
  <2>1. ASSUME NEW j \in 1 .. N PROVE at[j] = IF j = 1 THEN l.lh_first ELSE Step(at[j - 1])
    <3> HIDE DEF N
    <3> QED
      BY <1>4
  <2>2. ASSUME NEW i \in 1 .. N - 1 PROVE at[i + 1] = Step(at[i])
    <3>1. i + 1 \in 1 .. N /\ i + 1 # 1 /\ (i + 1) - 1 = i
      BY <1>1
    <3> HIDE DEF N, Step
    <3> QED
      BY <2>1, <3>1
  <2>3. N > 0 => 1 \in 1 .. N
    BY <1>1
  <2> HIDE DEF N
  <2> QED
    BY <2>1, <2>2, <2>3
<1>7. \A n \in Nat : n + 1 <= N => at[n + 1] \in S \cup {NULL}
  <2> DEFINE T == {n \in Nat : n + 1 <= N => at[n + 1] \in S \cup {NULL}}
  <2>1. 0 \in T
    BY <1>1, <1>6 DEF Linked
  <2>2. ASSUME NEW n \in Nat, n \in T, (n + 1) + 1 <= N
        PROVE  at[(n + 1) + 1] \in S \cup {NULL}
    <3>1. n + 1 \in 1 .. N - 1 /\ n + 1 <= N
      BY <1>1, <2>2
    <3>2. at[(n + 1) + 1] = Step(at[n + 1]) /\ at[n + 1] \in S \cup {NULL}
      BY <1>6, <2>2, <3>1
    <3> QED
      BY <3>2 DEF Linked
  <2>3. \A n \in Nat : n \in T => n + 1 \in T
    BY <2>2
  <2>4. \A n \in Nat : n \in T
    <3> HIDE DEF T
    <3> QED
      BY <2>1, <2>3, NatInduct
  <2> QED
    BY <2>4
<1>8. PICK rank \in [Conn -> Int] : LP!Sorts(l, S, rank)
  BY DEF LP!Ordered
<1> DEFINE Up(e) == {f \in S : rank[e] <= rank[f]}
<1>9. \A e \in S : /\ IsFiniteSet(Up(e)) /\ Cardinality(Up(e)) \in Nat
                   /\ Cardinality(Up(e)) <= N /\ Cardinality(Up(e)) > 0
  <2> SUFFICES ASSUME NEW e \in S
               PROVE  /\ IsFiniteSet(Up(e)) /\ Cardinality(Up(e)) \in Nat
                      /\ Cardinality(Up(e)) <= N /\ Cardinality(Up(e)) > 0
    OBVIOUS
  <2>1. Up(e) \in SUBSET Conn /\ e \in Up(e)
    OBVIOUS
  <2> HIDE DEF Up
  <2>2. IsFiniteSet(Up(e)) /\ Cardinality(Up(e)) <= N /\ Cardinality(Up(e)) \in Nat
    BY <2>1, ConnAssumption, FS_Subset, FS_CardinalityType
  <2>3. Cardinality(Up(e)) # 0
    BY <2>1, <2>2, FS_EmptySet
  <2> QED
    BY <2>2, <2>3
<1>10. ASSUME NEW e \in S
       PROVE  \/ e = l.lh_first /\ Cardinality(Up(e)) = 1
              \/ \E p \in S : l.le_next[p] = e /\ Cardinality(Up(e)) = Cardinality(Up(p)) + 1
  <2>1. CASE l.le_prev[e] = "lh_first"
    <3>1. e = l.lh_first
      BY <2>1 DEF Linked, Deref
    <3>2. Up(e) = {e}
      BY <1>8, <3>1 DEF LP!Sorts
    <3> HIDE DEF Up
    <3> QED
      BY <3>1, <3>2, FS_Singleton
  <2>2. CASE l.le_prev[e] # "lh_first"
    <3> DEFINE p == l.le_prev[e]
    <3>1. p \in S /\ l.le_next[p] = e
      BY <2>2 DEF Linked, Deref
    <3>2. e # NULL
      BY ConnAssumption
    <3> HIDE DEF p
    <3>3. \A f \in S : rank[f] < rank[p] <=> rank[f] <= rank[e]
      BY <1>8, <3>1, <3>2 DEF LP!Sorts
    <3>4. e \notin Up(p)
      BY <3>1, <3>3
    <3>5. Up(e) = Up(p) \cup {e}
      <4>1. ASSUME NEW f \in S, rank[e] <= rank[f], f # e PROVE rank[p] <= rank[f]
        <5>1. rank[f] # rank[e]
          BY <1>8, <4>1 DEF LP!Sorts
        <5> QED
          BY <3>1, <3>3, <4>1, <5>1
      <4>2. ASSUME NEW f \in S, rank[p] <= rank[f] PROVE rank[e] <= rank[f]
        BY <3>1, <3>3, <4>2
      <4> QED
        BY <4>1, <4>2
    <3> HIDE DEF Up
    <3>6. Cardinality(Up(e)) = Cardinality(Up(p)) + 1
      <4>1. IsFiniteSet(Up(p))
        BY <1>9, <3>1
      <4>2. Cardinality(Up(p) \cup {e}) = Cardinality(Up(p)) + 1
        BY <3>4, <4>1, FS_AddElement
      <4> QED
        BY <3>5, <4>2
    <3> QED
      BY <3>1, <3>6
  <2> QED
    BY <2>1, <2>2
<1> HIDE DEF Up
<1>11. \A n \in Nat : \A e \in S : Cardinality(Up(e)) = n + 1 => at[n + 1] = e
  <2> DEFINE T == {n \in Nat : \A e \in S : Cardinality(Up(e)) = n + 1 => at[n + 1] = e}
  <2>1. ASSUME NEW e \in S, Cardinality(Up(e)) = 1 PROVE at[1] = e
    <3>1. ASSUME NEW p \in S PROVE Cardinality(Up(e)) # Cardinality(Up(p)) + 1
      BY <1>9, <2>1
    <3>2. N > 0
      BY <1>1, <1>9
    <3> QED
      BY <1>6, <1>10, <3>1, <3>2
  <2>2. ASSUME NEW n \in Nat, n \in T, NEW e \in S, Cardinality(Up(e)) = (n + 1) + 1
        PROVE  at[(n + 1) + 1] = e
    <3>1. PICK p \in S : l.le_next[p] = e /\ Cardinality(Up(e)) = Cardinality(Up(p)) + 1
      BY <1>10, <2>2
    <3>2. Cardinality(Up(p)) = n + 1
      BY <1>9, <2>2, <3>1
    <3>3. at[n + 1] = p
      BY <2>2, <3>2
    <3>4. n + 1 \in 1 .. N - 1
      BY <1>1, <1>9, <2>2
    <3>5. at[(n + 1) + 1] = Step(p)
      BY <1>6, <3>3, <3>4
    <3> QED
      BY <3>1, <3>5, ConnAssumption
  <2>3. 0 \in T
    BY <2>1
  <2>4. \A n \in Nat : n \in T => n + 1 \in T
    BY <2>2
  <2>5. \A n \in Nat : n \in T
    <3> HIDE DEF T
    <3> QED
      BY <2>3, <2>4, NatInduct
  <2> QED
    BY <2>5
<1>12. ASSUME NEW e \in S PROVE \E i \in 1 .. N : at[i] = e
  <2> DEFINE i == Cardinality(Up(e))
  <2>1. i \in Nat /\ i > 0 /\ i <= N
    BY <1>9
  <2>2. i - 1 \in Nat /\ i = (i - 1) + 1 /\ i \in 1 .. N
    BY <1>1, <2>1
  <2> HIDE DEF i
  <2>3. at[(i - 1) + 1] = e
    <3>1. Cardinality(Up(e)) = (i - 1) + 1
      BY <2>2 DEF i
    <3> QED
      BY <1>11, <2>2, <3>1
  <2> QED
    BY <2>2, <2>3
<1>13. ASSUME NEW i \in 1 .. N PROVE at[i] \in S \cup {NULL}
  <2>1. i - 1 \in Nat /\ (i - 1) + 1 = i /\ (i - 1) + 1 <= N
    BY <1>1
  <2>2. at[(i - 1) + 1] \in S \cup {NULL}
    BY <1>7, <2>1
  <2> QED
    BY <2>1, <2>2
<1>14. NULL \notin S
  BY ConnAssumption
<1> HIDE DEF N
<1> QED
  BY <1>5, <1>12, <1>13, <1>14

\* clean_threads finds every entry that is not freed and no other, in each of its
\* walks, and can remove any of them: the list of the server is never cut or
\* turned into a cycle.
THEOREM ServerListExact == Spec => []ListIsExact
<1>1. SafeInv => ListIsExact
  BY VisitedExact DEF SafeInv, ListTypes, Listed, ListIsExact
<1> QED
  BY <1>1, ListInvariant, PTL
-----------------------------------------------------------------------------
(* The other invariants look at a step from further away: most of main's   *)
(* steps, and the signals, touch none of the text.                         *)

textvars == <<pc, peer, fptr_mutex, wbuf, seekto_arg, resp, nsent, taken, sent,
              buffer, partial, file>>

Quiet ==
  /\ UNCHANGED textvars
  /\ proc' = proc \/ (Running /\ proc' \in {"SIGTERM", "failed", "SIGSEGV"})

Client(c) == \/ client_connect(c) \/ client_send(c)
             \/ client_shutdown(c) \/ client_hangs_up(c)

Receive(c) == recv_data(c) \/ recv_eof(c) \/ recv_error(c)

LEMMA Steps ==
  ASSUME [Next]_vars
  PROVE  \/ Quiet \/ accept \/ main_exit
         \/ Running /\ Blank("SIGKILL")
         \/ ~Running /\ Blank("running")
         \/ \E c \in Conn :
              \/ Client(c) \/ thread_work_open(c) \/ Receive(c) \/ send_file(c)
              \/ send_turn(c) \/ send_to_reset(c) \/ thread_work_unlock(c)
              \/ thread_work_finish(c) \/ thread_work_exit(c)
<1> USE DEF threads, stdio, answer, clients, device, textvars, Quiet
<1>1. CASE signal_handler \/ signal_default
  BY <1>1 DEF signal_handler, signal_default, SignalStep
<1>2. CASE stop_kills \/ start
  BY <1>2 DEF stop_kills, start
<1>3. CASE Main
  <2> USE DEF MainStep, OnlyMain
  <2>1. CASE \/ handle_flags \/ daemon \/ set_signal_handler
             \/ get_listener \/ listen \/ reap_dead_processes
    BY <2>1 DEF handle_flags, daemon, set_signal_handler, get_listener, listen,
       reap_dead_processes, Startup
  <2>2. CASE \/ startup_fails \/ get_listener_fails \/ join_stillborn
    BY <2>2 DEF startup_fails, get_listener_fails, join_stillborn, vars
  <2>3. CASE \/ poll \/ no_request \/ accept_fails \/ clean_threads_done
             \/ loop_test \/ clean_threads_skip \/ clean_threads
    BY <2>3 DEF poll, no_request, accept_fails, clean_threads_done,
       loop_test, clean_threads_skip, clean_threads
  <2> QED
    BY <1>3, <2>1, <2>2, <2>3 DEF Main
<1>4. ASSUME NEW c \in Conn, thread_work_open_fails(c) PROVE Quiet
  BY <1>4 DEF thread_work_open_fails, ThreadStep
<1>5. CASE Ended \/ UNCHANGED vars
  BY <1>5 DEF Ended, vars
<1> QED
  BY <1>1, <1>2, <1>3, <1>4, <1>5 DEF Next, Thread, Client, Receive

-----------------------------------------------------------------------------
(* What the steps do to the text.                                          *)

LEMMA MinOfTwo ==
  ASSUME NEW a \in Nat, NEW b \in Nat
  PROVE  Min({a, b}) = IF a <= b THEN a ELSE b
<1>1. {a, b} \in SUBSET Nat /\ {a, b} # {}
  OBVIOUS
<1>2. Min({a, b}) \in {a, b} /\ \A y \in {a, b} : Min({a, b}) <= y
  BY <1>1, NatMin
<1> QED
  BY <1>2

LEMMA SeekPosType ==
  ASSUME NEW P, NEW b \in BufferOf(P), NEW arg \in SeekArg \cup {NULL}
  PROVE  SeekPos(b, arg) \in Nat /\ SeekPos(b, NULL) = 0
<1> DEFINE Rec(g) == g = [i \in 0 .. MAX |->
                            IF i = 0 THEN 0 ELSE g[i - 1] + b.entry[i - 1].size]
           sum == CHOOSE g : Rec(g)
           G == [i \in 1 .. MAX |-> [x \in Nat |-> x + b.entry[i - 1].size]]
<1>1. /\ MAX \in Nat
      /\ \A i \in 1 .. MAX : i - 1 \in 0 .. MAX /\ b.entry[i - 1].size \in Nat
  BY MaxAssumption DEF BufferOf, EntryOf, Slots
<1>2. G \in [1 .. MAX -> [Nat -> Nat]]
  BY <1>1
<1>3. PICK f : Recurs(f, MAX, Nat, 0, G)
  <2> HIDE DEF G
  <2> QED
    BY <1>1, <1>2, Recursion
<1>4. f \in [0 .. MAX -> Nat] /\ f[0] = 0 /\ \A i \in 1 .. MAX : f[i] = G[i][f[i - 1]]
  BY <1>3 DEF Recurs
<1>5. Rec(f)
  <2>1. ASSUME NEW i \in 0 .. MAX
        PROVE  f[i] = IF i = 0 THEN 0 ELSE f[i - 1] + b.entry[i - 1].size
    <3>1. CASE i = 0
      BY <1>4, <3>1
    <3>2. CASE i # 0
      <4>1. i \in 1 .. MAX /\ f[i - 1] \in Nat
        BY <1>1, <1>4, <3>2
      <4> QED
        BY <1>4, <3>2, <4>1
    <3> QED
      BY <3>1, <3>2
  <2>2. f = [i \in 0 .. MAX |-> f[i]]
    BY <1>4
  <2> HIDE DEF G
  <2> QED
    BY <2>1, <2>2
<1>6. Rec(sum)
  <2> HIDE DEF Rec
  <2> QED
    BY <1>5
<1> HIDE DEF sum, G
<1>7. \A i \in 0 .. MAX : sum[i] = IF i = 0 THEN 0 ELSE sum[i - 1] + b.entry[i - 1].size
  BY <1>6
<1>8. sum[0] \in Nat
  <2>1. 0 \in 0 .. MAX
    BY <1>1
  <2> QED
    BY <1>7, <2>1
<1>9. ASSUME NEW i \in 1 .. MAX, sum[i - 1] \in Nat PROVE sum[i] \in Nat
  <2>1. i \in 0 .. MAX /\ i # 0
    BY <1>1
  <2>2. sum[i] = sum[i - 1] + b.entry[i - 1].size
    BY <1>7, <2>1
  <2> QED
    BY <1>1, <1>9, <2>2
<1>10. \A i \in 0 .. MAX : sum[i] \in Nat
  BY <1>1, <1>8, <1>9, RecursionRange
<1>11. SeekPos(b, arg) = IF ~CharDevice \/ arg = NULL THEN 0
                         ELSE sum[Min({arg.write_cmd, MAX})] + arg.write_cmd_offset
  BY DEF SeekPos, sum
<1>12. SeekPos(b, arg) \in Nat
  <2>1. CASE ~CharDevice \/ arg = NULL
    BY <1>11, <2>1
  <2>2. CASE ~(~CharDevice \/ arg = NULL)
    <3>1. arg.write_cmd \in Nat /\ arg.write_cmd_offset \in Nat
      BY <2>2, ClientAssumption
    <3>2. Min({arg.write_cmd, MAX}) \in 0 .. MAX
      BY <1>1, <3>1, MinOfTwo
    <3>3. sum[Min({arg.write_cmd, MAX})] \in Nat
      BY <1>10, <3>2
    <3> QED
      BY <1>11, <2>2, <3>1, <3>3
  <2> QED
    BY <2>1, <2>2
<1> QED
  BY <1>12 DEF SeekPos

\* What a reader sees of a well-formed buffer.
LEMMA LinesType ==
  ASSUME NEW b \in BufferOf(Seq(Bytes)), WellFormed(b)
  PROVE  /\ Lines(b) \in Seq(Seq(Bytes)) /\ Len(Lines(b)) = Count(b)
         /\ \A i \in 1 .. Count(b) : Lines(b)[i] = Log(b)[i].buffptr
<1>1. Count(b) \in 0 .. MAX /\ Count(b) \in Nat /\ MAX \in Nat
  BY CountValue, MaxAssumption
<1>2. ASSUME NEW i \in 1 .. Count(b) PROVE Log(b)[i].buffptr \in Seq(Bytes)
  <2>1. i - 1 \in Slots /\ i - 1 < Count(b)
    BY <1>1, MaxAssumption DEF Slots
  <2>2. b.entry[ReadSlot(b, i - 1)].buffptr # NULL
    BY <2>1 DEF WellFormed
  <2>3. Log(b)[i] \in EntryOf(Seq(Bytes)) /\ Log(b)[i] = b.entry[ReadSlot(b, i - 1)]
    <3>1. Log(b) \in Seq(EntryOf(Seq(Bytes))) /\ Len(Log(b)) = Count(b)
      BY LogIsSeq
    <3> QED
      BY <1>1, <3>1, LogIsSeq
  <2> QED
    BY <2>2, <2>3 DEF EntryOf
<1> QED
  BY <1>1, <1>2 DEF Lines

LEMMA VisibleType ==
  ASSUME NEW b \in BufferOf(Seq(Bytes)), WellFormed(b), NEW f \in Seq(Bytes) \cup {NULL}
  PROVE  Visible(b, f) \in Seq(Bytes)
BY LinesType, FlattenType DEF Visible

\* A line is added at the end, and when the buffer is full the oldest is lost.
LEMMA LinesAdd ==
  ASSUME NEW b \in BufferOf(Seq(Bytes)), WellFormed(b), NEW t \in Seq(Bytes)
  PROVE  LET c == aesd_circular_buffer_add_entry(b, [buffptr |-> t, size |-> Len(t)])
         IN  /\ c \in BufferOf(Seq(Bytes)) /\ WellFormed(c)
             /\ b.full => Lines(b) # << >> /\ Lines(c) = Append(Tail(Lines(b)), t)
             /\ ~b.full => Lines(c) = Append(Lines(b), t)
<1> DEFINE e == [buffptr |-> t, size |-> Len(t)]
           c == aesd_circular_buffer_add_entry(b, e)
           P == Seq(Bytes)
<1>1. e \in EntryOf(P) /\ e.buffptr = t /\ e.buffptr # NULL /\ NULL \notin P
  BY TextAssumption DEF EntryOf
<1> HIDE DEF e
<1>2. c \in BufferOf(P) /\ WellFormed(c)
  BY <1>1, AddEntryFields, AddEntryWellFormed
<1>3. /\ b.full => Len(Log(b)) = MAX /\ Log(c) = Append(Tail(Log(b)), e)
      /\ ~b.full => Log(c) = Append(Log(b), e)
  BY <1>1, AddEntryLog
<1> HIDE DEF c
<1>4. /\ Lines(b) \in Seq(Seq(Bytes)) /\ Len(Lines(b)) = Count(b)
      /\ \A i \in 1 .. Count(b) : Lines(b)[i] = Log(b)[i].buffptr
      /\ Lines(c) \in Seq(Seq(Bytes)) /\ Len(Lines(c)) = Count(c)
      /\ \A i \in 1 .. Count(c) : Lines(c)[i] = Log(c)[i].buffptr
  BY <1>2, LinesType
<1>5. /\ Log(b) \in Seq(EntryOf(P)) /\ Len(Log(b)) = Count(b) /\ Count(b) \in Nat
      /\ Log(c) \in Seq(EntryOf(P)) /\ Len(Log(c)) = Count(c)
  BY <1>2, LogIsSeq, CountValue, MaxAssumption
<1>6. CASE ~b.full
  <2> DEFINE r == Append(Lines(b), t)
  <2>1. /\ r \in Seq(Seq(Bytes)) /\ Len(r) = Count(b) + 1 /\ r[Count(b) + 1] = t
        /\ \A i \in 1 .. Count(b) : r[i] = Lines(b)[i]
    BY <1>4, AppendProperties
  <2>2. /\ Len(Log(c)) = Count(b) + 1 /\ Log(c)[Count(b) + 1] = e
        /\ \A i \in 1 .. Count(b) : Log(c)[i] = Log(b)[i]
    <3>1. Log(c) = Append(Log(b), e) /\ e \in EntryOf(P)
      BY <1>1, <1>3, <1>6
    <3> HIDE DEF P
    <3> QED
      BY <1>5, <3>1, AppendProperties
  <2> HIDE DEF r
  <2>3. ASSUME NEW i \in 1 .. Len(Lines(c)) PROVE Lines(c)[i] = r[i]
    <3>1. i \in 1 .. Count(c) /\ Count(c) = Count(b) + 1
      BY <1>4, <1>5, <2>2
    <3>2. Lines(c)[i] = Log(c)[i].buffptr
      BY <1>4, <3>1
    <3>3. CASE i = Count(b) + 1
      BY <1>1, <2>1, <2>2, <3>2, <3>3
    <3>4. CASE i # Count(b) + 1
      <4>1. i \in 1 .. Count(b)
        BY <1>5, <3>1, <3>4
      <4> QED
        BY <1>4, <2>1, <2>2, <3>2, <4>1
    <3> QED
      BY <3>3, <3>4
  <2>4. Len(Lines(c)) = Len(r)
    BY <1>4, <1>5, <2>1, <2>2
  <2>5. Lines(c) = r
    BY <1>4, <2>1, <2>3, <2>4, SeqEqual
  <2> QED
    BY <1>2, <1>6, <2>5 DEF r, c, e
<1>7. CASE b.full
  <2> DEFINE u == Tail(Lines(b))
             r == Append(u, t)
             n == Count(b) - 1
  <2>1. Count(b) = MAX /\ n \in Nat /\ Count(b) = n + 1
    BY <1>3, <1>5, <1>7, MaxAssumption
  <2>2. Lines(b) # << >> /\ Log(b) # << >>
    BY <1>4, <1>5, <2>1
  <2> HIDE DEF n
  <2>3. /\ u \in Seq(Seq(Bytes)) /\ Len(u) = n
        /\ \A i \in 1 .. n : u[i] = Lines(b)[i + 1]
    BY <1>4, <2>1, <2>2, HeadTailProperties
  <2> DEFINE v == Tail(Log(b))
  <2>4. /\ v \in Seq(EntryOf(P)) /\ Len(v) = n
        /\ \A i \in 1 .. n : v[i] = Log(b)[i + 1]
    BY <1>5, <2>1, <2>2, HeadTailProperties
  <2>5. Log(c) = Append(v, e)
    BY <1>3, <1>7
  <2> HIDE DEF u, v
  <2>6. /\ r \in Seq(Seq(Bytes)) /\ Len(r) = n + 1 /\ r[n + 1] = t
        /\ \A i \in 1 .. n : r[i] = u[i]
    BY <2>3, AppendProperties
  <2>7. /\ Len(Log(c)) = n + 1 /\ Log(c)[n + 1] = e
        /\ \A i \in 1 .. n : Log(c)[i] = v[i]
    BY <1>1, <2>4, <2>5, AppendProperties
  <2> HIDE DEF r
  <2>8. ASSUME NEW i \in 1 .. n + 1 PROVE Lines(c)[i] = r[i]
    <3>1. Lines(c)[i] = Log(c)[i].buffptr
      BY <1>4, <1>5, <2>7
    <3>2. CASE i = n + 1
      BY <1>1, <2>6, <2>7, <3>1, <3>2
    <3>3. CASE i # n + 1
      <4>1. i \in 1 .. n /\ i + 1 \in 1 .. Count(b)
        BY <2>1, <3>3
      <4>2. Log(c)[i] = Log(b)[i + 1] /\ r[i] = Lines(b)[i + 1]
        BY <2>3, <2>4, <2>6, <2>7, <4>1
      <4> QED
        BY <1>4, <3>1, <4>1, <4>2
    <3> QED
      BY <3>2, <3>3
  <2>9. Len(Lines(c)) = Len(r) /\ Len(r) = n + 1
    BY <1>4, <1>5, <2>6, <2>7
  <2>10. Lines(c) = r
    BY <1>4, <2>6, <2>8, <2>9, SeqEqual
  <2> QED
    BY <1>2, <1>7, <2>2, <2>10 DEF r, u, c, e
<1> QED
  BY <1>6, <1>7

DataTypes ==
  /\ wbuf \in Seq(Bytes) /\ seekto_arg \in SeekArg \cup {NULL}
  /\ resp \in [Conn -> Seq(Bytes)] /\ nsent \in [Conn -> Nat]
  /\ sent \in [Conn -> Nat] /\ taken \in [Conn -> Nat]
  /\ buffer \in BufferOf(Seq(Bytes)) /\ WellFormed(buffer)
  /\ partial \in Seq(Bytes) /\ file \in Seq(Bytes) \cup {NULL}
  /\ ~CharDevice => partial = << >> /\ (fptr_mutex # NULL => file # NULL)

\* The write of fseek adds the text of the stdio buffer at the end of what is
\* stored; at the beginning the oldest line may be lost.
LEMMA FlushStores ==
  ASSUME DataTypes, fptr_mutex # NULL, Flush
  PROVE  /\ buffer' \in BufferOf(Seq(Bytes)) /\ WellFormed(buffer')
         /\ partial' \in Seq(Bytes) /\ file' \in Seq(Bytes) \cup {NULL}
         /\ ~CharDevice => partial' = << >> /\ file' # NULL
         /\ CharDevice => file' = file
         /\ \E A, X \in Seq(Bytes) : Stored = A \o X /\ Stored' = X \o wbuf
         /\ wbuf # << >> /\ Kind(Last(wbuf)) = "nl" => partial' = << >>
<1> DEFINE bytes == partial \o wbuf
           V == Visible(buffer, file)
<1>0. /\ wbuf \in Seq(Bytes) /\ partial \in Seq(Bytes) /\ bytes \in Seq(Bytes)
      /\ buffer \in BufferOf(Seq(Bytes)) /\ WellFormed(buffer)
      /\ file \in Seq(Bytes) \cup {NULL} /\ V \in Seq(Bytes)
      /\ Stored \in Seq(Bytes) /\ Stored = V \o partial
  BY VisibleType, ConcatProperties DEF DataTypes, Stored
<1>1. wbuf # << >> => Last(bytes) = Last(wbuf)
  <2>1. Len(bytes) = Len(partial) + Len(wbuf) /\ Len(partial) \in Nat /\ Len(wbuf) \in Nat
    BY <1>0, ConcatProperties
  <2>2. wbuf # << >> => bytes[Len(bytes)] = wbuf[Len(wbuf)]
    BY <1>0, <2>1, ConcatProperties
  <2> QED
    BY <2>2 DEF Last
<1>2. << >> \in Seq(Bytes) /\ << >> \o Stored = Stored /\ Stored \o << >> = Stored
  BY <1>0, ConcatEmptySeq, EmptySeq
<1>3. (V \o partial) \o wbuf = V \o bytes
  <2>1. V \in Seq(Bytes) /\ partial \in Seq(Bytes) /\ wbuf \in Seq(Bytes)
    BY <1>0
  <2> HIDE DEF V
  <2> QED
    BY <2>1, ConcatAssociative
<1>4. CASE wbuf = << >>
  <2>1. UNCHANGED <<buffer, partial, file>>
    BY <1>4 DEF Flush, device
  <2>2. Stored' = Stored
    BY <2>1 DEF Stored, Visible
  <2>3. Stored = << >> \o Stored /\ Stored' = Stored \o wbuf
    BY <1>2, <1>4, <2>2
  <2> HIDE DEF bytes, V
  <2> QED
    BY <1>0, <1>2, <1>4, <2>1, <2>3 DEF DataTypes
<1>5. CASE wbuf # << >> /\ ~CharDevice
  <2>1. file' = file \o wbuf /\ UNCHANGED <<buffer, partial>>
    BY <1>5 DEF Flush
  <2>2. partial = << >> /\ file \in Seq(Bytes)
    BY <1>5 DEF DataTypes
  <2>3. file' \in Seq(Bytes) /\ file' # NULL /\ file # NULL
    <3>1. file \o wbuf \in Seq(Bytes)
      BY <1>0, <2>2, ConcatProperties
    <3> QED
      BY <2>1, <2>2, <3>1, TextAssumption
  <2>4. Stored' = file' \o << >> /\ Stored = file \o << >>
    BY <1>5, <2>1, <2>2, <2>3 DEF Stored, Visible, CharDevice
  <2>5. Stored' = file' /\ Stored = file
    BY <2>2, <2>3, <2>4, ConcatEmptySeq
  <2>6. Stored = << >> \o Stored /\ Stored' = Stored \o wbuf
    BY <1>2, <2>1, <2>5
  <2> HIDE DEF bytes, V
  <2> QED
    BY <1>0, <1>2, <1>5, <2>1, <2>2, <2>3, <2>6
<1>6. CASE wbuf # << >> /\ CharDevice /\ Kind(Last(bytes)) = "nl"
  <2>1. /\ buffer' = aesd_circular_buffer_add_entry(buffer,
                       [buffptr |-> bytes, size |-> Len(bytes)])
        /\ partial' = << >> /\ UNCHANGED file
    BY <1>6 DEF Flush
  <2> HIDE DEF bytes
  <2> DEFINE L == Lines(buffer)
  <2>2. /\ buffer' \in BufferOf(Seq(Bytes)) /\ WellFormed(buffer')
        /\ buffer.full => L # << >> /\ Lines(buffer') = Append(Tail(L), bytes)
        /\ ~buffer.full => Lines(buffer') = Append(L, bytes)
    BY <1>0, <2>1, LinesAdd
  <2>3. L \in Seq(Seq(Bytes)) /\ V = FlattenSeq(L)
    BY <1>0, <1>6, LinesType DEF Visible
  <2>4. Stored' = FlattenSeq(Lines(buffer')) /\ FlattenSeq(Lines(buffer')) \in Seq(Bytes)
    <3>1. FlattenSeq(Lines(buffer')) \in Seq(Bytes)
      BY <2>2, LinesType, FlattenType
    <3>2. Stored' = FlattenSeq(Lines(buffer')) \o << >>
      BY <1>6, <2>1 DEF Stored, Visible, CharDevice
    <3> QED
      BY <3>1, <3>2, ConcatEmptySeq
  <2> HIDE DEF L, V
  <2>5. \E A, X \in Seq(Bytes) : Stored = A \o X /\ Stored' = X \o wbuf
    <3>1. CASE ~buffer.full
      <4>1. Stored' = V \o bytes
        BY <1>0, <2>2, <2>3, <2>4, <3>1, FlattenAppend
      <4>2. Stored' = Stored \o wbuf
        BY <1>0, <1>3, <4>1
      <4> QED
        BY <1>0, <1>2, <4>2
    <3>2. CASE buffer.full
      <4> DEFINE F == FlattenSeq(Tail(L))
                 o == L[1]
      <4>1. L # << >> /\ Tail(L) \in Seq(Seq(Bytes))
        BY <2>2, <2>3, <3>2, HeadTailProperties
      <4>2. F \in Seq(Bytes)
        BY <4>1, FlattenType
      <4>3. o \in Seq(Bytes) /\ V = o \o F
        BY <2>3, <4>1, FlattenTail
      <4>4. Stored' = F \o bytes
        BY <1>0, <2>2, <2>4, <3>2, <4>1, FlattenAppend
      <4> HIDE DEF F, o
      <4>5. F \o partial \in Seq(Bytes) /\ (F \o partial) \o wbuf = F \o bytes
        <5>1. F \in Seq(Bytes) /\ partial \in Seq(Bytes) /\ wbuf \in Seq(Bytes)
          BY <1>0, <4>2
        <5> QED
          BY <5>1, ConcatProperties, ConcatAssociative DEF bytes
      <4>6. Stored = o \o (F \o partial)
        <5>1. o \in Seq(Bytes) /\ F \in Seq(Bytes) /\ partial \in Seq(Bytes)
          BY <1>0, <4>2, <4>3
        <5>2. (o \o F) \o partial = o \o (F \o partial)
          BY <5>1, ConcatAssociative
        <5> QED
          BY <1>0, <4>3, <5>2
      <4> QED
        BY <4>3, <4>4, <4>5, <4>6
    <3> QED
      BY <3>1, <3>2
  <2> QED
    BY <1>0, <1>6, <2>1, <2>2, <2>5, EmptySeq
<1>7. CASE wbuf # << >> /\ CharDevice /\ Kind(Last(bytes)) # "nl"
  <2>1. partial' = bytes /\ UNCHANGED <<buffer, file>>
    BY <1>7 DEF Flush
  <2>2. Stored' = V \o bytes
    BY <2>1 DEF Stored, Visible
  <2> HIDE DEF bytes, V
  <2>3. Stored' = Stored \o wbuf
    BY <1>0, <1>3, <2>2
  <2> QED
    BY <1>0, <1>1, <1>2, <1>7, <2>1, <2>3
<1> QED
  BY <1>4, <1>5, <1>6, <1>7

\* recv_data takes the next n bytes of its client, one at least.
LEMMA RecvTakes ==
  ASSUME DataTypes, NEW c \in Conn, recv_data(c)
  PROVE  \E n \in Nat \ {0} : \E r \in Seq(Bytes) :
           /\ Len(r) = n /\ \A i \in 1 .. n : r[i] = <<c, taken[c] + i>>
           /\ taken[c] + n <= sent[c] /\ taken' = [taken EXCEPT ![c] = @ + n]
           /\ pc' = [pc EXCEPT ![c] = IF n = MAXDATASIZE THEN "recv" ELSE "seek"]
           /\ IF Kind(<<c, taken[c] + 1>>) = "cmd"
              THEN seekto_arg' = Arg[c] /\ UNCHANGED wbuf
              ELSE wbuf' = wbuf \o r /\ UNCHANGED seekto_arg
<1> DEFINE n == Min({sent[c] - taken[c], MAXDATASIZE})
           r == [i \in 1 .. n |-> <<c, taken[c] + i>>]
<1>1. /\ taken[c] < sent[c] /\ taken[c] \in Nat /\ sent[c] \in Nat
      /\ IF Kind(r[1]) = "cmd"
         THEN seekto_arg' = Arg[c] /\ UNCHANGED wbuf
         ELSE wbuf' = wbuf \o r /\ UNCHANGED seekto_arg
      /\ taken' = [taken EXCEPT ![c] = @ + n]
      /\ AfterRecv(c, n)
  BY DEF recv_data, DataTypes
<1>2. sent[c] - taken[c] \in Nat \ {0} /\ MAXDATASIZE \in Nat \ {0}
  BY <1>1, SizeAssumption
<1>3. n \in Nat \ {0} /\ n <= sent[c] - taken[c]
  BY <1>2, MinOfTwo
<1> HIDE DEF n
<1>4. r \in Seq(Bytes) /\ Len(r) = n /\ \A i \in 1 .. n : r[i] = <<c, taken[c] + i>>
  <2>1. \A i \in 1 .. n : <<c, taken[c] + i>> \in Bytes
    BY <1>1, <1>3 DEF Bytes
  <2> QED
    BY <1>3, <2>1
<1>5. r[1] = <<c, taken[c] + 1>>
  BY <1>3, <1>4
<1>6. taken[c] + n <= sent[c]
  BY <1>1, <1>3
<1> HIDE DEF r
<1> QED
  BY <1>1, <1>3, <1>4, <1>5, <1>6 DEF AfterRecv

\* An answer is a sequence of bytes.
LEMMA AnswerType ==
  ASSUME DataTypes, NEW b \in BufferOf(Seq(Bytes)), WellFormed(b),
         NEW f \in Seq(Bytes) \cup {NULL}
  PROVE  SubSeq(Visible(b, f), SeekPos(b, seekto_arg) + 1, Len(Visible(b, f))) \in Seq(Bytes)
<1> DEFINE all == Visible(b, f)
           m == SeekPos(b, seekto_arg) + 1
<1>1. all \in Seq(Bytes)
  BY VisibleType
<1>2. m \in Nat /\ m > 0
  <2>1. SeekPos(b, seekto_arg) \in Nat
    BY SeekPosType DEF DataTypes
  <2> QED
    BY <2>1
<1> HIDE DEF all, m
<1>3. m \in Int /\ Len(all) \in Int /\ \A i \in m .. Len(all) : all[i] \in Bytes
  BY <1>1, <1>2, ElementOfSeq
<1>4. SubSeq(all, m, Len(all)) \in Seq(Bytes)
  BY <1>3, SubSeqProperties
<1> QED
  BY <1>4 DEF all, m

\* A turn of the send loop stays within the answer.
LEMMA TurnValue ==
  ASSUME DataTypes, NEW c \in Conn, nsent[c] < Len(resp[c])
  PROVE  /\ AfterTurn(c) \in Nat
         /\ AfterTurn(c) = Len(resp[c]) \/ AfterTurn(c) = nsent[c] + SENDSIZE
         /\ AfterTurn(c) <= Len(resp[c])
<1>1. nsent[c] + SENDSIZE \in Nat /\ Len(resp[c]) \in Nat
  <2>1. nsent[c] \in Nat /\ resp[c] \in Seq(Bytes) /\ SENDSIZE \in Nat
    BY SizeAssumption DEF DataTypes
  <2> QED
    BY <2>1
<1> QED
  BY <1>1, MinOfTwo DEF AfterTurn

LEMMA DataInit == Init => DataTypes
<1> SUFFICES ASSUME Init PROVE DataTypes
  OBVIOUS
<1>1. buffer \in BufferOf(Seq(Bytes)) /\ WellFormed(buffer)
  BY InitWellFormed DEF Init
<1> QED
  BY <1>1 DEF Init, DataTypes, Nowhere

LEMMA DataNext == ExitInv /\ DataTypes /\ [Next]_vars => DataTypes'
<1> SUFFICES ASSUME ExitInv, DataTypes, [Next]_vars PROVE DataTypes'
  OBVIOUS
<1> USE DEF ThreadStep, threads, stdio, answer, device
<1>0. ASSUME UNCHANGED <<fptr_mutex, wbuf, seekto_arg, resp, nsent, taken, sent,
                         buffer, partial, file>>
      PROVE  DataTypes'
  BY <1>0 DEF DataTypes, CharDevice
<1>1. CASE Quiet
  BY <1>0, <1>1 DEF Quiet, textvars
<1>2. CASE accept
  BY <1>0, <1>2 DEF accept, MainStep, clients
<1>3. CASE main_exit
  <2>1. /\ file' = IF CharDevice THEN file ELSE NULL
        /\ UNCHANGED <<fptr_mutex, wbuf, seekto_arg, resp, nsent, taken, sent, buffer, partial>>
        /\ proc' = "exited"
    BY <1>3 DEF main_exit, FileAtExit, MainStep, clients
  <2>2. fptr_mutex' = NULL
    BY <1>3, <2>1, MainExitIsClean DEF ExitInv, CleanExit
  <2> QED
    BY <2>1, <2>2 DEF DataTypes, CharDevice
<1>4. ASSUME NEW p, Blank(p) PROVE DataTypes'
  BY <1>4 DEF Blank, Nowhere, DataTypes, CharDevice
<1>5. ASSUME NEW c \in Conn, Client(c) PROVE DataTypes'
  <2>1. CASE client_send(c)
    <3>1. /\ sent' = [sent EXCEPT ![c] = @ + 1]
          /\ UNCHANGED <<fptr_mutex, wbuf, seekto_arg, resp, nsent, taken, buffer, partial, file>>
      BY <2>1 DEF client_send, ClientStep
    <3>2. sent' \in [Conn -> Nat]
      BY <3>1 DEF DataTypes
    <3> QED
      BY <3>1, <3>2 DEF DataTypes, CharDevice
  <2>2. CASE ~client_send(c)
    BY <1>0, <1>5, <2>2 DEF Client, client_connect, client_shutdown, client_hangs_up, ClientStep
  <2> QED
    BY <2>1, <2>2
<1>6. ASSUME NEW c \in Conn, thread_work_open(c) PROVE DataTypes'
  <2>1. /\ wbuf' = << >> /\ file' = IF file = NULL /\ ~CharDevice THEN << >> ELSE file
        /\ UNCHANGED <<seekto_arg, resp, nsent, taken, sent, buffer, partial>>
    BY <1>6 DEF thread_work_open, Opened
  <2>2. ~CharDevice => file' # NULL
    BY <2>1, TextAssumption, EmptySeq
  <2> QED
    BY <2>1, <2>2 DEF DataTypes, CharDevice
<1>7. ASSUME NEW c \in Conn, Receive(c) PROVE DataTypes'
  <2>1. UNCHANGED <<fptr_mutex, resp, nsent, sent, buffer, partial, file>>
    BY <1>7 DEF Receive, recv_data, recv_eof, recv_error, RecvStep
  <2>2. /\ wbuf' \in Seq(Bytes) /\ seekto_arg' \in SeekArg \cup {NULL}
        /\ taken' \in [Conn -> Nat]
    <3>1. CASE recv_data(c)
      <4>1. PICK n \in Nat \ {0}, r \in Seq(Bytes) :
              /\ taken' = [taken EXCEPT ![c] = @ + n]
              /\ \/ seekto_arg' = Arg[c] /\ UNCHANGED wbuf
                 \/ wbuf' = wbuf \o r /\ UNCHANGED seekto_arg
        BY <3>1, RecvTakes
      <4>2. taken' \in [Conn -> Nat]
        BY <4>1 DEF DataTypes
      <4>3. Arg[c] \in SeekArg /\ wbuf \o r \in Seq(Bytes)
        BY ClientAssumption, ConcatProperties DEF DataTypes
      <4> QED
        BY <4>1, <4>2, <4>3 DEF DataTypes
    <3>2. CASE recv_eof(c)
      BY <3>2 DEF recv_eof, DataTypes
    <3>3. CASE recv_error(c)
      <4>1. <<c, 0>> \in Bytes
        BY DEF Bytes
      <4>2. Append(wbuf, <<c, 0>>) \in Seq(Bytes)
        BY <4>1, AppendProperties DEF DataTypes
      <4> QED
        BY <3>3, <4>2 DEF recv_error, DataTypes
    <3> QED
      BY <1>7, <3>1, <3>2, <3>3 DEF Receive
  <2> QED
    BY <2>1, <2>2 DEF DataTypes, CharDevice
<1>8. ASSUME NEW c \in Conn, send_file(c) PROVE DataTypes'
  <2> DEFINE all == Visible(buffer', file')
             a == SubSeq(all, SeekPos(buffer', seekto_arg) + 1, Len(all))
  <2>1. /\ pc[c] = "seek" /\ Flush /\ wbuf' = << >> /\ seekto_arg' = NULL
        /\ resp' = [resp EXCEPT ![c] = a]
        /\ UNCHANGED <<fptr_mutex, nsent, taken, sent>>
    BY <1>8 DEF send_file, ArgAfter
  <2>2. fptr_mutex # NULL
    BY <2>1, ConnAssumption DEF ExitInv, Owned, HasLock
  <2>3. /\ buffer' \in BufferOf(Seq(Bytes)) /\ WellFormed(buffer')
        /\ partial' \in Seq(Bytes) /\ file' \in Seq(Bytes) \cup {NULL}
        /\ ~CharDevice => partial' = << >> /\ file' # NULL
    BY <2>1, <2>2, FlushStores
  <2>4. a \in Seq(Bytes)
    BY <2>3, AnswerType
  <2> HIDE DEF a
  <2>5. resp' \in [Conn -> Seq(Bytes)]
    BY <2>1, <2>4 DEF DataTypes
  <2> QED
    BY <2>1, <2>3, <2>5, EmptySeq DEF DataTypes, CharDevice
<1>9. ASSUME NEW c \in Conn, send_turn(c) \/ send_to_reset(c) PROVE DataTypes'
  <2>1. /\ nsent[c] < Len(resp[c])
        /\ nsent' = [nsent EXCEPT ![c] = AfterTurn(c)] \/ UNCHANGED nsent
        /\ UNCHANGED <<fptr_mutex, wbuf, seekto_arg, resp, taken, sent, buffer, partial, file>>
    BY <1>9 DEF send_turn, send_to_reset, SendStep
  <2>2. nsent' \in [Conn -> Nat]
    BY <2>1, TurnValue DEF DataTypes
  <2> QED
    BY <2>1, <2>2 DEF DataTypes, CharDevice
<1>10. ASSUME NEW c \in Conn, \/ thread_work_unlock(c) \/ thread_work_finish(c)
                              \/ thread_work_exit(c)
       PROVE  DataTypes'
  <2>1. /\ UNCHANGED <<wbuf, seekto_arg, resp, nsent, taken, sent, buffer, partial, file>>
        /\ fptr_mutex' \in {fptr_mutex, NULL}
    BY <1>10 DEF thread_work_unlock, thread_work_finish, thread_work_exit, MutexAfter
  <2> QED
    BY <2>1 DEF DataTypes, CharDevice
<1> QED
  BY <1>1, <1>2, <1>3, <1>4, <1>5, <1>6, <1>7, <1>8, <1>9, <1>10, Steps

CtlTypes ==
  /\ proc \in {"running", "exited", "failed", "SIGTERM", "SIGKILL", "SIGPIPE", "SIGSEGV"}
  /\ mpc \in {"flags", "daemon", "sigaction", "listener", "listen", "reap", "loop",
              "poll", "polled", "clean", "final"}
  /\ should_close \in BOOLEAN /\ revents \in BOOLEAN
  /\ is_finished \in SUBSET Conn

LEMMA CtlNext == CtlTypes /\ [Next]_vars => CtlTypes'
<1> SUFFICES ASSUME CtlTypes, [Next]_vars PROVE CtlTypes'
  OBVIOUS
<1> USE DEF CtlTypes, main, threads
<1>1. CASE signal_handler \/ signal_default
  BY <1>1 DEF signal_handler, signal_default, SignalStep
<1>2. CASE stop_kills \/ start
  BY <1>2 DEF stop_kills, start, Blank
<1>3. CASE Main
  <2> USE DEF MainStep, OnlyMain
  <2>1. CASE \/ handle_flags \/ daemon \/ set_signal_handler
             \/ get_listener \/ listen \/ reap_dead_processes
    BY <2>1 DEF handle_flags, daemon, set_signal_handler, get_listener, listen,
       reap_dead_processes, Startup
  <2>2. CASE \/ startup_fails \/ get_listener_fails \/ join_stillborn \/ main_exit
    BY <2>2 DEF startup_fails, get_listener_fails, join_stillborn, main_exit, vars
  <2>3. CASE \/ poll \/ no_request \/ accept_fails \/ clean_threads_done
    BY <2>3 DEF poll, no_request, AfterNoRequest, accept_fails, clean_threads_done
  <2>4. CASE \/ accept \/ loop_test \/ clean_threads_skip \/ clean_threads
    BY <2>4 DEF accept, loop_test, clean_threads_skip, clean_threads
  <2> QED
    BY <1>3, <2>1, <2>2, <2>3, <2>4 DEF Main
<1>4. ASSUME NEW c \in Conn, Client(c) PROVE CtlTypes'
  BY <1>4 DEF Client, client_connect, client_send, client_shutdown, client_hangs_up, ClientStep
<1>5. ASSUME NEW c \in Conn, Thread(c) PROVE CtlTypes'
  <2> USE DEF ThreadStep
  <2>1. CASE thread_work_open(c) \/ thread_work_open_fails(c) \/ send_file(c)
    BY <2>1 DEF thread_work_open, thread_work_open_fails, send_file
  <2>2. CASE recv_data(c) \/ recv_eof(c) \/ recv_error(c)
    <3>1. UNCHANGED <<proc, mpc, revents, is_finished>> /\ should_close' \in {should_close, TRUE}
      BY <2>2 DEF recv_data, recv_eof, recv_error, RecvStep
    <3> QED
      BY <3>1
  <2>3. CASE send_turn(c) \/ send_to_reset(c)
    BY <2>3 DEF send_turn, send_to_reset, SendStep
  <2>4. CASE thread_work_unlock(c) \/ thread_work_finish(c) \/ thread_work_exit(c)
    BY <2>4 DEF thread_work_unlock, thread_work_finish, thread_work_exit
  <2> QED
    BY <1>5, <2>1, <2>2, <2>3, <2>4 DEF Thread
<1>6. CASE Ended \/ UNCHANGED vars
  BY <1>6 DEF Ended, vars
<1> QED
  BY <1>1, <1>2, <1>3, <1>4, <1>5, <1>6 DEF Next, Client

TypeInv == ExitInv /\ DataTypes /\ CtlTypes

\* Every variable of the server keeps its type: thread_work appends bytes only to
\* a file that fopen has made, the ring stays well-formed, and no answer reaches
\* beyond what is stored.
THEOREM ServerTypeInvariant == Spec => []TypeInv
<1>1. Init => TypeInv
  <2>1. Init => CtlTypes
    BY DEF Init, CtlTypes
  <2> QED
    BY <2>1, ExitInit, DataInit DEF TypeInv
<1>2. TypeInv /\ [Next]_vars => TypeInv'
  BY ExitNext, DataNext, CtlNext DEF TypeInv
<1> QED
  BY <1>1, <1>2, PTL DEF Spec

\* The type invariant, which the runs check.
THEOREM ServerTyped == Spec => []TypeOK
<1>1. TypeInv => TypeOK
  BY DEF TypeInv, ExitInv, SafeInv, ListTypes, Place, End, Owned, DataTypes, CtlTypes, TypeOK
<1> QED
  BY <1>1, ServerTypeInvariant, PTL

-----------------------------------------------------------------------------
(* SIGPIPE.  A connection is broken by a send of its own thread, which has *)
(* then sent SENDSIZE bytes or all of them.                                *)

Broken ==
  \A c \in Conn : peer[c] = "broken" =>
    pc[c] \in After /\ (nsent[c] >= SENDSIZE \/ nsent[c] = Len(resp[c]))

LEMMA BrokenNext ==
  ASSUME TypeInv, Broken, [Next]_vars
  PROVE  Broken'
<1> USE DEF ThreadStep, threads, stdio, answer, clients, After
<1>0. /\ pc \in [Conn -> Place] /\ peer \in [Conn -> End]
      /\ nsent \in [Conn -> Nat] /\ resp \in [Conn -> Seq(Bytes)]
      /\ \A d \in Conn : Len(resp[d]) \in Nat
      /\ DataTypes /\ SENDSIZE \in Nat
  BY SizeAssumption DEF TypeInv, ExitInv, SafeInv, ListTypes, DataTypes
<1>1. CASE Quiet
  BY <1>1 DEF Quiet, textvars, Broken
<1>2. CASE main_exit
  BY <1>2 DEF main_exit, MainStep, Broken
<1>3. CASE accept
  <2> DEFINE c == Head(backlog)
  <2>1. backlog # << >> /\ UNCHANGED <<peer, nsent, resp>>
    BY <1>3 DEF accept, MainStep
  <2>2. PICK born : pc' = [pc EXCEPT ![c] = born]
    BY <1>3 DEF accept
  <2>3. c \in Conn /\ pc[c] = "none"
    BY <2>1 DEF TypeInv, ExitInv, SafeInv, ListTypes, Queued
  <2> HIDE DEF c
  <2> QED
    BY <1>0, <2>1, <2>2, <2>3 DEF Broken
<1>4. ASSUME NEW p, Blank(p) PROVE Broken'
  BY <1>4 DEF Blank, Broken
<1>5. ASSUME NEW c \in Conn, Client(c) PROVE Broken'
  <2>1. UNCHANGED <<pc, nsent, resp>>
    BY <1>5 DEF Client, client_connect, client_send, client_shutdown, client_hangs_up, ClientStep
  <2>2. PICK q \in End \ {"broken"} : peer' = peer \/ peer' = [peer EXCEPT ![c] = q]
    BY <1>5 DEF Client, client_connect, client_send, client_shutdown, client_hangs_up, End
  <2> QED
    BY <1>0, <2>1, <2>2 DEF Broken
<1>6. ASSUME NEW c \in Conn, \/ thread_work_open(c) \/ Receive(c)
      PROVE  Broken'
  <2>1. /\ UNCHANGED <<peer, nsent, resp>> /\ pc[c] \notin After
        /\ \E p : pc' = [pc EXCEPT ![c] = p]
    BY <1>6 DEF thread_work_open, Receive, recv_data, recv_eof, recv_error, RecvStep, AfterRecv
  <2> QED
    BY <1>0, <2>1 DEF Broken
<1>7. ASSUME NEW c \in Conn, send_file(c) PROVE Broken'
  <2>1. /\ UNCHANGED <<peer, nsent>> /\ pc[c] = "seek" /\ pc' = [pc EXCEPT ![c] = "send"]
        /\ \E a : resp' = [resp EXCEPT ![c] = a]
    BY <1>7 DEF send_file
  <2> QED
    BY <1>0, <2>1 DEF Broken
<1>8. ASSUME NEW c \in Conn, send_turn(c) \/ send_to_reset(c) PROVE Broken'
  <2>1. /\ pc[c] = "send" /\ nsent[c] < Len(resp[c]) /\ UNCHANGED <<pc, resp>>
        /\ \/ nsent' = [nsent EXCEPT ![c] = AfterTurn(c)]
           \/ UNCHANGED <<nsent, peer>>
        /\ \E q : peer' = [peer EXCEPT ![c] = q] \/ UNCHANGED peer
    BY <1>8 DEF send_turn, send_to_reset, SendStep
  <2>2. AfterTurn(c) >= SENDSIZE \/ AfterTurn(c) = Len(resp[c])
    BY <1>0, <2>1, TurnValue
  <2> QED
    BY <1>0, <2>1, <2>2 DEF Broken
<1>9. ASSUME NEW c \in Conn, \/ thread_work_unlock(c) \/ thread_work_finish(c)
                             \/ thread_work_exit(c)
      PROVE  Broken'
  <2>1. UNCHANGED <<peer, nsent, resp>> /\ \E p \in After : pc' = [pc EXCEPT ![c] = p]
    BY <1>9 DEF thread_work_unlock, thread_work_finish, thread_work_exit
  <2> QED
    BY <1>0, <2>1 DEF Broken
<1> QED
  BY <1>1, <1>2, <1>3, <1>4, <1>5, <1>6, <1>7, <1>8, <1>9, Steps

LEMMA PipeNext ==
  ASSUME TypeInv, Broken, ShortAnswersAreSurvived, [Next]_vars
  PROVE  ShortAnswersAreSurvived'
<1> SUFFICES ASSUME proc' = "SIGPIPE"
             PROVE  \E c \in Conn : \/ peer'[c] = "reset"
                                    \/ peer'[c] = "broken" /\ Len(resp'[c]) > SENDSIZE
  BY DEF ShortAnswersAreSurvived
<1> USE DEF ThreadStep, threads, stdio, answer, clients
<1>1. CASE Quiet
  BY <1>1 DEF Quiet, textvars, ShortAnswersAreSurvived
<1>2. CASE main_exit
  BY <1>2 DEF main_exit
<1>3. CASE accept
  BY <1>3 DEF accept, MainStep, ShortAnswersAreSurvived
<1>4. ASSUME NEW p \in {"SIGKILL", "running"}, Blank(p) PROVE FALSE
  BY <1>4 DEF Blank
<1>5. ASSUME NEW c \in Conn, Client(c) PROVE FALSE
  BY <1>5 DEF Client, client_connect, client_send, client_shutdown, client_hangs_up,
     ClientStep, Running
<1>6. ASSUME NEW c \in Conn,
             \/ thread_work_open(c) \/ Receive(c) \/ send_file(c) \/ send_turn(c)
             \/ thread_work_unlock(c) \/ thread_work_finish(c) \/ thread_work_exit(c)
      PROVE  FALSE
  BY <1>6 DEF thread_work_open, Receive, recv_data, recv_eof, recv_error, RecvStep,
     send_file, send_turn, SendStep, thread_work_unlock, thread_work_finish,
     thread_work_exit, Running
<1>7. ASSUME NEW c \in Conn, send_to_reset(c)
      PROVE  \/ peer'[c] = "reset"
             \/ peer'[c] = "broken" /\ Len(resp'[c]) > SENDSIZE
  <2>1. /\ peer[c] \in {"reset", "broken"} /\ nsent[c] < Len(resp[c])
        /\ UNCHANGED <<peer, resp>>
    BY <1>7 DEF send_to_reset, SendStep
  <2>2. nsent[c] \in Nat /\ Len(resp[c]) \in Nat /\ SENDSIZE \in Nat
    <3>1. nsent[c] \in Nat /\ resp[c] \in Seq(Bytes)
      BY DEF TypeInv, DataTypes
    <3> QED
      BY <3>1, SizeAssumption
  <2> QED
    BY <2>1, <2>2 DEF Broken
<1> QED
  BY <1>1, <1>2, <1>3, <1>4, <1>5, <1>6, <1>7, Steps

\* The server dies of SIGPIPE only if a client reset its connection, or closed it
\* and the answer was longer than one sendbuffer.
THEOREM ServerPipe == Spec => []ShortAnswersAreSurvived
<1>1. Init => Broken /\ ShortAnswersAreSurvived
  BY DEF Init, Broken, ShortAnswersAreSurvived
<1>2. TypeInv /\ Broken /\ ShortAnswersAreSurvived /\ [Next]_vars
        => Broken' /\ ShortAnswersAreSurvived'
  BY BrokenNext, PipeNext
<1> QED
  BY <1>1, <1>2, ServerTypeInvariant, PTL DEF Spec

-----------------------------------------------------------------------------
(* What is stored.  The stdio buffer holds text of the thread that has the *)
(* mutex, and what it has written is never added to again: the owner of a  *)
(* stored byte is past its fseek.                                          *)

StoreInv ==
  /\ wbuf # << >> => fptr_mutex # NULL /\ pc[fptr_mutex] \in HasArg
  /\ \A i \in 1 .. Len(wbuf) : wbuf[i][1] = fptr_mutex
  /\ \A i \in 1 .. Len(Stored) : pc[Stored[i][1]] \in After \cup {"cut"}
  /\ ConnectionsDoNotMix

LEMMA StoredType ==
  ASSUME DataTypes
  PROVE  /\ Stored \in Seq(Bytes) /\ Len(Stored) \in Nat
         /\ DOMAIN Stored = 1 .. Len(Stored)
         /\ \A i \in 1 .. Len(Stored) : Stored[i] \in Bytes /\ Stored[i][1] \in Conn
<1>1. Stored \in Seq(Bytes)
  BY VisibleType, ConcatProperties DEF DataTypes, Stored
<1>2. \A i \in 1 .. Len(Stored) : Stored[i] \in Bytes
  BY <1>1, ElementOfSeq
<1>3. \A b \in Bytes : b[1] \in Conn
  BY DEF Bytes
<1>4. Len(Stored) \in Nat /\ DOMAIN Stored = 1 .. Len(Stored)
  BY <1>1, LenProperties
<1> HIDE DEF Stored
<1> QED
  BY <1>1, <1>2, <1>3, <1>4

\* fopen makes an empty file where there was none, and main removes it when it
\* returns; nothing else but a thread's fseek changes what is stored.
LEMMA StoredKept ==
  ASSUME DataTypes
  PROVE  /\ UNCHANGED <<buffer, partial, file>> => Stored' = Stored
         /\ \A c \in Conn : thread_work_open(c) => Stored' = Stored
         /\ main_exit => Stored' \in {Stored, << >>}
<1>1. UNCHANGED <<buffer, partial, file>> => Stored' = Stored
  BY DEF Stored, Visible
<1>2. ASSUME NEW c \in Conn, thread_work_open(c) PROVE Stored' = Stored
  <2>1. /\ file' = IF file = NULL /\ ~CharDevice THEN << >> ELSE file
        /\ UNCHANGED <<buffer, partial>>
    BY <1>2 DEF thread_work_open, Opened
  <2>2. << >> # NULL
    BY TextAssumption, EmptySeq
  <2>3. Visible(buffer', file') = Visible(buffer, file)
    BY <2>1, <2>2 DEF Visible
  <2> QED
    BY <2>1, <2>3 DEF Stored
<1>3. ASSUME main_exit PROVE Stored' \in {Stored, << >>}
  <2>1. /\ file' = IF CharDevice THEN file ELSE NULL
        /\ UNCHANGED <<buffer, partial>>
    BY <1>3 DEF main_exit, FileAtExit
  <2>2. CASE CharDevice
    BY <1>1, <2>1, <2>2
  <2>3. CASE ~CharDevice
    <3>1. Visible(buffer', file') = << >> /\ partial' = << >>
      BY <2>1, <2>3 DEF Visible, DataTypes
    <3>2. Stored' = << >> \o << >>
      BY <3>1 DEF Stored
    <3> QED
      BY <3>2, ConcatEmptySeq, EmptySeq
  <2> QED
    BY <2>2, <2>3
<1> QED
  BY <1>1, <1>2, <1>3

LEMMA StoreNext ==
  ASSUME TypeInv, StoreInv, [Next]_vars
  PROVE  StoreInv'
<1> USE DEF ThreadStep, threads, stdio, answer, clients, device
<1>0. /\ pc \in [Conn -> Place] /\ fptr_mutex \in Conn \cup {NULL} /\ NULL \notin Conn
      /\ DataTypes /\ wbuf \in Seq(Bytes)
      /\ \A d \in Conn : pc[d] \in HasLock => fptr_mutex = d
      /\ \A i \in 1 .. Len(Stored) : Stored[i][1] \in Conn
  BY StoredType, ConnAssumption DEF TypeInv, ExitInv, SafeInv, ListTypes, Owned, DataTypes
\* The store and the stdio buffer are as they were, and the owners of stored
\* bytes stay where they may be.
<1>1. ASSUME Stored' = Stored, UNCHANGED <<wbuf, fptr_mutex>>,
             \A d \in Conn : pc[d] \in HasArg \cup After \cup {"cut"} => pc'[d] = pc[d]
      PROVE  StoreInv'
  BY <1>0, <1>1 DEF StoreInv, ConnectionsDoNotMix
<1>2. CASE Quiet
  BY <1>1, <1>2, StoredKept, <1>0 DEF Quiet, textvars
<1>3. CASE accept
  <2> DEFINE c == Head(backlog)
  <2>1. backlog # << >> /\ UNCHANGED <<wbuf, fptr_mutex, buffer, partial, file>>
    BY <1>3 DEF accept, MainStep
  <2>2. PICK born : pc' = [pc EXCEPT ![c] = born]
    BY <1>3 DEF accept
  <2>3. c \in Conn /\ pc[c] = "none"
    BY <2>1 DEF TypeInv, ExitInv, SafeInv, ListTypes, Queued
  <2> HIDE DEF c
  <2>4. \A d \in Conn : pc[d] \in HasArg \cup After \cup {"cut"} => pc'[d] = pc[d]
    BY <1>0, <2>2, <2>3 DEF HasArg, After
  <2> QED
    BY <1>0, <1>1, <2>1, <2>4, StoredKept
<1>4. CASE main_exit
  <2>1. UNCHANGED <<wbuf, fptr_mutex, pc>> /\ Stored' \in {Stored, << >>}
    BY <1>0, <1>4, StoredKept DEF main_exit, MainStep
  <2>2. CASE Stored' = Stored
    BY <1>1, <2>1, <2>2
  <2>3. CASE Stored' = << >>
    BY <2>1, <2>3 DEF StoreInv, ConnectionsDoNotMix
  <2> QED
    BY <2>1, <2>2, <2>3
<1>5. ASSUME NEW p, Blank(p) PROVE StoreInv'
  <2>1. /\ wbuf' = << >> /\ UNCHANGED <<buffer, partial, file>>
        /\ pc' = [c \in Conn |-> IF peer[c] = "idle" THEN "none" ELSE "cut"]
    BY <1>5 DEF Blank
  <2>2. Stored' = Stored
    BY <1>0, <2>1, StoredKept
  <2>3. ASSUME NEW i \in 1 .. Len(Stored) PROVE pc'[Stored[i][1]] = "cut"
    <3>1. Stored[i][1] \in Conn /\ pc[Stored[i][1]] # "none"
      BY <1>0 DEF StoreInv, After
    <3>2. peer[Stored[i][1]] # "idle"
      BY <3>1 DEF TypeInv, ExitInv, SafeInv, Queued
    <3> QED
      BY <2>1, <3>1, <3>2
  <2> QED
    BY <2>1, <2>2, <2>3 DEF StoreInv, ConnectionsDoNotMix
<1>6. ASSUME NEW c \in Conn, Client(c) PROVE StoreInv'
  <2>1. UNCHANGED <<wbuf, fptr_mutex, pc, buffer, partial, file>>
    BY <1>6 DEF Client, client_connect, client_send, client_shutdown, client_hangs_up, ClientStep
  <2> QED
    BY <1>0, <1>1, <2>1, StoredKept
<1>7. ASSUME NEW c \in Conn, thread_work_open(c) PROVE StoreInv'
  <2>1. wbuf' = << >> /\ pc[c] = "start" /\ pc' = [pc EXCEPT ![c] = "recv"]
    BY <1>7 DEF thread_work_open
  <2>2. Stored' = Stored
    BY <1>0, <1>7, StoredKept
  <2> QED
    BY <1>0, <2>1, <2>2 DEF StoreInv, ConnectionsDoNotMix, After
<1>8. ASSUME NEW c \in Conn, Receive(c) PROVE StoreInv'
  <2>1. /\ pc[c] = "recv" /\ UNCHANGED <<fptr_mutex, buffer, partial, file>>
        /\ \E p \in HasArg : pc' = [pc EXCEPT ![c] = p]
    BY <1>8 DEF Receive, recv_data, recv_eof, recv_error, RecvStep, AfterRecv, HasArg
  <2>2. Stored' = Stored /\ fptr_mutex = c
    BY <1>0, <2>1, StoredKept DEF HasLock
  <2>3. \A i \in 1 .. Len(wbuf') : wbuf'[i][1] = c
    <3>1. \A i \in 1 .. Len(wbuf) : wbuf[i][1] = c
      BY <2>2 DEF StoreInv
    <3>2. CASE wbuf' = wbuf
      BY <3>1, <3>2
    <3>3. CASE recv_error(c) /\ wbuf' # wbuf
      <4>1. wbuf' = Append(wbuf, <<c, 0>>) /\ <<c, 0>> \in Bytes
        BY <3>3 DEF recv_error, Bytes
      <4> QED
        BY <1>0, <3>1, <4>1, AppendProperties
    <3>4. CASE recv_data(c) /\ wbuf' # wbuf
      <4>1. PICK n \in Nat \ {0}, r \in Seq(Bytes) :
              /\ Len(r) = n /\ \A i \in 1 .. n : r[i] = <<c, taken[c] + i>>
              /\ wbuf' = wbuf \o r
        BY <1>0, <3>4, RecvTakes
      <4>2. /\ Len(wbuf') = Len(wbuf) + n /\ Len(wbuf) \in Nat
            /\ \A i \in 1 .. Len(wbuf) + n :
                 wbuf'[i] = IF i <= Len(wbuf) THEN wbuf[i] ELSE r[i - Len(wbuf)]
        <5>1. /\ Len(wbuf \o r) = Len(wbuf) + Len(r)
              /\ \A i \in 1 .. Len(wbuf) + Len(r) :
                   (wbuf \o r)[i] = IF i <= Len(wbuf) THEN wbuf[i] ELSE r[i - Len(wbuf)]
          BY <1>0, ConcatProperties
        <5>2. Len(wbuf) \in Nat
          BY <1>0, LenProperties
        <5> QED
          BY <4>1, <5>1, <5>2
      <4>3. \A i \in 1 .. n : r[i][1] = c
        BY <4>1
      <4> QED
        BY <3>1, <4>2, <4>3
    <3>5. recv_eof(c) => wbuf' = wbuf
      BY DEF recv_eof
    <3> QED
      BY <1>8, <3>2, <3>3, <3>4, <3>5 DEF Receive
  <2> QED
    BY <1>0, <2>1, <2>2, <2>3 DEF StoreInv, ConnectionsDoNotMix, After
<1>9. ASSUME NEW c \in Conn, send_file(c) PROVE StoreInv'
  <2>1. /\ pc[c] = "seek" /\ pc' = [pc EXCEPT ![c] = "send"] /\ Flush /\ wbuf' = << >>
    BY <1>9 DEF send_file
  <2>2. fptr_mutex = c
    BY <1>0, <2>1 DEF HasLock
  <2>3. PICK A \in Seq(Bytes), X \in Seq(Bytes) : Stored = A \o X /\ Stored' = X \o wbuf
    BY <1>0, <2>1, <2>2, FlushStores
  <2> DEFINE a == Len(A)
             x == Len(X)
             w == Len(wbuf)
             S == Stored
             T == Stored'
  <2>4. a \in Nat /\ x \in Nat /\ w \in Nat
    BY <1>0
  <2>5. Len(S) = a + x /\ \A i \in 1 .. x : a + i \in 1 .. Len(S) /\ S[a + i] = X[i]
    <3>1. /\ Len(A \o X) = a + x
          /\ \A i \in 1 .. a + x : (A \o X)[i] = IF i <= a THEN A[i] ELSE X[i - a]
      BY <2>3, ConcatProperties
    <3>2. ASSUME NEW i \in 1 .. x PROVE a + i \in 1 .. a + x /\ (A \o X)[a + i] = X[i]
      <4>1. a + i \in 1 .. a + x /\ ~(a + i <= a) /\ (a + i) - a = i
        BY <2>4
      <4> QED
        BY <3>1, <4>1
    <3> QED
      BY <2>3, <3>1, <3>2
  <2>6. /\ T \in Seq(Bytes) /\ Len(T) = x + w
        /\ \A i \in 1 .. x + w : T[i] = IF i <= x THEN X[i] ELSE wbuf[i - x]
    BY <1>0, <2>3, ConcatProperties
  <2>7. DOMAIN S = 1 .. Len(S) /\ DOMAIN T = 1 .. x + w
    BY <1>0, <2>6, StoredType, LenProperties
  <2>8. ConnectionsDoNotMix <=> \A i, j, k \in DOMAIN S :
          i < j /\ j < k /\ S[i][1] = S[k][1] => S[j][1] = S[i][1]
    BY DEF ConnectionsDoNotMix
  <2>9. ConnectionsDoNotMix' <=> \A i, j, k \in DOMAIN T :
          i < j /\ j < k /\ T[i][1] = T[k][1] => T[j][1] = T[i][1]
    BY DEF ConnectionsDoNotMix
  <2>10. \A i \in 1 .. Len(S) : S[i][1] \in Conn /\ pc[S[i][1]] \in After \cup {"cut"}
    BY <1>0 DEF StoreInv
  <2>11. \A i \in 1 .. w : wbuf[i][1] = c
    BY <2>2 DEF StoreInv
  <2> HIDE DEF a, x, w, S, T
  <2>12. ASSUME NEW i \in 1 .. x
         PROVE  /\ a + i \in 1 .. Len(S) /\ T[i] = S[a + i] /\ T[i][1] # c
                /\ T[i][1] \in Conn /\ pc[T[i][1]] \in After \cup {"cut"}
    <3>1. i \in 1 .. x + w /\ i <= x
      BY <2>4
    <3>2. a + i \in 1 .. Len(S) /\ T[i] = S[a + i]
      BY <2>5, <2>6, <3>1
    <3>3. T[i][1] \in Conn /\ pc[T[i][1]] \in After \cup {"cut"}
      BY <2>10, <3>2
    <3> QED
      BY <2>1, <3>2, <3>3 DEF After
  <2>13. ASSUME NEW i \in 1 .. x + w, ~(i <= x) PROVE T[i][1] = c
    <3>1. i - x \in 1 .. w
      BY <2>4, <2>13
    <3> QED
      BY <2>6, <2>11, <2>13, <3>1
  <2>14. \A i \in 1 .. x + w : pc'[T[i][1]] \in After \cup {"cut"}
    <3> SUFFICES ASSUME NEW i \in 1 .. x + w PROVE pc'[T[i][1]] \in After \cup {"cut"}
      OBVIOUS
    <3>1. CASE i <= x
      <4>1. i \in 1 .. x
        BY <2>4, <3>1
      <4> QED
        BY <1>0, <2>1, <2>12, <4>1
    <3>2. CASE ~(i <= x)
      BY <1>0, <2>1, <2>13, <3>2 DEF After
    <3> QED
      BY <3>1, <3>2
  <2>15. ASSUME NEW i \in 1 .. x + w, NEW j \in 1 .. x + w, NEW k \in 1 .. x + w,
                i < j, j < k, T[i][1] = T[k][1]
         PROVE  T[j][1] = T[i][1]
    <3>1. CASE k <= x
      <4>1. i \in 1 .. x /\ j \in 1 .. x /\ k \in 1 .. x
        BY <2>4, <2>15, <3>1
      <4>2. a + i < a + j /\ a + j < a + k
        BY <2>4, <2>15
      <4> QED
        BY <2>7, <2>8, <2>12, <2>15, <4>1, <4>2 DEF StoreInv
    <3>2. CASE ~(k <= x) /\ i <= x
      <4>1. i \in 1 .. x
        BY <2>4, <3>2
      <4> QED
        BY <2>12, <2>13, <2>15, <3>2, <4>1
    <3>3. CASE ~(i <= x)
      <4>1. ~(j <= x)
        BY <2>4, <2>15, <3>3
      <4> QED
        BY <2>13, <3>3, <4>1
    <3> QED
      BY <3>1, <3>2, <3>3
  <2>16. ConnectionsDoNotMix'
    BY <2>7, <2>9, <2>15
  <2>17. \A i \in 1 .. Len(Stored') : pc'[Stored'[i][1]] \in After \cup {"cut"}
    BY <2>6, <2>14 DEF T
  <2> QED
    BY <2>1, <2>16, <2>17 DEF StoreInv
<1>10. ASSUME NEW c \in Conn, send_turn(c) \/ send_to_reset(c) PROVE StoreInv'
  <2>1. UNCHANGED <<wbuf, fptr_mutex, pc, buffer, partial, file>>
    BY <1>10 DEF send_turn, send_to_reset, SendStep
  <2> QED
    BY <1>0, <1>1, <2>1, StoredKept
<1>11. ASSUME NEW c \in Conn, \/ thread_work_unlock(c) \/ thread_work_finish(c)
                              \/ thread_work_exit(c)
       PROVE  StoreInv'
  <2>1. /\ UNCHANGED <<wbuf, buffer, partial, file>>
        /\ pc[c] \in After /\ \E p \in After : pc' = [pc EXCEPT ![c] = p]
        /\ pc[c] = "send" \/ UNCHANGED fptr_mutex
    BY <1>11 DEF thread_work_unlock, thread_work_finish, thread_work_exit, After
  <2>2. Stored' = Stored
    BY <1>0, <2>1, StoredKept
  <2>3. wbuf # << >> => UNCHANGED fptr_mutex /\ fptr_mutex # c
    BY <1>0, <2>1 DEF StoreInv, HasLock, HasArg, After
  <2>4. \A i \in 1 .. Len(wbuf) : wbuf # << >>
    BY <1>0
  <2> QED
    BY <1>0, <2>1, <2>2, <2>3, <2>4 DEF StoreInv, ConnectionsDoNotMix
<1> QED
  BY <1>2, <1>3, <1>4, <1>5, <1>6, <1>7, <1>8, <1>9, <1>10, <1>11, Steps

LEMMA StoreInit == Init => StoreInv
<1> SUFFICES ASSUME Init PROVE StoreInv
  OBVIOUS
<1>1. WellFormed(buffer) /\ buffer \in BufferOf(Seq(Bytes)) /\ Count(buffer) = 0
  BY InitWellFormed DEF Init
<1>2. Lines(buffer) = << >> /\ FlattenSeq(Lines(buffer)) = << >>
  <2>1. Lines(buffer) = << >>
    BY <1>1 DEF Lines
  <2> QED
    BY <2>1 DEF FlattenSeq
<1>3. Visible(buffer, file) = << >> /\ partial = << >>
  BY <1>2 DEF Init, Visible
<1>4. Stored = << >>
  <2>1. Stored = << >> \o << >>
    BY <1>3 DEF Stored
  <2> QED
    BY <2>1, ConcatEmptySeq, EmptySeq
<1> QED
  BY <1>4 DEF Init, StoreInv, ConnectionsDoNotMix

\* Whatever the threads do at the same time, the bytes of a connection lie
\* together in the file or the device, also over failures, signals and restarts.
THEOREM ServerKeepsTogether == Spec => []ConnectionsDoNotMix
<1>1. StoreInv => ConnectionsDoNotMix
  BY DEF StoreInv
<1>2. TypeInv /\ StoreInv /\ [Next]_vars => StoreInv'
  BY StoreNext
<1> QED
  BY <1>1, <1>2, StoreInit, ServerTypeInvariant, PTL DEF Spec

-----------------------------------------------------------------------------
(* The text of a client in the buffers of its thread, up to the fseek.     *)

\* w is text of c: some of its first n bytes, in order, and all of them if it
\* sends no command.
Own(c, w, n) ==
  /\ w \in Seq(Bytes) /\ Len(w) <= n
  /\ \A i \in 1 .. Len(w) : w[i][1] = c /\ w[i][2] \in 1 .. n
  /\ \A i, j \in 1 .. Len(w) : i < j => w[i][2] < w[j][2]
  /\ Commands(c) = {} => Len(w) = n /\ \A k \in 1 .. n : w[k] = <<c, k>>

\* A failed recv may have made up a byte, and a buffer fresh from malloc a command.
Text(c) ==
  /\ pc[c] \in {"none", "start", "stillborn"} => taken[c] = 0
  /\ taken[c] <= sent[c] /\ sent[c] <= Len(Script[c])
  /\ pc[c] = "recv" => Own(c, wbuf, taken[c])
  /\ pc[c] = "seek" =>
       \/ Own(c, wbuf, taken[c])
       \/ /\ c \in Hangs \cup Picked
          /\ \E w \in Seq(Bytes) : /\ w # << >> /\ Own(c, w, taken[c])
                                   /\ wbuf = Append(w, <<c, 0>>)
  /\ pc[c] \in HasArg /\ Commands(c) = {} /\ (pc[c] = "recv" \/ taken[c] > 0) =>
       seekto_arg = NULL

TextInv == \A c \in Conn : Text(c)

\* Who hangs up.
Hung == \A c \in Conn : peer[c] \in {"closed", "broken", "reset"} => c \in Hangs

LEMMA HungNext ==
  ASSUME TypeInv, Hung, [Next]_vars
  PROVE  Hung'
<1> USE DEF ThreadStep, threads, stdio, answer, clients
<1>0. peer \in [Conn -> End]
  BY DEF TypeInv, ExitInv, SafeInv, ListTypes
<1>1. CASE UNCHANGED peer
  BY <1>1 DEF Hung
<1>2. CASE Quiet \/ main_exit \/ accept
  BY <1>1, <1>2 DEF Quiet, textvars, main_exit, accept, MainStep
<1>3. ASSUME NEW p, Blank(p) PROVE Hung'
  BY <1>3 DEF Blank, Hung
<1>4. ASSUME NEW c \in Conn, Client(c) PROVE Hung'
  <2>1. PICK q : \/ UNCHANGED peer
                 \/ /\ peer' = [peer EXCEPT ![c] = q]
                    /\ c \in Hangs \/ q \in {"open", "shut"}
    BY <1>4 DEF Client, client_connect, client_send, client_shutdown, client_hangs_up
  <2> QED
    BY <1>0, <1>1, <2>1 DEF Hung
<1>5. ASSUME NEW c \in Conn, send_turn(c) PROVE Hung'
  <2>1. peer' = [peer EXCEPT ![c] = IF peer[c] = "closed" THEN "broken" ELSE peer[c]]
    BY <1>0, <1>5 DEF send_turn
  <2> QED
    BY <1>0, <2>1 DEF Hung
<1>6. ASSUME NEW c \in Conn, \/ thread_work_open(c) \/ Receive(c) \/ send_file(c)
                             \/ send_to_reset(c) \/ thread_work_unlock(c)
                             \/ thread_work_finish(c) \/ thread_work_exit(c)
      PROVE  Hung'
  <2>1. UNCHANGED peer
    BY <1>6 DEF thread_work_open, Receive, recv_data, recv_eof, recv_error, RecvStep,
       send_file, send_to_reset, thread_work_unlock, thread_work_finish, thread_work_exit
  <2> QED
    BY <1>1, <2>1
<1> QED
  BY <1>2, <1>3, <1>4, <1>5, <1>6, Steps

\* AnswerEndsWithOwnText, of one client.
Answered(c) ==
  /\ pc[c] = "send" /\ Commands(c) = {}
  /\ taken[c] > 0 /\ Script[c][taken[c]] = "nl"
  /\ <<c, 0>> \notin ToSet(Stored)
  => LET others == Len(resp[c]) - taken[c]
     IN  /\ others >= 0
         /\ \A k \in 1 .. taken[c] : resp[c][others + k] = <<c, k>>
         /\ \A i \in 1 .. others : resp[c][i][1] # c

LEMMA ScriptLength ==
  ASSUME NEW c \in Conn
  PROVE  Script[c] \in Seq({"x", "nl", "cmd"}) /\ Len(Script[c]) \in Nat
         /\ DOMAIN Script[c] = 1 .. Len(Script[c])
<1>1. Script[c] \in Seq({"x", "nl", "cmd"})
  BY ClientAssumption
<1> QED
  BY <1>1, LenProperties

\* The next bytes of a client come after those that were taken before.
LEMMA OwnGrows ==
  ASSUME NEW c \in Conn, NEW m \in Nat, NEW n \in Nat, NEW w, Own(c, w, m),
         NEW r \in Seq(Bytes), Len(r) = n, \A i \in 1 .. n : r[i] = <<c, m + i>>
  PROVE  Own(c, w \o r, m + n)
<1> DEFINE l == Len(w)
           v == w \o r
<1>1. /\ w \in Seq(Bytes) /\ l \in Nat /\ l <= m
      /\ v \in Seq(Bytes) /\ Len(v) = l + n
      /\ \A i \in 1 .. l + n : v[i] = IF i <= l THEN w[i] ELSE r[i - l]
  <2>1. w \in Seq(Bytes) /\ l <= m
    BY DEF Own
  <2> QED
    BY <2>1, ConcatProperties, LenProperties
<1> HIDE DEF v, l
<1>2. ASSUME NEW i \in 1 .. l + n, i <= l
      PROVE  v[i] = w[i] /\ i \in 1 .. l /\ v[i][1] = c /\ v[i][2] \in 1 .. m
  <2>1. v[i] = w[i]
    BY <1>1, <1>2
  <2>2. i \in 1 .. l
    BY <1>1, <1>2
  <2> QED
    BY <2>1, <2>2 DEF Own, l
<1>3. ASSUME NEW i \in 1 .. l + n, ~(i <= l)
      PROVE  v[i] = <<c, m + (i - l)>> /\ i - l \in 1 .. n
  <2>1. v[i] = r[i - l] /\ i - l \in 1 .. n
    BY <1>1, <1>3
  <2> QED
    BY <2>1
<1>4. ASSUME NEW i \in 1 .. l + n PROVE v[i][1] = c /\ v[i][2] \in 1 .. m + n
  <2>1. CASE i <= l
    BY <1>2, <2>1
  <2>2. CASE ~(i <= l)
    BY <1>3, <2>2
  <2> QED
    BY <2>1, <2>2
<1>5. ASSUME NEW i \in 1 .. l + n, NEW j \in 1 .. l + n, i < j PROVE v[i][2] < v[j][2]
  <2>1. CASE j <= l
    <3>1. i <= l
      BY <1>1, <1>5, <2>1
    <3>2. i \in 1 .. Len(w) /\ j \in 1 .. Len(w)
      BY <1>2, <2>1, <3>1 DEF l
    <3>3. w[i][2] < w[j][2]
      BY <1>5, <3>2 DEF Own
    <3> QED
      BY <1>2, <2>1, <3>1, <3>3
  <2>2. CASE ~(j <= l) /\ i <= l
    <3>1. v[i][2] \in 1 .. m
      BY <1>2, <2>2
    <3>2. v[j][2] = m + (j - l) /\ j - l \in 1 .. n
      BY <1>3, <2>2
    <3> QED
      BY <3>1, <3>2
  <2>3. CASE ~(i <= l)
    <3>1. ~(j <= l)
      BY <1>1, <1>5, <2>3
    <3>2. v[i][2] = m + (i - l) /\ v[j][2] = m + (j - l)
      BY <1>3, <2>3, <3>1
    <3> QED
      BY <1>1, <1>5, <3>2
  <2> QED
    BY <2>1, <2>2, <2>3
<1>6. ASSUME Commands(c) = {}
      PROVE  l + n = m + n /\ \A k \in 1 .. m + n : v[k] = <<c, k>>
  <2>1. l = m /\ \A k \in 1 .. m : w[k] = <<c, k>>
    BY <1>6 DEF Own, l
  <2>2. ASSUME NEW k \in 1 .. m + n PROVE v[k] = <<c, k>>
    <3>1. CASE k <= l
      BY <1>2, <2>1, <3>1
    <3>2. CASE ~(k <= l)
      BY <1>3, <2>1, <3>2
    <3> QED
      BY <3>1, <3>2
  <2> QED
    BY <2>1, <2>2
<1>7. l + n <= m + n
  BY <1>1
<1> QED
  BY <1>1, <1>4, <1>5, <1>6, <1>7 DEF Own, v

LEMMA TextReceived ==
  ASSUME TypeInv, Hung, NEW c \in Conn, Text(c), Receive(c)
  PROVE  Text(c)'
<1>0. /\ pc \in [Conn -> Place] /\ DataTypes
      /\ taken \in [Conn -> Nat] /\ sent \in [Conn -> Nat]
  BY DEF TypeInv, ExitInv, SafeInv, ListTypes, DataTypes
<1>1. /\ pc[c] = "recv" /\ UNCHANGED sent
      /\ \E p \in HasArg : pc' = [pc EXCEPT ![c] = p]
  BY DEF Receive, recv_data, recv_eof, recv_error, RecvStep, AfterRecv, HasArg, ThreadStep
<1>2. pc'[c] \in HasArg
  BY <1>0, <1>1
<1>3. Commands(c)' = Commands(c) /\ \A w, n : Own(c, w, n)' = Own(c, w, n)
  BY DEF Commands, Own
<1>4. Own(c, wbuf, taken[c]) /\ (Commands(c) = {} => seekto_arg = NULL)
  BY <1>1 DEF Text, HasArg
<1>5. CASE recv_data(c)
  <2>1. PICK n \in Nat \ {0}, r \in Seq(Bytes) :
          /\ Len(r) = n /\ \A i \in 1 .. n : r[i] = <<c, taken[c] + i>>
          /\ taken[c] + n <= sent[c] /\ taken' = [taken EXCEPT ![c] = @ + n]
          /\ IF Kind(<<c, taken[c] + 1>>) = "cmd"
             THEN seekto_arg' = Arg[c] /\ UNCHANGED wbuf
             ELSE wbuf' = wbuf \o r /\ UNCHANGED seekto_arg
    BY <1>0, <1>5, RecvTakes
  <2>2. taken'[c] = taken[c] + n /\ taken[c] \in Nat /\ sent[c] \in Nat
    BY <1>0, <2>1
  <2>3. taken'[c] <= sent'[c] /\ sent'[c] <= Len(Script[c])
    BY <1>1, <2>1, <2>2 DEF Text
  <2>4. Own(c, wbuf', taken'[c]) /\ (Commands(c) = {} => seekto_arg' = NULL)
    <3>1. CASE Kind(<<c, taken[c] + 1>>) = "cmd"
      <4>1. taken[c] + 1 \in DOMAIN Script[c] /\ taken[c] + 1 # 0
        BY <2>1, <2>2, ScriptLength DEF Text
      <4>2. Commands(c) # {}
        BY <3>1, <4>1 DEF Kind, Commands
      <4>3. wbuf' = wbuf
        BY <2>1, <3>1
      <4>4. Own(c, wbuf, taken[c] + n)
        <5>1. Len(wbuf) \in Nat
          BY <1>0, LenProperties DEF DataTypes
        <5> QED
          BY <1>4, <2>1, <2>2, <4>2, <5>1 DEF Own
      <4> QED
        BY <2>2, <4>2, <4>3, <4>4
    <3>2. CASE Kind(<<c, taken[c] + 1>>) # "cmd"
      <4>1. wbuf' = wbuf \o r /\ UNCHANGED seekto_arg
        BY <2>1, <3>2
      <4>2. Own(c, wbuf \o r, taken[c] + n)
        BY <1>4, <2>1, <2>2, OwnGrows
      <4> QED
        BY <1>4, <2>2, <4>1, <4>2
    <3> QED
      BY <3>1, <3>2
  <2> HIDE DEF Own
  <2> QED
    BY <1>2, <1>3, <2>3, <2>4 DEF Text, HasArg
<1>6. CASE recv_eof(c) \/ recv_error(c)
  <2>1. /\ UNCHANGED taken
        /\ \/ UNCHANGED seekto_arg
           \/ taken[c] = 0 /\ UNCHANGED wbuf
        /\ \/ UNCHANGED wbuf
           \/ /\ wbuf # << >> /\ wbuf' = Append(wbuf, <<c, 0>>)
              /\ c \in Hangs \cup Picked
    BY <1>6 DEF recv_eof, recv_error, Hung
  <2>2. pc'[c] = "seek"
    <3>1. PICK n \in {0, -1} : AfterRecv(c, n)
      BY <1>6 DEF recv_eof, recv_error
    <3>2. n # MAXDATASIZE
      BY SizeAssumption
    <3> QED
      BY <1>0, <3>1, <3>2 DEF AfterRecv
  <2>3. wbuf \in Seq(Bytes) /\ taken[c] \in Nat
    BY <1>0 DEF DataTypes
  <2>4. \/ Own(c, wbuf', taken'[c])
        \/ /\ c \in Hangs \cup Picked
           /\ \E w \in Seq(Bytes) : /\ w # << >> /\ Own(c, w, taken'[c])
                                    /\ wbuf' = Append(w, <<c, 0>>)
    BY <1>4, <2>1, <2>3
  <2>5. Commands(c) = {} /\ taken[c] > 0 => seekto_arg' = NULL
    BY <1>4, <2>1, <2>3
  <2>6. taken'[c] <= sent'[c] /\ sent'[c] <= Len(Script[c])
    BY <1>1, <2>1 DEF Text
  <2> QED
    BY <1>3, <2>1, <2>2, <2>4, <2>5, <2>6 DEF Text
<1> QED
  BY <1>5, <1>6 DEF Receive

LEMMA TextNext ==
  ASSUME TypeInv, Hung, TextInv, [Next]_vars
  PROVE  TextInv'
<1> SUFFICES ASSUME NEW c \in Conn PROVE Text(c)'
  BY DEF TextInv
<1> USE DEF ThreadStep, threads, stdio, answer, clients, device
<1>0. /\ pc \in [Conn -> Place] /\ Text(c) /\ NULL \notin Conn
      /\ taken \in [Conn -> Nat] /\ sent \in [Conn -> Nat]
      /\ \A d \in Conn : pc[d] \in HasLock => fptr_mutex = d
      /\ Commands(c)' = Commands(c) /\ \A w, n : Own(c, w, n)' = Own(c, w, n)
  BY ConnAssumption
     DEF TypeInv, ExitInv, SafeInv, ListTypes, Owned, DataTypes, TextInv, Commands, Own
<1>1. ASSUME pc'[c] = pc[c], taken'[c] = taken[c], sent'[c] = sent[c],
             pc[c] \notin HasArg \/ UNCHANGED <<wbuf, seekto_arg>>
      PROVE  Text(c)'
  BY <1>0, <1>1 DEF Text, HasArg
<1>2. CASE Quiet \/ main_exit
  BY <1>1, <1>2 DEF Quiet, textvars, main_exit, MainStep
<1>3. CASE accept
  <2>1. backlog # << >> /\ UNCHANGED <<wbuf, seekto_arg, taken, sent>>
    BY <1>3 DEF accept, MainStep
  <2>2. PICK born \in {"start", "stillborn"} : pc' = [pc EXCEPT ![Head(backlog)] = born]
    BY <1>3 DEF accept, pthread_create
  <2>3. Head(backlog) \in Conn /\ pc[Head(backlog)] = "none"
    BY <2>1 DEF TypeInv, ExitInv, SafeInv, ListTypes, Queued
  <2>4. CASE c = Head(backlog)
    BY <1>0, <2>1, <2>2, <2>3, <2>4 DEF Text, HasArg
  <2>5. CASE c # Head(backlog)
    BY <1>0, <1>1, <2>1, <2>2, <2>3, <2>5
  <2> QED
    BY <2>4, <2>5
<1>4. ASSUME NEW p, Blank(p) PROVE Text(c)'
  <2>1. /\ taken'[c] = 0 /\ sent'[c] = 0 /\ pc'[c] \in {"none", "cut"}
    BY <1>4 DEF Blank, Nowhere
  <2> QED
    BY <2>1, ScriptLength DEF Text, HasArg
<1>5. ASSUME NEW d \in Conn, Client(d) PROVE Text(c)'
  <2>1. UNCHANGED <<pc, taken, wbuf, seekto_arg>>
    BY <1>5 DEF Client, client_connect, client_send, client_shutdown, client_hangs_up, ClientStep
  <2>2. CASE UNCHANGED sent
    BY <1>1, <2>1, <2>2
  <2>3. CASE client_send(d)
    <3>1. sent[d] < Len(Script[d]) /\ sent' = [sent EXCEPT ![d] = @ + 1]
      BY <2>3 DEF client_send
    <3>2. CASE c = d
      <4>1. sent'[c] = sent[c] + 1 /\ taken[c] \in Nat /\ sent[c] \in Nat
        BY <1>0, <3>1, <3>2
      <4>2. taken'[c] <= sent'[c] /\ sent'[c] <= Len(Script[c])
        BY <1>0, <2>1, <3>1, <3>2, <4>1, ScriptLength DEF Text
      <4> QED
        BY <1>0, <2>1, <4>2 DEF Text
    <3>3. CASE c # d
      BY <1>0, <1>1, <2>1, <3>1, <3>3
    <3> QED
      BY <3>2, <3>3
  <2> QED
    BY <1>5, <2>2, <2>3 DEF Client, client_connect, client_shutdown, client_hangs_up
<1>6. ASSUME NEW d \in Conn, thread_work_open(d) PROVE Text(c)'
  <2>1. /\ pc[d] = "start" /\ pc' = [pc EXCEPT ![d] = "recv"] /\ wbuf' = << >>
        /\ fptr_mutex = NULL /\ UNCHANGED <<taken, sent, seekto_arg>>
    BY <1>6 DEF thread_work_open, Lockable
  <2>2. seekto_arg = NULL
    BY <2>1 DEF TypeInv, ExitInv, Owned
  <2>3. CASE c = d
    <3>1. taken[c] = 0 /\ pc'[c] = "recv"
      BY <1>0, <2>1, <2>3 DEF Text
    <3>2. Own(c, << >>, 0)
      BY EmptySeq DEF Own
    <3> QED
      BY <1>0, <2>1, <2>2, <3>1, <3>2 DEF Text, HasArg
  <2>4. CASE c # d
    <3>1. pc[c] \notin HasArg /\ pc'[c] = pc[c]
      BY <1>0, <2>1, <2>4 DEF HasArg, HasLock
    <3> QED
      BY <1>1, <2>1, <3>1
  <2> QED
    BY <2>3, <2>4
<1>7. ASSUME NEW d \in Conn, Receive(d) PROVE Text(c)'
  <2>1. CASE c = d
    BY <1>0, <1>7, <2>1, TextReceived
  <2>2. CASE c # d
    <3>1. /\ pc[d] = "recv" /\ UNCHANGED sent
          /\ \E p : pc' = [pc EXCEPT ![d] = p]
          /\ UNCHANGED taken \/ \E n : taken' = [taken EXCEPT ![d] = n]
      BY <1>7 DEF Receive, recv_data, recv_eof, recv_error, RecvStep, AfterRecv
    <3>2. pc[c] \notin HasArg
      BY <1>0, <2>2, <3>1 DEF HasArg, HasLock
    <3>3. pc'[c] = pc[c] /\ taken'[c] = taken[c] /\ sent'[c] = sent[c]
      BY <1>0, <2>2, <3>1
    <3> QED
      BY <1>1, <3>2, <3>3
  <2> QED
    BY <2>1, <2>2
<1>8. ASSUME NEW d \in Conn, send_file(d) PROVE Text(c)'
  <2>1. pc[d] = "seek" /\ pc' = [pc EXCEPT ![d] = "send"] /\ UNCHANGED <<taken, sent>>
    BY <1>8 DEF send_file
  <2>2. CASE c = d
    BY <1>0, <2>1, <2>2 DEF Text, HasArg
  <2>3. CASE c # d
    <3>1. pc[c] \notin HasArg /\ pc'[c] = pc[c]
      BY <1>0, <2>1, <2>3 DEF HasArg, HasLock
    <3> QED
      BY <1>1, <2>1, <3>1
  <2> QED
    BY <2>2, <2>3
<1>9. ASSUME NEW d \in Conn,
             \/ send_turn(d) \/ send_to_reset(d) \/ thread_work_unlock(d)
             \/ thread_work_finish(d) \/ thread_work_exit(d)
      PROVE  Text(c)'
  <2>1. UNCHANGED <<taken, sent, wbuf, seekto_arg>>
    BY <1>9 DEF send_turn, send_to_reset, SendStep, thread_work_unlock,
       thread_work_finish, thread_work_exit
  <2>2. UNCHANGED pc \/ \E p \in After : pc' = [pc EXCEPT ![d] = p]
    BY <1>9 DEF send_turn, send_to_reset, SendStep, thread_work_unlock,
       thread_work_finish, thread_work_exit, After
  <2>3. pc'[c] = pc[c] \/ pc'[c] \in After
    BY <1>0, <2>2
  <2> QED
    BY <1>0, <1>1, <2>1, <2>3 DEF Text, After, HasArg
<1> QED
  BY <1>2, <1>3, <1>4, <1>5, <1>6, <1>7, <1>8, <1>9, Steps

\* send_file reads what its own fseek has written last.
LEMMA SendFileAnswers ==
  ASSUME TypeInv, StoreInv, TextInv, NEW c \in Conn, send_file(c)
  PROVE  Answered(c)'
<1> DEFINE n == taken[c]
<1>1. /\ pc[c] = "seek" /\ Flush /\ UNCHANGED <<taken, fptr_mutex>>
      /\ resp' = [resp EXCEPT ![c] =
                    SubSeq(Visible(buffer', file'),
                           SeekPos(buffer', seekto_arg) + 1, Len(Visible(buffer', file')))]
  BY DEF send_file
<1>2. fptr_mutex = c /\ c # NULL
  BY <1>1, ConnAssumption DEF TypeInv, ExitInv, Owned, HasLock
<1>3. /\ DataTypes /\ wbuf \in Seq(Bytes) /\ resp \in [Conn -> Seq(Bytes)]
      /\ n \in Nat /\ Text(c)
  BY DEF TypeInv, DataTypes, TextInv
<1>4. Commands(c)' = Commands(c)
  BY DEF Commands
<1> SUFFICES ASSUME Commands(c) = {}, n > 0, Script[c][n] = "nl",
                    <<c, 0>> \notin ToSet(Stored')
             PROVE  LET others == Len(resp'[c]) - n
                    IN  /\ others >= 0
                        /\ \A k \in 1 .. n : resp'[c][others + k] = <<c, k>>
                        /\ \A i \in 1 .. others : resp'[c][i][1] # c
  BY <1>1, <1>4 DEF Answered
<1>5. /\ buffer' \in BufferOf(Seq(Bytes)) /\ WellFormed(buffer')
      /\ partial' \in Seq(Bytes) /\ file' \in Seq(Bytes) \cup {NULL}
      /\ ~CharDevice => partial' = << >>
      /\ wbuf # << >> /\ Kind(Last(wbuf)) = "nl" => partial' = << >>
  BY <1>1, <1>2, <1>3, FlushStores
<1>6. PICK A \in Seq(Bytes), X \in Seq(Bytes) : Stored = A \o X /\ Stored' = X \o wbuf
  BY <1>1, <1>2, <1>3, FlushStores
<1>7. /\ Len(X) \in Nat /\ Len(A) \in Nat /\ Len(wbuf) \in Nat
      /\ Stored' \in Seq(Bytes) /\ Len(Stored') = Len(X) + Len(wbuf)
      /\ DOMAIN Stored' = 1 .. Len(X) + Len(wbuf)
      /\ \A i \in 1 .. Len(X) + Len(wbuf) :
           Stored'[i] = IF i <= Len(X) THEN X[i] ELSE wbuf[i - Len(X)]
  <2>1. /\ X \o wbuf \in Seq(Bytes) /\ Len(X \o wbuf) = Len(X) + Len(wbuf)
        /\ \A i \in 1 .. Len(X) + Len(wbuf) :
             (X \o wbuf)[i] = IF i <= Len(X) THEN X[i] ELSE wbuf[i - Len(X)]
    BY <1>3, <1>6, ConcatProperties
  <2>2. DOMAIN (X \o wbuf) = 1 .. Len(X \o wbuf)
    BY <2>1, LenProperties
  <2>3. Len(X) \in Nat /\ Len(A) \in Nat /\ Len(wbuf) \in Nat
    BY <1>3, <1>6, LenProperties
  <2> QED
    BY <1>6, <2>1, <2>2, <2>3
<1>8. Len(wbuf) = n /\ \A k \in 1 .. n : wbuf[k] = <<c, k>>
  <2>1. ASSUME NEW w \in Seq(Bytes), wbuf = Append(w, <<c, 0>>) PROVE FALSE
    <3> DEFINE i == Len(wbuf)
    <3>1. <<c, 0>> \in Bytes
      BY DEF Bytes
    <3>2. /\ Len(Append(w, <<c, 0>>)) = Len(w) + 1 /\ Len(w) \in Nat
          /\ Append(w, <<c, 0>>)[Len(w) + 1] = <<c, 0>>
      BY <3>1, AppendProperties, LenProperties
    <3>3. wbuf[i] = <<c, 0>> /\ i \in 1 .. Len(wbuf)
      BY <2>1, <3>2
    <3> HIDE DEF i
    <3>4. /\ Len(X) + i \in 1 .. Len(X) + Len(wbuf) /\ ~(Len(X) + i <= Len(X))
          /\ (Len(X) + i) - Len(X) = i
      BY <1>7, <3>3
    <3>5. Stored'[Len(X) + i] = <<c, 0>>
      BY <1>7, <3>3, <3>4
    <3>6. <<c, 0>> \in {Stored'[j] : j \in DOMAIN Stored'}
      BY <1>7, <3>4, <3>5
    <3> QED
      BY <3>6 DEF ToSet
  <2> QED
    BY <1>1, <1>3, <2>1 DEF Text, Own
<1>9. seekto_arg = NULL
  BY <1>1, <1>3 DEF Text, HasArg
<1>10. wbuf # << >> /\ Kind(Last(wbuf)) = "nl"
  <2>1. n \in 1 .. n /\ n # 0
    BY <1>3
  <2>2. wbuf[Len(wbuf)] = <<c, n>>
    BY <1>8, <2>1
  <2>3. wbuf # << >>
    BY <1>8, <2>1
  <2> HIDE DEF n
  <2> QED
    BY <2>1, <2>2, <2>3 DEF Last, Kind
<1>11. resp'[c] = Stored'
  <2> DEFINE all == Visible(buffer', file')
  <2>1. all \in Seq(Bytes)
    BY <1>5, VisibleType
  <2>2. partial' = << >>
    BY <1>5, <1>10
  <2>3. Stored' = all \o << >>
    BY <2>2 DEF Stored
  <2>4. Stored' = all
    BY <2>1, <2>3, ConcatEmptySeq
  <2>5. SeekPos(buffer', seekto_arg) = 0
    BY <1>5, <1>9, SeekPosType
  <2> HIDE DEF all
  <2>6. resp'[c] = SubSeq(all, 0 + 1, Len(all))
    BY <1>1, <1>3, <2>5 DEF all
  <2>7. 0 + 1 = 1
    OBVIOUS
  <2>8. SubSeq(all, 1, Len(all)) = all
    BY <2>1, SubSeqFull
  <2> QED
    BY <2>4, <2>6, <2>7, <2>8
<1>12. Len(resp'[c]) - n = Len(X)
  BY <1>3, <1>7, <1>8, <1>11
<1>13. ASSUME NEW k \in 1 .. n PROVE resp'[c][Len(X) + k] = <<c, k>>
  <2>1. /\ Len(X) + k \in 1 .. Len(X) + Len(wbuf) /\ ~(Len(X) + k <= Len(X))
        /\ (Len(X) + k) - Len(X) = k
    BY <1>3, <1>7, <1>8
  <2>2. Stored'[Len(X) + k] = wbuf[k]
    BY <1>7, <2>1
  <2> QED
    BY <1>8, <1>11, <2>2
<1>14. ASSUME NEW i \in 1 .. Len(X) PROVE resp'[c][i][1] # c
  <2>1. i \in 1 .. Len(X) + Len(wbuf) /\ i <= Len(X)
    BY <1>7
  <2>2. Stored'[i] = X[i]
    BY <1>7, <2>1
  <2>3. Len(A) + i \in 1 .. Len(Stored) /\ Stored[Len(A) + i] = X[i]
    <3>1. /\ Len(A \o X) = Len(A) + Len(X)
          /\ \A j \in 1 .. Len(A) + Len(X) :
               (A \o X)[j] = IF j <= Len(A) THEN A[j] ELSE X[j - Len(A)]
      BY <1>6, ConcatProperties
    <3>2. /\ Len(A) + i \in 1 .. Len(A) + Len(X) /\ ~(Len(A) + i <= Len(A))
          /\ (Len(A) + i) - Len(A) = i
      BY <1>7
    <3> QED
      BY <1>6, <3>1, <3>2
  <2>4. pc[X[i][1]] \in After \cup {"cut"}
    BY <2>3 DEF StoreInv
  <2> QED
    BY <1>1, <1>11, <2>2, <2>4 DEF After
<1> DEFINE m == Len(resp'[c]) - n
<1>15. m = Len(X)
  BY <1>12
<1> HIDE DEF n, m
<1>16. /\ m >= 0 /\ \A k \in 1 .. n : resp'[c][m + k] = <<c, k>>
       /\ \A i \in 1 .. m : resp'[c][i][1] # c
  BY <1>7, <1>13, <1>14, <1>15
<1> QED
  BY <1>16 DEF m

LEMMA AnswersNext ==
  ASSUME TypeInv, StoreInv, TextInv, AnswerEndsWithOwnText, [Next]_vars
  PROVE  AnswerEndsWithOwnText'
<1> SUFFICES ASSUME NEW c \in Conn PROVE Answered(c)'
  BY DEF AnswerEndsWithOwnText, Answered
<1> USE DEF ThreadStep, threads, stdio, answer, clients, device
<1>0. /\ pc \in [Conn -> Place] /\ DataTypes /\ taken \in [Conn -> Nat]
      /\ resp \in [Conn -> Seq(Bytes)]
      /\ \A d \in Conn : pc[d] \in HasLock => fptr_mutex = d
      /\ Commands(c)' = Commands(c) /\ NULL \notin Conn
  BY ConnAssumption DEF TypeInv, ExitInv, SafeInv, ListTypes, Owned, DataTypes, Commands
<1>1. ASSUME pc'[c] # "send" PROVE Answered(c)'
  BY <1>1 DEF Answered
<1>2. ASSUME pc'[c] = pc[c], taken'[c] = taken[c], resp'[c] = resp[c], Stored' = Stored
      PROVE  Answered(c)'
  <2>1. Answered(c)
    BY DEF AnswerEndsWithOwnText, Answered
  <2> QED
    BY <1>0, <1>2, <2>1 DEF Answered
<1>3. CASE Quiet
  BY <1>0, <1>2, <1>3, StoredKept DEF Quiet, textvars
<1>4. CASE main_exit
  <2>1. proc' = "exited" /\ CleanExit'
    BY <1>4, MainExitIsClean DEF TypeInv, ExitInv, main_exit
  <2> QED
    BY <1>1, <2>1 DEF CleanExit
<1>5. CASE accept
  <2>1. UNCHANGED <<taken, resp, buffer, partial, file>>
    BY <1>5 DEF accept, MainStep
  <2>2. PICK born \in {"start", "stillborn"} : pc' = [pc EXCEPT ![Head(backlog)] = born]
    BY <1>5 DEF accept, pthread_create
  <2>3. pc'[c] = pc[c] \/ pc'[c] # "send"
    BY <1>0, <2>2
  <2> QED
    BY <1>0, <1>1, <1>2, <2>1, <2>3, StoredKept
<1>6. ASSUME NEW p, Blank(p) PROVE Answered(c)'
  <2>1. pc'[c] \in {"none", "cut"}
    BY <1>6 DEF Blank
  <2> QED
    BY <1>1, <2>1
<1>7. ASSUME NEW d \in Conn, Client(d) \/ send_turn(d) \/ send_to_reset(d)
      PROVE  Answered(c)'
  <2>1. UNCHANGED <<pc, taken, resp, buffer, partial, file>>
    BY <1>7 DEF Client, client_connect, client_send, client_shutdown, client_hangs_up,
       ClientStep, send_turn, send_to_reset, SendStep
  <2> QED
    BY <1>0, <1>2, <2>1, StoredKept
<1>8. ASSUME NEW d \in Conn, thread_work_open(d) PROVE Answered(c)'
  <2>1. pc' = [pc EXCEPT ![d] = "recv"] /\ UNCHANGED <<taken, resp>>
    BY <1>8 DEF thread_work_open
  <2>2. pc'[c] = pc[c] \/ pc'[c] # "send"
    BY <1>0, <2>1
  <2> QED
    BY <1>0, <1>1, <1>2, <1>8, <2>1, <2>2, StoredKept
<1>9. ASSUME NEW d \in Conn, Receive(d) PROVE Answered(c)'
  <2>1. /\ UNCHANGED <<resp, buffer, partial, file>>
        /\ \E p \in HasArg : pc' = [pc EXCEPT ![d] = p]
        /\ UNCHANGED taken \/ \E n : taken' = [taken EXCEPT ![d] = n]
    BY <1>9 DEF Receive, recv_data, recv_eof, recv_error, RecvStep, AfterRecv, HasArg
  <2>2. CASE c = d
    BY <1>0, <1>1, <2>1, <2>2 DEF HasArg
  <2>3. CASE c # d
    <3>1. pc'[c] = pc[c] /\ taken'[c] = taken[c]
      BY <1>0, <2>1, <2>3
    <3> QED
      BY <1>0, <1>2, <2>1, <3>1, StoredKept
  <2> QED
    BY <2>2, <2>3
<1>10. ASSUME NEW d \in Conn, send_file(d) PROVE Answered(c)'
  <2>1. CASE c = d
    BY <1>10, <2>1, SendFileAnswers
  <2>2. CASE c # d
    <3>1. pc[d] = "seek" /\ pc' = [pc EXCEPT ![d] = "send"]
      BY <1>10 DEF send_file
    <3>2. pc'[c] # "send"
      BY <1>0, <2>2, <3>1 DEF HasLock
    <3> QED
      BY <1>1, <3>2
  <2> QED
    BY <2>1, <2>2
<1>11. ASSUME NEW d \in Conn, \/ thread_work_unlock(d) \/ thread_work_finish(d)
                              \/ thread_work_exit(d)
       PROVE  Answered(c)'
  <2>1. /\ UNCHANGED <<taken, resp, buffer, partial, file>>
        /\ \E p : p # "send" /\ pc' = [pc EXCEPT ![d] = p]
    BY <1>11 DEF thread_work_unlock, thread_work_finish, thread_work_exit
  <2>2. pc'[c] = pc[c] \/ pc'[c] # "send"
    BY <1>0, <2>1
  <2> QED
    BY <1>0, <1>1, <1>2, <2>1, <2>2, StoredKept
<1> QED
  BY <1>3, <1>4, <1>5, <1>6, <1>7, <1>8, <1>9, <1>10, <1>11, Steps

LEMMA TextInit == Init => TextInv /\ Hung
<1>1. ASSUME Init, NEW c \in Conn PROVE Text(c)
  BY <1>1, ScriptLength DEF Init, Text, HasArg, Nowhere
<1>2. Init => Hung
  BY DEF Init, Hung
<1> QED
  BY <1>1, <1>2 DEF TextInv

\* A client that sends no command and whose text is complete gets it back, whole
\* and in order, at the end of its answer: no other thread comes between its fseek
\* and its fread, and the ring drops older lines only.
THEOREM ServerAnswers == Spec => []AnswerEndsWithOwnText
<1>1. Init => AnswerEndsWithOwnText
  BY DEF Init, AnswerEndsWithOwnText
<1>2. TypeInv /\ StoreInv /\ TextInv /\ Hung /\ AnswerEndsWithOwnText /\ [Next]_vars
        => StoreInv' /\ TextInv' /\ Hung' /\ AnswerEndsWithOwnText'
  BY StoreNext, TextNext, HungNext, AnswersNext
<1> QED
  BY <1>1, <1>2, StoreInit, TextInit, ServerTypeInvariant, PTL DEF Spec

-----------------------------------------------------------------------------
(* The server implements LineService: it hears a connection in recv_data   *)
(* and serves it in send_file; the other steps of threads and clients      *)
(* change nothing that LineService speaks of.                              *)

StateOf   == IF proc \in {"running", "exited"} THEN proc ELSE "dead"
LogOf     == IF CharDevice THEN Lines(buffer)
             ELSE IF file \in {NULL, << >>} THEN << >> ELSE <<file>>
WaitingOf == {c \in Conn : pc[c] \in Before}

\* What a thread flushes is a text that its connection may leave.
LEMMA OwnIsSaid ==
  ASSUME NEW c \in Conn, NEW w, taken[c] \in Nat, taken[c] <= Len(Script[c]),
         Own(c, w, taken[c])
  PROVE  /\ w \in Service!Texts(c)
         /\ w # << >> /\ c \in Hangs \cup Picked => Append(w, <<c, 0>>) \in Service!Texts(c)
<1> DEFINE n == taken[c]
           said == SubSeq(Says[c], 1, n)
           Rising(m) == {f \in [1 .. m -> 1 .. n] :
                           \A i, j \in 1 .. m : i < j => f[i] < f[j]}
           picks == UNION {Rising(m) : m \in 0 .. n}
           own == IF c \in Seekers THEN {[i \in DOMAIN f |-> said[f[i]]] : f \in picks}
                  ELSE {said}
<1>1. /\ own \subseteq Service!Texts(c)
      /\ \A text \in own \ {<< >>} : \A junk \in MadeUp[c] : text \o junk \in Service!Texts(c)
  <2>1. Service!Texts(c) =
          own \cup UNION {{text \o junk : junk \in MadeUp[c]} : text \in own \ {<< >>}}
    BY DEF Service!Texts
  <2> HIDE DEF own
  <2> QED
    BY <2>1
<1>2. /\ w \in Seq(Bytes) /\ Len(w) \in Nat /\ Len(w) <= n /\ n \in Nat
      /\ DOMAIN Script[c] = 1 .. Len(Script[c]) /\ Len(Script[c]) \in Nat
      /\ \A i \in 1 .. Len(w) : w[i] \in Bytes
  <2>1. w \in Seq(Bytes) /\ Len(w) <= n
    BY DEF Own
  <2> QED
    BY <2>1, ScriptLength, LenProperties, ElementOfSeq
<1>3. said \in Seq(Bytes) /\ Len(said) = n /\ \A i \in 1 .. n : said[i] = <<c, i>>
  <2> DEFINE s == Says[c]
  <2>1. s = [i \in 1 .. Len(Script[c]) |-> <<c, i>>]
    BY <1>2 DEF Says
  <2>2. \A i \in 1 .. Len(Script[c]) : <<c, i>> \in Bytes
    BY DEF Bytes
  <2>3. s \in Seq(Bytes) /\ Len(s) = Len(Script[c])
    BY <1>2, <2>1, <2>2
  <2>4. \A i \in 1 .. n : s[i] = <<c, i>>
    BY <1>2, <2>1
  <2>5. \A i \in 1 .. n : s[i] \in Bytes
    <3>1. ASSUME NEW i \in 1 .. n PROVE <<c, i>> \in Bytes
      BY <1>2, <2>2
    <3> HIDE DEF s, n
    <3> QED
      BY <2>4, <3>1
  <2> HIDE DEF s, n
  <2>6. /\ SubSeq(s, 1, n) \in Seq(Bytes)
        /\ Len(SubSeq(s, 1, n)) = IF 1 <= n THEN n - 1 + 1 ELSE 0
        /\ \A i \in 1 .. n - 1 + 1 : SubSeq(s, 1, n)[i] = s[1 + i - 1]
    BY <1>2, <2>5, SubSeqProperties
  <2> QED
    BY <1>2, <2>4, <2>6 DEF s
<1> HIDE DEF said
<1> DEFINE m == Len(w)
           f == [i \in 1 .. m |-> w[i][2]]
<1>4. w \in own
  <2>1. CASE c \notin Seekers
    <3>1. Len(w) = n /\ \A k \in 1 .. n : w[k] = <<c, k>>
      BY <2>1 DEF Own, Seekers
    <3>2. w = said
      <4>1. w = [k \in 1 .. n |-> w[k]] /\ said = [k \in 1 .. n |-> said[k]]
        BY <1>2, <1>3, <3>1
      <4>2. \A k \in 1 .. n : w[k] = said[k]
        BY <1>3, <3>1
      <4> HIDE DEF n
      <4> QED
        BY <4>1, <4>2
    <3> QED
      BY <2>1, <3>2
  <2>2. CASE c \in Seekers
    <3>1. \A i \in 1 .. m : w[i] = <<c, w[i][2]>> /\ w[i][2] \in 1 .. n
      <4>1. \A i \in 1 .. m : w[i][1] = c /\ w[i][2] \in 1 .. n /\ w[i] \in Conn \X Nat
        BY <1>2 DEF Own, Bytes
      <4> QED
        BY <4>1
    <3>2. \A i, j \in 1 .. m : i < j => w[i][2] < w[j][2]
      BY DEF Own
    <3>3. f \in [1 .. m -> 1 .. n] /\ \A i, j \in 1 .. m : i < j => f[i] < f[j]
      BY <3>1, <3>2
    <3>4. DOMAIN f = 1 .. m /\ \A i \in 1 .. m : f[i] \in 1 .. n /\ w[i] = <<c, f[i]>>
      BY <3>1
    <3>5. w = [i \in 1 .. m |-> w[i]] /\ m \in 0 .. n
      BY <1>2
    <3> HIDE DEF m, f, n
    <3>6. f \in picks
      <4>1. f \in Rising(m)
        BY <3>3
      <4> HIDE DEF Rising
      <4> QED
        BY <3>5, <4>1
    <3>7. w = [i \in DOMAIN f |-> said[f[i]]]
      BY <1>3, <3>4, <3>5
    <3> HIDE DEF picks
    <3> QED
      BY <2>2, <3>6, <3>7
  <2> QED
    BY <2>1, <2>2
<1> HIDE DEF own, n
<1>5. ASSUME w # << >>, c \in Hangs \cup Picked
      PROVE  Append(w, <<c, 0>>) \in Service!Texts(c)
  <2>1. << <<c, 0>> >> \in MadeUp[c]
    BY <1>5 DEF MadeUp
  <2>2. Append(w, <<c, 0>>) = w \o << <<c, 0>> >>
    <3>1. <<c, 0>> \in Bytes
      BY DEF Bytes
    <3> QED
      BY <1>2, <3>1
  <2> QED
    BY <1>1, <1>4, <1>5, <2>1, <2>2
<1> QED
  BY <1>1, <1>4, <1>5

LEMMA WbufIsSaid ==
  ASSUME TypeInv, TextInv, NEW c \in Conn, pc[c] = "seek"
  PROVE  /\ wbuf \in Service!Texts(c)
         /\ wbuf # << >> => (Kind(Last(wbuf)) = "nl" <=> Last(wbuf) \in Newlines)
         /\ c \in Seekers \/ wbuf = << >> \/ seekto_arg = NULL
<1>1. /\ Text(c) /\ taken[c] \in Nat /\ sent[c] \in Nat
      /\ wbuf \in Seq(Bytes) /\ Len(wbuf) \in Nat
  <2>1. wbuf \in Seq(Bytes)
    BY DEF TypeInv, DataTypes
  <2> QED
    BY <2>1, LenProperties DEF TextInv, TypeInv, DataTypes
<1>2. taken[c] <= Len(Script[c]) /\ DOMAIN Script[c] = 1 .. Len(Script[c])
      /\ Len(Script[c]) \in Nat
  BY <1>1, ScriptLength DEF Text
<1>3. CASE Own(c, wbuf, taken[c])
  <2>1. wbuf \in Service!Texts(c)
    BY <1>1, <1>2, <1>3, OwnIsSaid
  <2>2. ASSUME wbuf # << >> PROVE Kind(Last(wbuf)) = "nl" <=> Last(wbuf) \in Newlines
    <3> DEFINE b == wbuf[Len(wbuf)]
    <3>1. Len(wbuf) \in 1 .. Len(wbuf)
      BY <1>1, <2>2
    <3>2. b[1] = c /\ b[2] \in 1 .. taken[c] /\ b \in Conn \X Nat
      BY <1>1, <1>3, <3>1, ElementOfSeq DEF Own, Bytes
    <3>3. b[2] # 0 /\ b[2] \in DOMAIN Script[c] /\ b = <<c, b[2]>>
      BY <1>1, <1>2, <3>2
    <3> HIDE DEF b
    <3>4. Kind(b) = Script[c][b[2]]
      BY <3>2, <3>3 DEF Kind
    <3>5. b \in Newlines <=> Script[c][b[2]] = "nl"
      BY <3>2, <3>3 DEF Newlines
    <3> QED
      BY <3>4, <3>5 DEF Last, b
  <2>3. c \in Seekers \/ wbuf = << >> \/ seekto_arg = NULL
    <3>1. CASE Commands(c) = {} /\ wbuf # << >>
      <4>1. taken[c] > 0
        BY <1>1, <1>3, <3>1 DEF Own
      <4> QED
        BY <1>1, <3>1, <4>1 DEF Text, HasArg
    <3> QED
      BY <3>1 DEF Seekers
  <2> QED
    BY <2>1, <2>2, <2>3
<1>4. ASSUME NEW w \in Seq(Bytes), w # << >>, Own(c, w, taken[c]), wbuf = Append(w, <<c, 0>>),
             c \in Hangs \cup Picked
      PROVE  /\ wbuf \in Service!Texts(c)
             /\ wbuf # << >> => (Kind(Last(wbuf)) = "nl" <=> Last(wbuf) \in Newlines)
             /\ c \in Seekers \/ wbuf = << >> \/ seekto_arg = NULL
  <2>1. wbuf \in Service!Texts(c)
    BY <1>1, <1>2, <1>4, OwnIsSaid
  <2>2. Last(wbuf) = <<c, 0>>
    <3>1. <<c, 0>> \in Bytes
      BY DEF Bytes
    <3>2. Last(Append(w, <<c, 0>>)) = <<c, 0>>
      BY <3>1, AppendProperties, LenProperties DEF Last
    <3> QED
      BY <1>4, <3>2
  <2>3. Kind(<<c, 0>>) = "x" /\ <<c, 0>> \notin Newlines
    <3>1. <<c, 0>>[2] = 0
      OBVIOUS
    <3>2. \A d \in Conn : 0 \notin DOMAIN Script[d]
      BY ScriptLength
    <3> QED
      BY <3>1, <3>2 DEF Kind, Newlines
  <2>4. c \in Seekers \/ seekto_arg = NULL
    <3>1. CASE Commands(c) = {}
      <4>1. Len(w) \in Nat /\ Len(w) # 0
        BY <1>4, LenProperties, EmptySeq
      <4>2. taken[c] > 0
        BY <1>1, <1>4, <3>1, <4>1 DEF Own
      <4> QED
        BY <1>1, <3>1, <4>2 DEF Text, HasArg
    <3> QED
      BY <3>1 DEF Seekers
  <2> QED
    BY <2>1, <2>2, <2>3, <2>4
<1> QED
  BY <1>1, <1>3, <1>4 DEF Text

LEMMA FlattenOne ==
  ASSUME NEW V, NEW x \in Seq(V)
  PROVE  FlattenSeq(<<x>>) = x /\ FlattenSeq(<< >>) = << >>
<1>1. FlattenSeq(<< >>) = << >>
  BY DEF FlattenSeq
<1>2. << >> \in Seq(Seq(V)) /\ Append(<< >>, x) = <<x>>
  OBVIOUS
<1>3. FlattenSeq(Append(<< >>, x)) = FlattenSeq(<< >>) \o x
  BY <1>2, FlattenAppend
<1> QED
  BY <1>1, <1>2, <1>3, ConcatEmptySeq

\* LineService reads all there is.
LEMMA FlattenLog ==
  ASSUME DataTypes
  PROVE  FlattenSeq(LogOf) = Visible(buffer, file) /\ FlattenSeq(LogOf) \in Seq(Bytes)
<1>0. FlattenSeq(<< >>) = << >>
  BY DEF FlattenSeq
<1>1. CASE CharDevice
  BY <1>1, VisibleType DEF LogOf, Visible, DataTypes
<1>2. CASE ~CharDevice /\ file = NULL
  BY <1>0, <1>2, EmptySeq DEF LogOf, Visible
<1>3. CASE ~CharDevice /\ file # NULL
  <2>1. file \in Seq(Bytes)
    BY <1>3 DEF DataTypes
  <2>2. FlattenSeq(<<file>>) = file
    BY <2>1, FlattenOne
  <2>3. LogOf = IF file = << >> THEN << >> ELSE <<file>>
    BY <1>3 DEF LogOf
  <2>4. FlattenSeq(LogOf) = file
    BY <1>0, <2>2, <2>3
  <2> QED
    BY <1>3, <2>1, <2>4 DEF Visible
<1> QED
  BY <1>1, <1>2, <1>3

\* The write that fseek causes is LineService's Put.
LEMMA FlushPuts ==
  ASSUME DataTypes, fptr_mutex # NULL, Flush,
         wbuf # << >> => (Kind(Last(wbuf)) = "nl" <=> Last(wbuf) \in Newlines)
  PROVE  \/ wbuf = << >> /\ UNCHANGED <<LogOf, partial>>
         \/ /\ wbuf # << >> /\ ~CharDevice
            /\ LogOf' = <<FlattenSeq(LogOf) \o wbuf>> /\ UNCHANGED partial
         \/ /\ wbuf # << >> /\ CharDevice
            /\ IF Last(wbuf) \in Newlines
               THEN /\ LogOf' = Service!Kept(Append(LogOf, partial \o wbuf))
                    /\ partial' = << >>
               ELSE partial' = partial \o wbuf /\ UNCHANGED LogOf
<1> DEFINE bytes == partial \o wbuf
<1>0. /\ wbuf \in Seq(Bytes) /\ partial \in Seq(Bytes) /\ bytes \in Seq(Bytes)
      /\ buffer \in BufferOf(Seq(Bytes)) /\ WellFormed(buffer)
  BY ConcatProperties DEF DataTypes
<1>1. wbuf # << >> => Last(bytes) = Last(wbuf)
  <2>1. Len(bytes) = Len(partial) + Len(wbuf) /\ Len(partial) \in Nat /\ Len(wbuf) \in Nat
    BY <1>0, ConcatProperties
  <2>2. wbuf # << >> => bytes[Len(bytes)] = wbuf[Len(wbuf)]
    BY <1>0, <2>1, ConcatProperties
  <2> QED
    BY <2>2 DEF Last
<1>2. CASE wbuf = << >>
  BY <1>2 DEF Flush, device, LogOf, CharDevice
<1>3. CASE wbuf # << >> /\ ~CharDevice
  <2>1. file' = file \o wbuf /\ UNCHANGED <<buffer, partial>>
    BY <1>3 DEF Flush
  <2>2. file \in Seq(Bytes) /\ file # NULL
    BY <1>3 DEF DataTypes
  <2>3. file' \in Seq(Bytes)
    BY <1>0, <2>1, <2>2, ConcatProperties
  <2>4. file' # << >> /\ file' # NULL
    <3>1. file \o wbuf # << >>
      BY <1>0, <1>3, <2>2, ConcatEqualIffEmpty
    <3> QED
      BY <2>1, <2>3, <3>1, TextAssumption
  <2>5. LogOf' = <<file'>>
    BY <1>3, <2>4 DEF LogOf, CharDevice
  <2>6. FlattenSeq(LogOf) = file
    BY <1>3, <2>2, FlattenLog DEF Visible
  <2> QED
    BY <1>3, <2>1, <2>5, <2>6
<1>4. CASE wbuf # << >> /\ CharDevice /\ Last(wbuf) \in Newlines
  <2>1. /\ buffer' = aesd_circular_buffer_add_entry(buffer,
                       [buffptr |-> bytes, size |-> Len(bytes)])
        /\ partial' = << >> /\ UNCHANGED file
    BY <1>1, <1>4 DEF Flush
  <2> HIDE DEF bytes
  <2> DEFINE L == Lines(buffer)
  <2>2. /\ buffer.full => L # << >> /\ Lines(buffer') = Append(Tail(L), bytes)
        /\ ~buffer.full => Lines(buffer') = Append(L, bytes)
    BY <1>0, <2>1, LinesAdd
  <2>3. L \in Seq(Seq(Bytes)) /\ Len(L) = Count(buffer) /\ Len(L) \in Nat
    BY <1>0, LinesType, LenProperties
  <2>4. (buffer.full => Len(L) = MAX) /\ (~buffer.full => Len(L) < MAX)
    <3>1. /\ buffer.full => Len(Log(buffer)) = MAX
          /\ ~buffer.full => Len(Log(buffer)) < MAX
      <4> DEFINE e == [buffptr |-> bytes, size |-> Len(bytes)]
      <4>1. e \in EntryOf(Seq(Bytes))
        BY <1>0 DEF EntryOf
      <4> HIDE DEF e
      <4> QED
        BY <1>0, <4>1, TextAssumption, AddEntryLog
    <3>2. Len(Log(buffer)) = Count(buffer)
      BY <1>0, LogIsSeq
    <3> QED
      BY <2>3, <3>1, <3>2
  <2>5. LogOf = L /\ LogOf' = Lines(buffer')
    BY <1>4 DEF LogOf, CharDevice
  <2> HIDE DEF L
  <2>6. Len(Append(L, bytes)) = Len(L) + 1 /\ MAX \in Nat
    BY <1>0, <2>3, MaxAssumption, AppendProperties
  <2>7. CASE buffer.full
    <3>1. Tail(Append(L, bytes)) = Append(Tail(L), bytes)
      <4> DEFINE u == Append(L, bytes)
                 v == Append(Tail(L), bytes)
      <4>1. L # << >> /\ Len(L) \in Nat /\ Len(L) # 0
        BY <2>2, <2>3, <2>7, EmptySeq
      <4>2. /\ Tail(L) \in Seq(Seq(Bytes)) /\ Len(Tail(L)) = Len(L) - 1
            /\ \A i \in 1 .. Len(L) - 1 : Tail(L)[i] = L[i + 1]
        BY <2>3, <4>1, HeadTailProperties
      <4>3. /\ u \in Seq(Seq(Bytes)) /\ Len(u) = Len(L) + 1 /\ u[Len(L) + 1] = bytes
            /\ \A i \in 1 .. Len(L) : u[i] = L[i]
        BY <1>0, <2>3, AppendProperties
      <4> DEFINE T == Tail(L)
      <4> HIDE DEF T
      <4>4. /\ v \in Seq(Seq(Bytes)) /\ Len(v) = Len(L) /\ v[Len(L)] = bytes
            /\ \A i \in 1 .. Len(L) - 1 : v[i] = T[i]
        <5>1. T \in Seq(Seq(Bytes)) /\ Len(T) = Len(L) - 1
          BY <4>2 DEF T
        <5>2. /\ Append(T, bytes) \in Seq(Seq(Bytes)) /\ Len(Append(T, bytes)) = Len(T) + 1
              /\ Append(T, bytes)[Len(T) + 1] = bytes
              /\ \A i \in 1 .. Len(T) : Append(T, bytes)[i] = T[i]
          BY <1>0, <5>1, AppendProperties
        <5>3. Len(T) + 1 = Len(L)
          BY <4>1, <5>1
        <5> QED
          BY <5>1, <5>2, <5>3 DEF T
      <4> HIDE DEF u, v
      <4>5. u # << >>
        BY <4>1, <4>3
      <4>6. /\ Tail(u) \in Seq(Seq(Bytes)) /\ Len(Tail(u)) = Len(L)
            /\ \A i \in 1 .. Len(L) : Tail(u)[i] = u[i + 1]
        BY <4>1, <4>3, <4>5, HeadTailProperties
      <4>7. ASSUME NEW i \in 1 .. Len(L) PROVE Tail(u)[i] = v[i]
        <5>1. CASE i = Len(L)
          BY <4>3, <4>4, <4>6, <5>1
        <5>2. CASE i # Len(L)
          <6>1. i \in 1 .. Len(L) - 1 /\ i + 1 \in 1 .. Len(L)
            BY <4>1, <5>2
          <6>2. v[i] = L[i + 1]
            BY <4>2, <4>4, <6>1 DEF T
          <6> QED
            BY <4>3, <4>6, <6>1, <6>2
        <5> QED
          BY <5>1, <5>2
      <4>8. Tail(u) = v
        BY <4>4, <4>6, <4>7, SeqEqual
      <4> QED
        BY <4>8 DEF u, v
    <3>2. Service!Kept(Append(L, bytes)) = Append(Tail(L), bytes)
      BY <2>3, <2>4, <2>6, <2>7, <3>1 DEF Service!Kept
    <3> QED
      BY <1>4, <2>1, <2>2, <2>5, <2>7, <3>2 DEF bytes
  <2>8. CASE ~buffer.full
    <3>1. Service!Kept(Append(L, bytes)) = Append(L, bytes)
      BY <2>3, <2>4, <2>6, <2>8 DEF Service!Kept
    <3> QED
      BY <1>4, <2>1, <2>2, <2>5, <2>8, <3>1 DEF bytes
  <2> QED
    BY <2>7, <2>8
<1>5. CASE wbuf # << >> /\ CharDevice /\ Last(wbuf) \notin Newlines
  <2>1. partial' = bytes /\ UNCHANGED <<buffer, file>>
    BY <1>1, <1>5 DEF Flush
  <2> QED
    BY <1>5, <2>1 DEF LogOf, CharDevice
<1> QED
  BY <1>2, <1>3, <1>4, <1>5

\* An answer from some place on; from the end on it is empty.
LEMMA AnswerFrom ==
  ASSUME NEW all \in Seq(Bytes), NEW p \in Nat
  PROVE  \E from \in 0 .. Len(all) :
           /\ p = 0 => from = 0
           /\ SubSeq(all, p + 1, Len(all)) = SubSeq(all, from + 1, Len(all))
<1> DEFINE n == Len(all)
<1>1. n \in Nat
  BY LenProperties
<1> HIDE DEF n
<1>2. CASE p <= n
  <2>1. p \in 0 .. n
    BY <1>1, <1>2
  <2> QED
    BY <2>1 DEF n
<1>3. CASE ~(p <= n)
  <2>1. n < p + 1 /\ n < n + 1 /\ p + 1 \in Int /\ n + 1 \in Int /\ n \in Int /\ p # 0
    BY <1>1, <1>3
  <2>2. SubSeq(all, p + 1, n) = << >> /\ SubSeq(all, n + 1, n) = << >>
    BY <2>1, SubSeqEmpty
  <2>3. n \in 0 .. n
    BY <1>1
  <2> QED
    BY <2>1, <2>2, <2>3 DEF n
<1> QED
  BY <1>2, <1>3

\* The operators of SequencesExt mean the same in LineService.
LEMMA SameSequences ==
  (\A s : Service!FlattenSeq(s) = FlattenSeq(s)) /\ (\A s : Service!Last(s) = Last(s))
<1>1. \A s : Service!FlattenSeq(s) = FlattenSeq(s)
  BY Zenon DEF Service!FlattenSeq, FlattenSeq
<1>2. \A s : Service!Last(s) = Last(s)
  BY DEF Service!Last, Last
<1> QED
  BY <1>1, <1>2

LEMMA SendFileServes ==
  ASSUME TypeInv, TextInv, [Next]_vars, NEW c \in Conn, send_file(c)
  PROVE  Service!Serve(c)
<1> DEFINE all == Visible(buffer', file')
           p == SeekPos(buffer', seekto_arg)
<1>1. /\ pc[c] = "seek" /\ pc' = [pc EXCEPT ![c] = "send"] /\ Flush
      /\ resp' = [resp EXCEPT ![c] = SubSeq(all, p + 1, Len(all))]
      /\ proc = "running" /\ proc' = proc /\ taken' = taken
  BY DEF send_file, ThreadStep, Running
<1>2. /\ fptr_mutex # NULL /\ DataTypes /\ pc \in [Conn -> Place]
      /\ seekto_arg \in SeekArg \cup {NULL}
  BY <1>1, ConnAssumption
     DEF TypeInv, ExitInv, SafeInv, ListTypes, Owned, HasLock, DataTypes
<1>3. /\ wbuf \in Service!Texts(c)
      /\ wbuf # << >> => (Kind(Last(wbuf)) = "nl" <=> Last(wbuf) \in Newlines)
      /\ c \in Seekers \/ wbuf = << >> \/ seekto_arg = NULL
  BY <1>1, WbufIsSaid
<1>4. DataTypes'
  BY DataNext DEF TypeInv
<1>5. all \in Seq(Bytes) /\ FlattenSeq(LogOf') = all
  <2>1. (FlattenSeq(LogOf) = Visible(buffer, file) /\ FlattenSeq(LogOf) \in Seq(Bytes))'
    BY <1>4, FlattenLog, PTL
  <2> QED
    BY <2>1
<1>6. p \in Nat /\ (seekto_arg = NULL => p = 0)
  <2>1. buffer' \in BufferOf(Seq(Bytes))
    BY <1>4 DEF DataTypes
  <2> QED
    BY <1>2, <2>1, SeekPosType
<1> HIDE DEF all, p
<1>7. PICK from \in 0 .. Len(all) :
        /\ p = 0 => from = 0
        /\ SubSeq(all, p + 1, Len(all)) = SubSeq(all, from + 1, Len(all))
  BY <1>5, <1>6, AnswerFrom
<1>8. /\ c \in Seekers \/ wbuf = << >> \/ from = 0
      /\ resp' = [resp EXCEPT ![c] = SubSeq(all, from + 1, Len(all))]
  BY <1>1, <1>3, <1>6, <1>7
<1>9. c \in WaitingOf /\ WaitingOf' = WaitingOf \ {c}
  BY <1>1, <1>2 DEF WaitingOf, Before
<1>10. StateOf = "running" /\ StateOf' = StateOf
  BY <1>1 DEF StateOf
<1>11. Service!Put(wbuf)
  <2>1. \/ wbuf = << >> /\ UNCHANGED <<LogOf, partial>>
        \/ /\ wbuf # << >> /\ ~CharDevice
           /\ LogOf' = <<FlattenSeq(LogOf) \o wbuf>> /\ UNCHANGED partial
        \/ /\ wbuf # << >> /\ CharDevice
           /\ IF Last(wbuf) \in Newlines
              THEN /\ LogOf' = Service!Kept(Append(LogOf, partial \o wbuf))
                   /\ partial' = << >>
              ELSE partial' = partial \o wbuf /\ UNCHANGED LogOf
    BY <1>1, <1>2, <1>3, FlushPuts
  <2> QED
    BY <2>1, SameSequences DEF Service!Put, LogOf
<1>12. \E text \in Service!Texts(c) :
         /\ Service!Put(text)
         /\ \E f \in 0 .. Len(FlattenSeq(LogOf')) :
              /\ c \in Seekers \/ text = << >> \/ f = 0
              /\ resp' = [resp EXCEPT ![c] =
                            SubSeq(FlattenSeq(LogOf'), f + 1, Len(FlattenSeq(LogOf')))]
  BY <1>3, <1>5, <1>7, <1>8, <1>11
<1> QED
  BY <1>1, <1>9, <1>10, <1>12, SameSequences DEF Service!Serve, StateOf, LogOf, WaitingOf

LEMMA ServiceStutters ==
  ASSUME UNCHANGED <<StateOf, LogOf, partial, WaitingOf, taken, resp>>
  PROVE  UNCHANGED Service!vars
BY DEF StateOf, LogOf, WaitingOf, Service!vars

LEMMA ServiceDies ==
  ASSUME StateOf = "running", StateOf' = "dead", UNCHANGED <<LogOf, partial>>,
         \/ UNCHANGED <<WaitingOf, taken, resp>>
         \/ /\ WaitingOf' \in SUBSET WaitingOf
            /\ taken' = [c \in Conn |-> 0] /\ resp' = [c \in Conn |-> << >>]
  PROVE  Service!End
BY DEF StateOf, LogOf, WaitingOf, Service!End, Service!Lose

LEMMA ServiceNext ==
  ASSUME TypeInv, TextInv, [Next]_vars
  PROVE  [Service!Next]_(Service!vars)
<1> USE DEF ThreadStep, threads, stdio, answer, clients, device
<1>0. /\ pc \in [Conn -> Place] /\ DataTypes
      /\ proc \in {"running", "exited", "failed", "SIGTERM", "SIGKILL", "SIGPIPE", "SIGSEGV"}
      /\ \A c \in Conn : peer[c] = "idle" => pc[c] = "none"
  BY DEF TypeInv, ExitInv, SafeInv, ListTypes, Queued, CtlTypes
<1>1. UNCHANGED <<buffer, file>> => LogOf' = LogOf
  BY DEF LogOf, CharDevice
<1>2. ASSUME NEW c \in Conn, NEW q, pc' = [pc EXCEPT ![c] = q], q \in Before <=> pc[c] \in Before
      PROVE  WaitingOf' = WaitingOf
  BY <1>0, <1>2 DEF WaitingOf
<1>3. proc' = proc => StateOf' = StateOf
  BY DEF StateOf
<1>4. CASE Quiet
  <2>1. UNCHANGED <<LogOf, partial, WaitingOf, taken, resp>>
    BY <1>1, <1>4 DEF Quiet, textvars, WaitingOf
  <2>2. CASE proc' = proc
    BY <1>3, <2>1, <2>2, ServiceStutters
  <2>3. CASE Running /\ proc' \in {"SIGTERM", "failed", "SIGSEGV"}
    <3>1. StateOf = "running" /\ StateOf' = "dead"
      BY <2>3 DEF StateOf, Running
    <3> QED
      BY <2>1, <3>1, ServiceDies DEF Service!Next
  <2> QED
    BY <1>4, <2>2, <2>3 DEF Quiet
<1>5. CASE accept
  <2>1. /\ backlog # << >> /\ UNCHANGED <<proc, buffer, partial, file, taken, resp>>
    BY <1>5 DEF accept, MainStep
  <2>2. PICK born \in {"start", "stillborn"} : pc' = [pc EXCEPT ![Head(backlog)] = born]
    BY <1>5 DEF accept, pthread_create
  <2>3. Head(backlog) \in Conn /\ pc[Head(backlog)] = "none"
    BY <2>1 DEF TypeInv, ExitInv, SafeInv, ListTypes, Queued
  <2>4. born \in Before /\ pc[Head(backlog)] \in Before
    BY <2>2, <2>3 DEF Before
  <2>5. WaitingOf' = WaitingOf
    BY <1>2, <2>2, <2>3, <2>4
  <2> QED
    BY <1>1, <1>3, <2>1, <2>5, ServiceStutters
<1>6. CASE main_exit
  <2>1. /\ proc = "running" /\ proc' = "exited"
        /\ file' = (IF CharDevice THEN file ELSE NULL)
        /\ UNCHANGED <<pc, buffer, partial, taken, resp>>
    BY <1>6 DEF main_exit, FileAtExit, MainStep, Running
  <2>2. StateOf = "running" /\ StateOf' = "exited"
    BY <2>1 DEF StateOf
  <2>3. LogOf' = IF CharDevice THEN LogOf ELSE << >>
    BY <2>1 DEF LogOf, CharDevice
  <2>4. WaitingOf' = WaitingOf
    BY <2>1 DEF WaitingOf
  <2>5. Service!End
    BY <2>1, <2>2, <2>3, <2>4 DEF StateOf, LogOf, WaitingOf, Service!End, Service!Lose
  <2> QED
    BY <2>5 DEF Service!Next
<1>7. ASSUME NEW p, Blank(p)
      PROVE  /\ UNCHANGED <<LogOf, partial>> /\ resp' = [c \in Conn |-> << >>]
             /\ taken' = [c \in Conn |-> 0]
             /\ WaitingOf' \in SUBSET WaitingOf
  <2>1. /\ UNCHANGED <<buffer, partial, file>> /\ resp' = [c \in Conn |-> << >>]
        /\ taken' = [c \in Conn |-> 0]
        /\ pc' = [c \in Conn |-> IF peer[c] = "idle" THEN "none" ELSE "cut"]
    BY <1>7 DEF Blank, Nowhere
  <2>2. WaitingOf' \in SUBSET WaitingOf
    BY <1>0, <2>1 DEF WaitingOf, Before
  <2> QED
    BY <1>1, <2>1, <2>2
<1>8. CASE Running /\ Blank("SIGKILL")
  <2>1. StateOf = "running" /\ StateOf' = "dead"
    BY <1>8 DEF StateOf, Running, Blank
  <2> QED
    BY <1>7, <1>8, <2>1, ServiceDies DEF Service!Next
<1>9. CASE ~Running /\ Blank("running")
  <2>1. StateOf # "running" /\ StateOf' = "running"
    BY <1>0, <1>9 DEF StateOf, Running, Blank
  <2>2. /\ UNCHANGED <<LogOf, partial>> /\ resp' = [c \in Conn |-> << >>]
        /\ taken' = [c \in Conn |-> 0]
        /\ WaitingOf' \in SUBSET WaitingOf
    BY <1>7, <1>9
  <2>3. Service!Start
    BY <2>1, <2>2 DEF StateOf, LogOf, WaitingOf, Service!Start, Service!Lose
  <2> QED
    BY <2>3 DEF Service!Next
<1>10. ASSUME NEW c \in Conn, Client(c) \/ send_turn(c)
       PROVE  UNCHANGED Service!vars
  <2>1. UNCHANGED <<proc, pc, buffer, partial, file, taken, resp>>
    BY <1>10 DEF Client, client_connect, client_send, client_shutdown, client_hangs_up,
       ClientStep, send_turn, SendStep
  <2>2. WaitingOf' = WaitingOf
    BY <2>1 DEF WaitingOf
  <2> QED
    BY <1>1, <1>3, <2>1, <2>2, ServiceStutters
<1>11. ASSUME NEW c \in Conn, send_to_reset(c)
       PROVE  [Service!Next]_(Service!vars)
  <2>1. /\ UNCHANGED <<pc, buffer, partial, file, taken, resp>> /\ proc = "running"
        /\ proc' \in {proc, "SIGPIPE"}
    BY <1>11 DEF send_to_reset, SendStep, Running
  <2>2. UNCHANGED <<WaitingOf, LogOf>>
    BY <1>1, <2>1 DEF WaitingOf
  <2>3. CASE proc' = proc
    BY <1>3, <2>1, <2>2, <2>3, ServiceStutters
  <2>4. CASE proc' = "SIGPIPE"
    <3>1. StateOf = "running" /\ StateOf' = "dead"
      BY <2>1, <2>4 DEF StateOf
    <3> QED
      BY <2>1, <2>2, <3>1, ServiceDies DEF Service!Next
  <2> QED
    BY <2>1, <2>3, <2>4
<1>12. ASSUME NEW c \in Conn, thread_work_open(c)
       PROVE  UNCHANGED Service!vars
  <2>1. /\ UNCHANGED <<proc, buffer, partial, taken, resp>>
        /\ pc[c] = "start" /\ pc' = [pc EXCEPT ![c] = "recv"]
        /\ file' = IF file = NULL /\ ~CharDevice THEN << >> ELSE file
    BY <1>12 DEF thread_work_open, Opened
  <2>2. LogOf' = LogOf
    BY <2>1 DEF LogOf, CharDevice
  <2>3. "recv" \in Before /\ pc[c] \in Before
    BY <2>1 DEF Before
  <2>4. WaitingOf' = WaitingOf
    BY <1>2, <2>1, <2>3
  <2> QED
    BY <1>3, <2>1, <2>2, <2>4, ServiceStutters
<1>13. ASSUME NEW c \in Conn, Receive(c)
       PROVE  [Service!Next]_(Service!vars)
  <2>1. /\ UNCHANGED <<proc, buffer, partial, file, resp>> /\ pc[c] = "recv"
        /\ proc = "running"
    BY <1>13 DEF Receive, recv_data, recv_eof, recv_error, RecvStep, Running
  <2>2. PICK q \in HasArg : pc' = [pc EXCEPT ![c] = q]
    BY <1>13 DEF Receive, recv_data, recv_eof, recv_error, AfterRecv, HasArg
  <2>3. q \in Before /\ pc[c] \in Before
    BY <2>1, <2>2 DEF Before, HasArg
  <2>4. WaitingOf' = WaitingOf /\ c \in WaitingOf
    <3>1. WaitingOf' = WaitingOf
      BY <1>2, <2>2, <2>3
    <3> QED
      BY <2>3, <3>1 DEF WaitingOf
  <2>5. CASE UNCHANGED taken
    BY <1>1, <1>3, <2>1, <2>4, <2>5, ServiceStutters
  <2>6. CASE recv_data(c)
    <3>1. PICK n \in Nat \ {0} : /\ taken[c] + n <= sent[c]
                                 /\ taken' = [taken EXCEPT ![c] = @ + n]
      BY <1>0, <2>6, RecvTakes
    <3>2. /\ taken \in [Conn -> Nat] /\ sent \in [Conn -> Nat]
          /\ sent[c] <= Len(Script[c]) /\ Len(Script[c]) \in Nat
      BY <1>0, ScriptLength DEF DataTypes, TextInv, Text
    <3>3. Len(Says[c]) = Len(Script[c])
      BY <3>2, ScriptLength DEF Says
    <3> DEFINE k == taken[c] + n
    <3>4. k \in taken[c] + 1 .. Len(Says[c]) /\ taken' = [taken EXCEPT ![c] = k]
      BY <3>1, <3>2, <3>3
    <3> HIDE DEF k
    <3>5. \E x \in taken[c] + 1 .. Len(Says[c]) : taken' = [taken EXCEPT ![c] = x]
      BY <3>4
    <3>6. StateOf = "running" /\ StateOf' = StateOf /\ LogOf' = LogOf
      BY <1>1, <2>1 DEF StateOf
    <3>7. Service!Hear(c)
      BY <2>1, <2>4, <3>5, <3>6 DEF Service!Hear, StateOf, LogOf, WaitingOf
    <3> QED
      BY <3>7 DEF Service!Next
  <2> QED
    BY <1>13, <2>5, <2>6 DEF Receive, recv_eof, recv_error
<1>14. ASSUME NEW c \in Conn, \/ thread_work_unlock(c) \/ thread_work_finish(c)
                              \/ thread_work_exit(c)
       PROVE  UNCHANGED Service!vars
  <2>1. /\ UNCHANGED <<proc, buffer, partial, file, taken, resp>> /\ pc[c] \in After
    BY <1>14 DEF thread_work_unlock, thread_work_finish, thread_work_exit, After
  <2>2. PICK q \in After : pc' = [pc EXCEPT ![c] = q]
    BY <1>14 DEF thread_work_unlock, thread_work_finish, thread_work_exit, After
  <2>3. q \notin Before /\ pc[c] \notin Before
    BY <2>1, <2>2 DEF Before, After
  <2>4. WaitingOf' = WaitingOf
    BY <1>2, <2>2, <2>3
  <2> QED
    BY <1>1, <1>3, <2>1, <2>4, ServiceStutters
<1>15. ASSUME NEW c \in Conn, send_file(c) PROVE Service!Next
  <2>1. Service!Serve(c)
    BY <1>15, SendFileServes
  <2> QED
    BY <2>1 DEF Service!Next
<1> QED
  BY <1>4, <1>5, <1>6, <1>8, <1>9, <1>10, <1>11, <1>12, <1>13, <1>14, <1>15, Steps

LEMMA ServiceInit == Init => Service!Init
<1> SUFFICES ASSUME Init PROVE Service!Init
  OBVIOUS
<1>1. Lines(buffer) = << >>
  <2>1. Count(buffer) = 0
    BY InitWellFormed DEF Init
  <2> QED
    BY <2>1 DEF Lines
<1> QED
  BY <1>1 DEF Init, Service!Init, Before, Nowhere

\* The server implements LineService: whatever threads, clients, signals, failures
\* and restarts do, its store and its answers are those of a server that takes one
\* connection after the other and stores all that recv took of it.
THEOREM ServerImplementsService == Spec => ServesOneByOne
<1>1. Spec => []TextInv
  <2>1. Init => TextInv /\ Hung
    BY TextInit
  <2>2. TypeInv /\ TextInv /\ Hung /\ [Next]_vars => TextInv' /\ Hung'
    BY TextNext, HungNext
  <2> QED
    BY <2>1, <2>2, ServerTypeInvariant, PTL DEF Spec
<1>2. TypeInv /\ TextInv /\ [Next]_vars => [Service!Next]_(Service!vars)
  BY ServiceNext
<1> QED
  BY <1>1, <1>2, ServiceInit, ServerTypeInvariant, PTL DEF Spec, ServesOneByOne, Service!Spec
=============================================================================

----------------------------- MODULE AesdSocket -----------------------------
(***************************************************************************)
(* The server of server/aesdsocket.c: the main thread with its poll loop,  *)
(* one thread for each connection, the signals and the clients, and the    *)
(* script server/aesdsocket-start-stop that stops and starts it.           *)
(*                                                                         *)
(* A connection names its client, its socket, its thread, its              *)
(* thread_info_t and its element of the list.  Bytes keep their identity:  *)
(* <<c, k>> is the k-th byte client c sends.  Script[c] says what kind of  *)
(* byte it is: "x", the newline "nl", or "cmd", which stands for a whole   *)
(* command "AESDCHAR_IOCSEEKTO:X,Y" with the numbers Arg[c].  <<c, 0>> is a*)
(* byte that the server made up (see recv_error).                          *)
(*                                                                         *)
(* /dev/aesdchar is used by this server alone, one thread at a time, so    *)
(* the calls on it are atomic here: CommandLog is what AesdChar is shown to*)
(* implement.  AESDCHAR_IOCSEEKTO adds up slots, hence the ring.           *)
(*                                                                         *)
(* Definitions named after another one and a slip (Joined_AtOnce) are      *)
(* mutated forms of it, for the list of mutants only.                      *)
(***************************************************************************)
EXTENDS CircularBuffer, Sequences, SequencesExt

CONSTANTS Conn,         \* connections clients may make
          Script, Arg,  \* what each client sends
          Shuts,        \* clients that shut down their sending side when done
          Hangs,        \* clients that may hang up at any time
          Picked,       \* threads the kernel may pick to handle the signal
          SeekArg,      \* values a struct aesd_seekto may have
          MAXDATASIZE,  \* size of recv_buf (1024)
          SENDSIZE,     \* size of sendbuffer (124)
          BACKLOG,      \* argument of listen (10)
          USE_AESD_CHAR_DEVICE,  \* 1: /dev/aesdchar, 0: a plain file
          MayFail       \* calls of the server may fail

\* A byte of a connection.
Bytes == Conn \X Nat

ASSUME ConnAssumption ==
  NULL \notin Conn /\ "lh_first" \notin Conn /\ IsFiniteSet(Conn)
ASSUME TextAssumption == NULL \notin Seq(Bytes)
ASSUME ClientAssumption ==
  /\ Script \in [Conn -> Seq({"x", "nl", "cmd"})]
  /\ Arg \in [Conn -> SeekArg]
  /\ SeekArg \subseteq [write_cmd : Nat, write_cmd_offset : Nat]
  /\ NULL \notin SeekArg
  /\ Shuts \subseteq Conn /\ Hangs \subseteq Conn /\ Picked \subseteq Conn
ASSUME SizeAssumption ==
  /\ MAXDATASIZE \in Nat \ {0} /\ SENDSIZE \in Nat \ {0} /\ BACKLOG \in Nat
  /\ USE_AESD_CHAR_DEVICE \in {0, 1} /\ MayFail \in BOOLEAN

VARIABLES
  proc,           \* "running", or how the process ended
  should_close,
  \* the main thread
  mpc, revents,
  backlog,        \* connections the kernel has queued for accept
  head, datap,    \* the list, and where clean_threads is in it
  \* the threads
  pc,             \* where each one is
  tinfo,          \* the thread_info_t (and list_threads) that are allocated
  is_finished,    \* the ones among them with is_finished set
  fds,            \* connections whose descriptor is open
  fptr_mutex,     \* the thread that holds it, or NULL
  wbuf,           \* stdio: bytes fwrite has put in the buffer of fptr
  seekto_arg,     \* global: NULL or a struct aesd_seekto
  resp, nsent,    \* what fread will deliver from fptr, and how much was sent
  taken,          \* bytes recv took
  \* the clients
  peer,           \* state of the connection at the client's end
  sent,           \* bytes the client sent
  \* /dev/aesdchar, or the file (NULL if there is none)
  buffer, partial, file

main    == <<mpc, revents, backlog, head, datap>>
threads == <<pc, tinfo, is_finished, fds>>
stdio   == <<fptr_mutex, wbuf, seekto_arg>>
answer  == <<resp, nsent>>
clients == <<peer, sent>>
device  == <<buffer, partial, file>>
vars == <<proc, should_close, main, threads, stdio, answer, taken, clients, device>>

INSTANCE List WITH Node <- Conn

CharDevice == USE_AESD_CHAR_DEVICE = 1

Kind(byte) == IF byte[2] = 0 THEN "x" ELSE Script[byte[1]][byte[2]]

Nowhere == [c \in Conn |-> 0]
Running == proc = "running"

Init ==
  /\ proc = "running" /\ mpc = "flags" /\ should_close = FALSE
  /\ revents = FALSE /\ backlog = << >> /\ head = LIST_INIT /\ datap = NULL
  /\ pc = [c \in Conn |-> "none"] /\ tinfo = {} /\ is_finished = {} /\ fds = {}
  /\ fptr_mutex = NULL /\ wbuf = << >> /\ seekto_arg = NULL
  /\ resp = [c \in Conn |-> << >>] /\ nsent = Nowhere /\ taken = Nowhere
  /\ peer = [c \in Conn |-> "idle"] /\ sent = Nowhere
  /\ buffer = aesd_circular_buffer_init /\ partial = << >> /\ file = NULL

-----------------------------------------------------------------------------
(* The clients and the kernel's side of their connections.                 *)

Listening == mpc \notin {"flags", "daemon", "sigaction", "listener", "listen"}

ClientStep == Running /\ UNCHANGED <<proc, should_close, mpc, revents, head,
                                     datap, threads, stdio, answer, taken, device>>

client_connect(c) ==
  /\ peer[c] = "idle" /\ Listening
  /\ Len(backlog) <= BACKLOG
  /\ backlog' = Append(backlog, c)
  /\ peer' = [peer EXCEPT ![c] = "open"]
  /\ ClientStep /\ UNCHANGED sent

client_send(c) ==
  /\ peer[c] = "open"
  /\ sent[c] < Len(Script[c])
  /\ sent' = [sent EXCEPT ![c] = @ + 1]
  /\ ClientStep /\ UNCHANGED <<backlog, peer>>

client_shutdown(c) ==
  /\ c \in Shuts
  /\ peer[c] = "open" /\ sent[c] = Len(Script[c])
  /\ peer' = [peer EXCEPT ![c] = "shut"]
  /\ ClientStep /\ UNCHANGED <<backlog, sent>>

\* The client closes its socket, or aborts the connection.
client_hangs_up(c) ==
  /\ c \in Hangs
  /\ peer[c] \in {"open", "shut"}
  /\ \E how \in {"closed", "reset"} : peer' = [peer EXCEPT ![c] = how]
  /\ ClientStep /\ UNCHANGED <<backlog, sent>>

-----------------------------------------------------------------------------
(* Signals, and the script: stop sends SIGTERM and SIGKILL five seconds    *)
(* later; start starts a new process.  (--name socketserver finds no       *)
(* running aesdsocket, but a second one only waits for the port.)          *)

SignalStep == Running /\ UNCHANGED <<backlog, head, datap, threads, stdio,
                                     answer, taken, clients, device>>

\* Without SA_RESTART the handler makes poll return EINTR, and Linux then stores
\* revents = 0.  A signal that comes after the test of should_close and before
\* the call, or to another thread, does not wake it up.  More may follow.
signal_handler ==
  /\ mpc \notin {"flags", "daemon", "sigaction"}
  /\ should_close' = TRUE
  /\ \/ UNCHANGED <<mpc, revents>>
     \/ mpc = "poll" /\ mpc' = "polled" /\ revents' = FALSE
  /\ SignalStep /\ UNCHANGED proc

\* Before set_signal_handler a signal ends the process.
signal_default ==
  /\ mpc \in {"flags", "daemon", "sigaction"}
  /\ proc' = "SIGTERM"
  /\ SignalStep /\ UNCHANGED <<should_close, mpc, revents>>

\* Nothing is left of the process (p says how it ended) or a new one begins:
\* its memory is gone, and so are its connections, those in the backlog too.
Blank(p) ==
  /\ proc' = p /\ mpc' = "flags" /\ should_close' = FALSE
  /\ revents' = FALSE /\ backlog' = << >> /\ head' = LIST_INIT /\ datap' = NULL
  /\ pc' = [c \in Conn |-> IF peer[c] = "idle" THEN "none" ELSE "cut"]
  /\ peer' = [c \in Conn |-> IF peer[c] = "idle" THEN "idle" ELSE "cut"]
  /\ tinfo' = {} /\ is_finished' = {} /\ fds' = {}
  /\ fptr_mutex' = NULL /\ wbuf' = << >> /\ seekto_arg' = NULL
  /\ resp' = [c \in Conn |-> << >>] /\ nsent' = Nowhere
  /\ sent' = Nowhere /\ taken' = Nowhere
  /\ UNCHANGED device

\* stop --retry 5: the process has had its SIGTERM and is not gone.
stop_kills ==
  /\ Running /\ should_close
  /\ Blank("SIGKILL")

start == ~Running /\ Blank("running")

-----------------------------------------------------------------------------
(* The main thread.                                                        *)

MainStep == Running /\ UNCHANGED <<should_close, stdio, answer, taken, clients>>
OnlyMain == MainStep /\ UNCHANGED <<proc, threads, device>>

Startup(here, there) ==
  /\ mpc = here /\ mpc' = there
  /\ OnlyMain /\ UNCHANGED <<revents, backlog, head, datap>>

handle_flags        == Startup("flags", "daemon")
daemon              == Startup("daemon", "sigaction")
set_signal_handler  == Startup("sigaction", "listener")
get_listener        == Startup("listener", "listen")
listen              == Startup("listen", "reap")
reap_dead_processes == Startup("reap", "loop")

\* A wrong flag is abort, a failed call exit(1).
startup_fails ==
  /\ MayFail
  /\ mpc \in {"flags", "daemon", "sigaction", "listen", "reap"}
  /\ proc' = "failed"
  /\ MainStep /\ UNCHANGED <<main, threads, device>>

\* The port is taken: sleep(5) and try again, whatever should_close says.
get_listener_fails == Running /\ MayFail /\ mpc = "listener" /\ UNCHANGED vars

\* while (!should_close)
loop_test ==
  /\ mpc = "loop"
  /\ mpc' = IF should_close THEN "final" ELSE "poll"
  /\ datap' = IF should_close THEN LIST_FIRST(head) ELSE NULL
  /\ OnlyMain /\ UNCHANGED <<revents, backlog, head>>

PollReturns_NoTimeout == backlog # << >>

\* There is a connection, or five seconds are over.  The other failures of poll
\* (EFAULT, EINVAL, ENOMEM) need bad arguments or more than one descriptor.
PollReturns == TRUE

poll ==
  /\ mpc = "poll" /\ PollReturns
  /\ revents' = (backlog # << >>)
  /\ mpc' = "polled"
  /\ OnlyMain /\ UNCHANGED <<backlog, head, datap>>

AfterNoRequest_NoClean == "loop"
AfterNoRequest == "clean"

no_request ==
  /\ mpc = "polled" /\ ~revents
  /\ mpc' = AfterNoRequest
  /\ datap' = LIST_FIRST(head)
  /\ OnlyMain /\ UNCHANGED <<revents, backlog, head>>

\* What pthread_create leaves: nobody looks whether it succeeded.
pthread_create == IF MayFail THEN {"start", "stillborn"} ELSE {"start"}

accept ==
  /\ mpc = "polled" /\ revents
  /\ backlog # << >>
  /\ LET c == Head(backlog)
     IN  /\ \E born \in pthread_create : pc' = [pc EXCEPT ![c] = born]
         /\ tinfo' = tinfo \cup {c}
         /\ fds' = fds \cup {c}
         /\ head' = LIST_INSERT_HEAD(head, c)
         /\ datap' = LIST_FIRST(head')
  /\ backlog' = Tail(backlog)
  /\ mpc' = "clean"
  /\ MainStep /\ UNCHANGED <<proc, revents, is_finished, device>>

\* accept fails (no descriptor left, say): continue, without clean_threads.
accept_fails ==
  /\ MayFail
  /\ mpc = "polled" /\ revents
  /\ mpc' = "loop"
  /\ OnlyMain /\ UNCHANGED <<revents, backlog, head, datap>>

\* The argument wait of clean_threads: true after the loop.
wait == mpc = "final"

Cleaned(c) == c \in is_finished \/ wait

clean_threads_skip ==
  /\ mpc \in {"clean", "final"} /\ datap # NULL
  /\ ~Cleaned(datap)
  /\ datap' = LIST_NEXT(head, datap)
  /\ OnlyMain /\ UNCHANGED <<mpc, revents, backlog, head>>

Joined_AtOnce(c) == TRUE

\* pthread_join waits for the end of the thread.  The id of a thread that was
\* never started is what malloc left there: ESRCH, unless it brings the process
\* down (join_stillborn) or is the id of a thread that is going to be joined too.
Joined(c) == pc[c] \in {"exited", "stillborn"}

\* LIST_REMOVE, pthread_join and free; LIST_FOREACH_SAFE has read tmp before.
clean_threads ==
  /\ mpc \in {"clean", "final"} /\ datap # NULL
  /\ Cleaned(datap) /\ Joined(datap)
  /\ datap' = LIST_NEXT(head, datap)
  /\ head' = Free(LIST_REMOVE(head, datap), datap)
  /\ tinfo' = tinfo \ {datap}
  /\ is_finished' = is_finished \ {datap}
  /\ MainStep /\ UNCHANGED <<proc, mpc, revents, backlog, pc, fds, device>>

join_stillborn ==
  /\ mpc = "final" /\ datap # NULL
  /\ pc[datap] = "stillborn"
  /\ proc' = "SIGSEGV"
  /\ MainStep /\ UNCHANGED <<main, threads, device>>

clean_threads_done ==
  /\ mpc = "clean" /\ datap = NULL
  /\ mpc' = "loop"
  /\ OnlyMain /\ UNCHANGED <<revents, backlog, head, datap>>

FileAtExit_Kept == file
FileAtExit == IF CharDevice THEN file ELSE NULL

\* Without the device the file is removed; return 0 ends the process.
main_exit ==
  /\ mpc = "final" /\ datap = NULL
  /\ proc' = "exited"
  /\ file' = FileAtExit
  /\ MainStep /\ UNCHANGED <<main, threads, buffer, partial>>

Main == \/ handle_flags \/ daemon \/ set_signal_handler \/ get_listener \/ listen
        \/ reap_dead_processes \/ startup_fails \/ get_listener_fails
        \/ loop_test \/ poll \/ no_request \/ accept \/ accept_fails
        \/ clean_threads_skip \/ clean_threads \/ join_stillborn
        \/ clean_threads_done \/ main_exit

-----------------------------------------------------------------------------
(* thread_work.  From the lock to the unlock a thread has fptr, its buffer *)
(* and seekto_arg for itself.                                              *)

ThreadStep == Running /\ UNCHANGED <<main, tinfo, sent>>

Lockable_Always == TRUE
Lockable == fptr_mutex = NULL

Opened_Truncates == IF CharDevice THEN file ELSE << >>

\* fopen(FILEPATH, "a+") makes the file if there is none.
Opened == IF file = NULL /\ ~CharDevice THEN << >> ELSE file

\* pthread_mutex_lock and fopen.
thread_work_open(c) ==
  /\ pc[c] = "start" /\ Lockable
  /\ pc' = [pc EXCEPT ![c] = "recv"]
  /\ fptr_mutex' = c
  /\ wbuf' = << >>
  /\ file' = Opened
  /\ ThreadStep
  /\ UNCHANGED <<proc, should_close, is_finished, fds, seekto_arg, answer, taken,
                 peer, buffer, partial>>

\* fopen fails: exit(1), for all threads.
thread_work_open_fails(c) ==
  /\ MayFail
  /\ pc[c] = "start" /\ Lockable
  /\ proc' = "failed"
  /\ ThreadStep
  /\ UNCHANGED <<should_close, threads, stdio, answer, taken, peer, device>>

RecvStep(c) ==
  /\ pc[c] = "recv"
  /\ ThreadStep
  /\ UNCHANGED <<proc, is_finished, fds, fptr_mutex, answer, peer, device>>

\* The do-while of recv_to_file goes on after a full buffer only.
AfterRecv(c, bytes_recv) ==
  pc' = [pc EXCEPT ![c] = IF bytes_recv = MAXDATASIZE THEN "recv" ELSE "seek"]

\* recv returns what has arrived, at most MAXDATASIZE bytes.  Text that begins
\* with a command is not written, whatever follows the command in it.
recv_data(c) ==
  /\ peer[c] # "reset" /\ taken[c] < sent[c]
  /\ LET bytes_recv == Min({sent[c] - taken[c], MAXDATASIZE})
         recv_buf   == [i \in 1 .. bytes_recv |-> <<c, taken[c] + i>>]
     IN  /\ IF Kind(recv_buf[1]) = "cmd"
            THEN seekto_arg' = Arg[c] /\ UNCHANGED wbuf
            ELSE wbuf' = wbuf \o recv_buf /\ UNCHANGED seekto_arg
         /\ taken' = [taken EXCEPT ![c] = @ + bytes_recv]
         /\ AfterRecv(c, bytes_recv)
  /\ RecvStep(c) /\ UNCHANGED should_close

\* The client sends no more: recv returns 0 and recv_buf is as it was.  After an
\* earlier recv that repeats a command or writes nothing; a buffer fresh from
\* malloc holds anything, a command too.
recv_eof(c) ==
  /\ peer[c] \in {"shut", "closed"} /\ taken[c] = sent[c]
  /\ \/ UNCHANGED seekto_arg
     \/ taken[c] = 0 /\ seekto_arg' \in SeekArg
  /\ AfterRecv(c, 0)
  /\ RecvStep(c) /\ UNCHANGED <<should_close, wbuf, taken>>

\* recv returns -1, because the connection was reset or because this thread was
\* the one to handle the signal.  fwrite takes it for a size of SIZE_MAX: the
\* rest of the stdio buffer may be filled from recv_buf and from beyond it and
\* written out, and the write of what remains is refused.  One byte that no
\* client sent stands for all this, and waits for fseek with the others.
recv_error(c) ==
  /\ \/ peer[c] = "reset" /\ UNCHANGED should_close
     \/ /\ c \in Picked /\ peer[c] = "open" /\ taken[c] = sent[c]
        /\ should_close' = TRUE
  /\ \/ UNCHANGED <<wbuf, seekto_arg>>
     \/ taken[c] = 0 /\ seekto_arg' \in SeekArg /\ UNCHANGED wbuf
     \/ wbuf # << >> /\ wbuf' = Append(wbuf, <<c, 0>>) /\ UNCHANGED seekto_arg
  /\ AfterRecv(c, -1)
  /\ RecvStep(c) /\ UNCHANGED taken

\* What a reader of the file sees; the driver shows complete commands only.
Lines(b) == [i \in 1 .. Count(b) |-> Log(b)[i].buffptr]
Visible(b, f) ==
  IF CharDevice THEN FlattenSeq(Lines(b)) ELSE IF f = NULL THEN << >> ELSE f

Flush_Lost == UNCHANGED device

\* The write that fseek causes, on the device as aesd_write does it.
Flush ==
  LET bytes == partial \o wbuf
  IN  CASE wbuf = << >> -> UNCHANGED device
        [] wbuf # << >> /\ ~CharDevice ->
             file' = file \o wbuf /\ UNCHANGED <<buffer, partial>>
        [] wbuf # << >> /\ CharDevice /\ Kind(Last(bytes)) = "nl" ->
             /\ buffer' = aesd_circular_buffer_add_entry(buffer,
                            [buffptr |-> bytes, size |-> Len(bytes)])
             /\ partial' = << >> /\ UNCHANGED file
        [] OTHER -> partial' = bytes /\ UNCHANGED <<buffer, file>>

\* Where AESDCHAR_IOCSEEKTO moves a file at 0.  A plain file has no such ioctl,
\* and a NULL argument reads as zeros.
SeekPos(b, arg) ==
  LET sum[i \in 0 .. MAX] == IF i = 0 THEN 0 ELSE sum[i - 1] + b.entry[i - 1].size
  IN  IF ~CharDevice \/ arg = NULL THEN 0
      ELSE sum[Min({arg.write_cmd, MAX})] + arg.write_cmd_offset

ArgAfter_Kept == seekto_arg
ArgAfter == NULL

\* send_file up to its loop: fseek, ioctl, free.  Nobody else can change what
\* the loop is going to read.
send_file(c) ==
  /\ pc[c] = "seek" /\ pc' = [pc EXCEPT ![c] = "send"]
  /\ Flush
  /\ wbuf' = << >>
  /\ LET all == Visible(buffer', file')
     IN  resp' = [resp EXCEPT ![c] =
                    SubSeq(all, SeekPos(buffer', seekto_arg) + 1, Len(all))]
  /\ seekto_arg' = ArgAfter
  /\ ThreadStep
  /\ UNCHANGED <<proc, should_close, is_finished, fds, fptr_mutex, nsent, taken, peer>>

AfterTurn_OneByte(c) == nsent[c] + 1
AfterTurn(c) == Min({nsent[c] + SENDSIZE, Len(resp[c])})

SendStep(c) ==
  /\ pc[c] = "send" /\ nsent[c] < Len(resp[c])
  /\ ThreadStep
  /\ UNCHANGED <<should_close, threads, stdio, resp, taken, device>>

\* One turn of the loop: fread and send.  A client that has closed answers the
\* first one with a reset.
send_turn(c) ==
  /\ peer[c] \notin {"reset", "broken"}
  /\ nsent' = [nsent EXCEPT ![c] = AfterTurn(c)]
  /\ peer' = [peer EXCEPT ![c] = IF @ = "closed" THEN "broken" ELSE @]
  /\ SendStep(c) /\ UNCHANGED proc

\* send on a connection that was reset fails; SIGPIPE, which is not handled,
\* ends the process once the reset has been reported.
send_to_reset(c) ==
  /\ peer[c] \in {"reset", "broken"}
  /\ \/ proc' = "SIGPIPE" /\ UNCHANGED nsent
     \/ nsent' = [nsent EXCEPT ![c] = AfterTurn(c)] /\ UNCHANGED proc
  /\ SendStep(c) /\ UNCHANGED peer

MutexAfter_Kept == fptr_mutex
MutexAfter == NULL

\* fread has returned 0: fclose and pthread_mutex_unlock.
thread_work_unlock(c) ==
  /\ pc[c] = "send" /\ pc' = [pc EXCEPT ![c] = "unlocked"]
  /\ nsent[c] = Len(resp[c])
  /\ fptr_mutex' = MutexAfter
  /\ ThreadStep
  /\ UNCHANGED <<proc, should_close, is_finished, fds, wbuf, seekto_arg, answer,
                 taken, peer, device>>

thread_work_finish(c) ==
  /\ pc[c] = "unlocked" /\ pc' = [pc EXCEPT ![c] = "finished"]
  /\ is_finished' = is_finished \cup {c}
  /\ ThreadStep
  /\ UNCHANGED <<proc, should_close, fds, stdio, answer, taken, peer, device>>

FdsAfter_Kept(c) == fds
FdsAfter(c) == fds \ {c}

\* close(tinfo->fd) and pthread_exit.
thread_work_exit(c) ==
  /\ pc[c] = "finished" /\ pc' = [pc EXCEPT ![c] = "exited"]
  /\ fds' = FdsAfter(c)
  /\ ThreadStep
  /\ UNCHANGED <<proc, should_close, is_finished, stdio, answer, taken, peer, device>>

Thread(c) ==
  \/ thread_work_open(c) \/ thread_work_open_fails(c)
  \/ recv_data(c) \/ recv_eof(c) \/ recv_error(c)
  \/ send_file(c) \/ send_turn(c) \/ send_to_reset(c)
  \/ thread_work_unlock(c) \/ thread_work_finish(c) \/ thread_work_exit(c)

-----------------------------------------------------------------------------

Ended == ~Running /\ UNCHANGED vars

Next == \/ signal_handler \/ signal_default \/ stop_kills \/ start \/ Main
        \/ \E c \in Conn :
             \/ client_connect(c) \/ client_send(c) \/ client_shutdown(c)
             \/ client_hangs_up(c) \/ Thread(c)
        \/ Ended

Spec == Init /\ [][Next]_vars

\* The scheduler runs every thread; a mutex that is free goes to one of those
\* who want it (a thread locks it once, so weak fairness is enough); poll
\* returns after five seconds at most; accept does not fail for ever, nor does
\* get_listener, and send does not block for ever on a client that does not
\* read.  Clients that have connected send what they have to send, and shut down
\* if they are of that kind.  No signal, no client and no start has to come.
Fairness ==
  /\ WF_vars(Main)
  /\ SF_vars(accept)
  /\ \A c \in Conn : /\ WF_vars(Thread(c))
                     /\ WF_vars(client_send(c) \/ client_shutdown(c))

FairSpec == Spec /\ Fairness

-----------------------------------------------------------------------------

Before == {"none", "start", "recv", "seek", "stillborn"}
After  == {"send", "unlocked", "finished", "exited"}

\* Every variable has its type.
TypeOK ==
  /\ proc \in {"running", "exited", "failed", "SIGTERM", "SIGKILL", "SIGPIPE", "SIGSEGV"}
  /\ mpc \in {"flags", "daemon", "sigaction", "listener", "listen", "reap", "loop",
              "poll", "polled", "clean", "final"}
  /\ should_close \in BOOLEAN /\ revents \in BOOLEAN
  /\ backlog \in Seq(Conn)
  /\ head \in LIST_HEAD /\ datap \in Conn \cup {NULL}
  /\ pc \in [Conn -> Before \cup After \cup {"cut"}]
  /\ tinfo \subseteq Conn /\ is_finished \subseteq Conn /\ fds \subseteq Conn
  /\ fptr_mutex \in Conn \cup {NULL}
  /\ wbuf \in Seq(Bytes)
  /\ seekto_arg \in SeekArg \cup {NULL}
  /\ resp \in [Conn -> Seq(Bytes)] /\ nsent \in [Conn -> Nat]
  /\ peer \in [Conn -> {"idle", "open", "shut", "closed", "broken", "reset", "cut"}]
  /\ sent \in [Conn -> Nat] /\ taken \in [Conn -> Nat]
  /\ buffer \in BufferOf(Seq(Bytes)) /\ partial \in Seq(Bytes)
  /\ file \in Seq(Bytes) \cup {NULL}

\* Everything written so far, in order.
Stored == Visible(buffer, file) \o partial

\* The bytes of one connection stay together: between two bytes of one thread
\* there is never a byte of another, however recv and send interleave, because
\* thread_work keeps fptr_mutex from fopen to fclose.
ConnectionsDoNotMix ==
  \A i, j, k \in DOMAIN Stored :
    i < j /\ j < k /\ Stored[i][1] = Stored[k][1] => Stored[j][1] = Stored[i][1]

Commands(c) == {k \in DOMAIN Script[c] : Script[c][k] = "cmd"}

\* A client whose text was complete finds it, whole and in order, at the end of
\* its own answer and nowhere else in it, whatever the others do: nothing comes
\* between the write and the read.  (Unless a failed recv made up a byte.)  The
\* answer stays as it is from here on.
AnswerEndsWithOwnText ==
  \A c \in Conn :
    /\ pc[c] = "send" /\ Commands(c) = {}
    /\ taken[c] > 0 /\ Script[c][taken[c]] = "nl"
    /\ <<c, 0>> \notin ToSet(Stored)
    => LET others == Len(resp[c]) - taken[c]
       IN  /\ others >= 0
           /\ \A k \in 1 .. taken[c] : resp[c][others + k] = <<c, k>>
           /\ \A i \in 1 .. others : resp[c][i][1] # c

\* A thread that has not ended (a stillborn one never lives) still has its
\* thread_info_t, which it reads and writes up to its last step, and
\* clean_threads never steps on a freed one.
NoUseAfterFree ==
  /\ \A c \in Conn : pc[c] \notin {"none", "exited", "stillborn", "cut"} => c \in tinfo
  /\ datap # NULL => datap \in tinfo

\* LIST_FOREACH_SAFE finds exactly the entries that are not freed, and each of
\* them can be removed: its le_prev is the pointer that leads to it.
ListIsExact == Visited(head) = tinfo /\ Linked(head, tinfo)

\* When main returns every thread has ended, every descriptor is closed, every
\* thread_info_t is freed, the mutex and seekto_arg are free and the file, if the
\* server had made one, is gone.  Only a connection whose pthread_create failed
\* keeps its descriptor.
CleanExit ==
  proc = "exited" =>
    /\ \A c \in Conn : pc[c] \in {"none", "exited", "stillborn", "cut"}
    /\ tinfo = {} /\ \A c \in fds : pc[c] = "stillborn"
    /\ fptr_mutex = NULL /\ seekto_arg = NULL
    /\ file = NULL

\* A client that closes its socket without reading the answer ends the server
\* (by SIGPIPE) only if the answer takes more than one send; a client that
\* resets the connection may do so with any answer.
ShortAnswersAreSurvived ==
  proc = "SIGPIPE" =>
    \E c \in Conn : \/ peer[c] = "reset"
                    \/ peer[c] = "broken" /\ Len(resp[c]) > SENDSIZE

\* A signal ends the server, even one that comes between the test of
\* should_close and poll, or while threads wait for one another, or when a
\* thread could not be created.
ShutdownCompletes == should_close ~> ~Running

\* A connected client gets its whole answer and its connection closed, unless
\* its thread could not be created or the server is told to stop.
ConnectedAreAnswered ==
  \A c \in Conn : peer[c] \in {"open", "shut"} ~>
    \/ pc[c] = "exited" /\ nsent[c] = Len(resp[c])
    \/ pc[c] = "stillborn" \/ should_close \/ ~Running

\* Threads that have ended are joined and freed while the server goes on.
FinishedAreReaped ==
  \A c \in Conn : pc[c] = "exited" ~> c \notin tinfo \/ ~Running

-----------------------------------------------------------------------------
(* Each connection is served in one piece, by send_file.                   *)

\* The bytes each client has to send, and the one a failed recv may make up.
Says   == [c \in Conn |-> [i \in DOMAIN Script[c] |-> <<c, i>>]]
MadeUp == [c \in Conn |-> IF c \in Hangs \cup Picked THEN {<< <<c, 0>> >>} ELSE {}]

Seekers  == {c \in Conn : Commands(c) # {}}
Newlines == UNION {{c} \X {k \in DOMAIN Script[c] : Script[c][k] = "nl"} : c \in Conn}

Service == INSTANCE LineService WITH
  Cap <- MAX, Lined <- CharDevice, Input <- Says, Junk <- MadeUp, Asks <- Seekers,
  Newline <- Newlines,
  state <- IF proc \in {"running", "exited"} THEN proc ELSE "dead",
  log <- IF CharDevice THEN Lines(buffer)
         ELSE IF file \in {NULL, << >>} THEN << >> ELSE <<file>>,
  rest <- partial, waiting <- {c \in Conn : pc[c] \in Before}, heard <- taken,
  reply <- resp

\* Whatever threads, clients, signals and restarts do, the store and the answers
\* are those of a server that takes one connection after the other: what recv
\* took of a text is stored whole, once and in one piece or is lost with the
\* process, no answer is older than its own text, and the store outlives every
\* end of the process but the orderly one.  (What recv_to_file does not wait for,
\* after a short recv, it does not take.)
ServesOneByOne == Service!Spec
=============================================================================

# A TLA+ verification of the aesd character driver and socket server

The repository holds the exercises of an embedded Linux course. Two programs in it carry
state that several actors share: a Linux character driver (`aesd-char-driver/`) that keeps
the last ten newline-terminated writes in a circular buffer, and a socket server (`server/`)
that appends what its clients send to that device (or to a plain file) and sends the whole
contents back. Two smaller ones are libraries that make child processes
(`examples/systemcalls`) and threads (`examples/threading`). This project models all four,
checks them with TLC on small instances and proves with TLAPS, for every size, the safety
that the runs check: the invariants of all four, where reads and seeks of the driver lead, and
that ring, driver and server implement their abstract specifications.

## Inventory

| Part | State | Operations | Interacts with |
|---|---|---|---|
| circular buffer, `aesd-circular-buffer.[ch]` | `entry[]`, `in_offs`, `out_offs`, `full`, `size` | init, add an entry (hands back the one it replaced), look up the entry of a byte offset | called by the driver, who does the locking |
| driver, `main.c`, `aesdchar.h`, `aesd_ioctl.h` | the buffer, `partial_entry`, `buffer_mutex`, the heap; `f_pos` of each open file | init and cleanup of the module, open, release, read, write, llseek, ioctl | user threads through system calls; kernel allocator; copies from and to user space that may fail; signals that interrupt the wait for the mutex |
| server, `aesdsocket.[ch]` | `should_close`, the thread list, a `thread_info_t` for each connection, `fptr` and `fptr_mutex`, `seekto_arg`; sockets | main: signals, listener, poll/accept loop, `clean_threads`; thread: `recv_to_file`, `send_file` | clients (TCP), signals, the driver or a file |
| list macros, `queue.h` | `lh_first`, `le_next` and `le_prev` of each element | vendored BSD lists | used by the server: insert at the head, remove, safe iteration |
| scripts, `aesdsocket-start-stop`, `aesdchar_load`, `aesdchar_unload` | – | start and stop the server (SIGTERM, SIGKILL after five seconds), load and remove the module | the server, the driver |
| `examples/systemcalls` | child processes, a file descriptor | `do_system`, `do_exec`, `do_exec_redirect` | – |
| `examples/threading` | `thread_data`, a mutex | start a thread that waits, locks, waits, unlocks | – |
| `finder-app`, `autotest-validate`, Makefiles | – | one-shot programs | – |

What is hard in this code: the wrap of the ring and the double meaning of
`in_offs == out_offs`; commands that arrive in several writes from several tasks, with
failures between the allocation and the commit; an ioctl that reads the buffer without the
lock; globals (`fptr`, `seekto_arg`) handed from one function to another under a mutex that is
held across blocking network calls; the life time of `thread_info_t`; the race of a signal
with `poll`; a server that dies in the middle of its work and is started again on what it left;
a child that falls back into its parent's code; texts that TCP delivers in arbitrary pieces;
clients that hang up. The list under "hazards" in `PROJECT.json` gives each at its line, with the properties about it.

## Modules

```
CircularBuffer         the ring as operators on a record (no variables)
  CircularBufferSpec   one caller adding entries               refines BoundedLog
  AesdChar             the driver                              refines CommandLog
    MCAesdChar         constants for TLC
    MCAesdCharScan     history: the buffers an ioctl could have seen
    AesdCharSession    history: what the reads of a file have delivered, and whether a
                       command was stored during an ioctl
      MCAesdCharSession  the same with MCAesdChar's constants
  AesdSocket           the server, over the ring or a file     refines LineService
    MCAesdSocket       constants for TLC
List                   the LIST macros as operators on a record; used by AesdSocket
SystemCalls            do_system, do_exec, do_exec_redirect and their processes
Threading              threads that sleep, lock, sleep and unlock
BoundedLog             abstract: the last Cap items, in order
CommandLog             abstract: commands, a partial one, files with positions
LineService            abstract: connections served one after the other
CircularBufferLemmas   facts about the operators, for every MAX
CircularBufferProofs   theorems about CircularBufferSpec
AesdCharProofs         theorems about AesdChar
ListProofs             theorems about the LIST macros, for every set of elements
AesdCharRefinement     the driver implements CommandLog; where its reads and seeks lead
AesdSocketProofs       theorems about AesdSocket, and that it implements LineService
SystemCallsProofs      theorems about SystemCalls
ThreadingProofs        theorems about Threading
```

Operators named `X_Slip`, such as `Joined_AtOnce`, and `add_entry_Keeps...` are mutated
forms of `X`: what a plausible mistake in the code would make of it. No specification uses
them; with each of them in the place of `X`, TLC finds the property named in `PROJECT.json`
violated.

### CircularBuffer

A record with the fields of `struct aesd_circular_buffer`. `aesd_circular_buffer_add_entry`
is the new record, `Overwritten` what the function returns. The lookup loop is given by its
running total (`RunningTotal`, a recursive function) and the first turn at which it exceeds
the offset. What `buffptr` points to is up to the user of the module: heap addresses in
`AesdChar`, the bytes themselves in `AesdSocket`. `MAX` is at most 255, so no `uint8_t` wraps.

### AesdChar

Tasks are threads in system calls, each on a file of its own (`f_pos[t]`). `pc[t]` names the
places where another task can get in: waiting for the mutex (`w_lock`, `r_lock`), before
`kmalloc` (`w_alloc`), before `copy_from_user` (`w_copy`), in the body of a read (`r_body`), at
`out`, and at each turn of the ioctl's unlocked loop (`io_scan`). What `aesd_write` does after
the copy (merge and free the partial entry, add, free the overwritten entry, advance `f_pos`)
is one action, `write_store`: it runs under the mutex, and the only thing others look at
without the mutex is one `size` word at a time. The heap is the set of addresses handed out
and the bytes at each. Every failure is an alternative action: `-EINTR`, `-ENOMEM`, `-EFAULT`
in write and read, `-EINVAL` in llseek (always for `SEEK_END`, as in the code), `-ENOTTY`.
`copy_from_user` in the ioctl is not checked by the code; the kernel fills the structure with
zeros when it fails, so `ZeroArg` is always a possible argument. `unloads` counts removals.
The kernel keeps a module with open files loaded, so cleanup needs all tasks closed. The model
leaves `aesd_device` as it was until the `memset` of the next load; on a real machine the memory
of the next module is zero already.

An empty write onto an empty partial entry allocates nothing and reads the byte before it
(`write_oops`): the task dies in the kernel with the mutex, and from then on calls end only
by a signal.

`AesdCharSession` adds what a file's reads have delivered since it was at position 0. As
long as nothing is overwritten that is exactly the beginning of the log, whatever is added
and whatever fails between the reads (`ReadsFollowTheLog`). An overwrite shifts the meaning of
`f_pos`, and the reader then skips as many bytes as fell out; nothing in the repository
promises otherwise, so the session ends there. `still[t]` says that no command was stored since
task `t` began its ioctl.

Left out: the `count` argument of read (the code ignores it), the truncation of the new position to `int` in the ioctl's return value (it does not change
`f_pos`), files shared by several tasks.

### CommandLog

What a user of the device may rely on: a sequence of at most `Cap` commands, the bytes of an
incomplete one, and for each caller a position. Writes and reads are atomic; errors change
nothing. `AesdChar` implements it with `log` the contents of the used slots from `out_offs` on
and `partial` the bytes of `partial_entry` (both empty while the module is not loaded). A call
that fails hands its caller no bytes: `Fail` empties `got`, and so does `ioctl_enotty`, the one
failure that is over in the step in which it begins.

### List

The LIST macros that the server uses, on a record that holds the head and the two fields of
every element. `le_prev` is the address of the pointer that points to the element, as in the
header, so that `LIST_REMOVE` writes through it without knowing the head. `Free` forgets the
fields of an element whose memory is given back.

### AesdSocket

`mpc` is the place of the main thread, `pc[c]` that of the thread of connection `c`. Bytes
are pairs (connection, number), so what ends up in the file can be traced to its sender;
`Script[c]` gives their kinds. A whole `AESDCHAR_IOCSEEKTO:X,Y` is one byte of kind `cmd`: a
command that TCP cuts in two is not modelled. A client sends byte by byte and `recv` takes
what is there, up to `MAXDATASIZE`: all ways to split a text occur. `wbuf` is the stdio buffer;
it is written out by the `fseek` in `send_file` (texts in the runs are shorter than the 4096
bytes at which stdio would write earlier; for longer ones a SIGKILL could leave a part of a text). Since all uses of the device happen under
`fptr_mutex` and the server is its only user, a driver call is atomic, and the answer is fixed
once `send_file` has done its seek; it then goes out in pieces of `SENDSIZE`. `SeekPos` is the
driver's loop over the slots as a recursive function, cut at `MAX` slots like the loop.

`AnswerEndsWithOwnText` says that a client whose line `recv` took to its end gets an answer with that
text at its end, byte for byte, and with no byte of its own before it. The one exception is
part of the statement: when a text fills `recv_buf` exactly, the thread calls `recv` again, and if
that fails the made-up byte comes after the complete text and is stored with it.

Signals may come any number of times; later ones can still interrupt a `recv` of a thread in
`Picked`, after `should_close` is set. `poll` fails with EINTR only (Linux then stores `revents` 0): its other
errors need a bad pointer or more descriptors than the one the server watches.

The start-up of `main` is one action for each call that may fail, because a signal means
something else before `set_signal_handler` (it ends the process) and clients can connect from
`listen` on. `clean_threads` is a walk over the list with its own position (`datap`), and the
join in it waits. A thread that `pthread_create` could not make is `stillborn`: its entry stays
in the list until the final walk, whose join of an uninitialized id fails or brings the
process down.

The process ends by `return 0` (`exited`), by `exit(1)` or `abort` (`failed`), or by a signal.
`stop` sends SIGTERM and, since the model has no clock, SIGKILL at any later moment before the
process is gone; `start` makes a new process. What a process had in memory is lost with it,
and so are its connections; the device and the file are as it left them.

Behaviour outside the C standard is a choice: `recv` returning 0 into a fresh `malloc` buffer
may look like a command (`recv_eof`); `recv` returning -1, after a reset or when the signal is
handled by the thread that waits there, makes `fwrite` take a size of `SIZE_MAX`, which the
kernel refuses but which may fill the stdio buffer with bytes from beyond `recv_buf`
(`recv_error`). One made-up byte stands for those, and it waits for `fseek` with the rest of the
buffer, where the code writes at once: the order in the store is the same, and only a SIGKILL in
between would find more in the file. `send` to a reset connection is ignored or kills the process with SIGPIPE
(`send_to_reset`); a closed socket answers the first piece with a reset
(`ShortAnswersAreSurvived` says how far that protects the server).

Left out: the SIGCHLD handler (the server has no children), failures of `malloc` and of writes
to the file, a `send` that blocks on a client that does not read or that a signal cuts short, the reset that closing a socket with unread
bytes causes, the addresses `get_listener` tries one after the other, `time_writer_work` (never
started), and a driver that is removed while the server runs.

### LineService

What the server promises whatever goes on inside it: connections are served one after the
other. `Hear` takes some more of what a connection says. `Serve` appends *all* that was heard
of a connection to the store and takes the answer from the store right after that; the whole of
it, unless the connection asked for a part. An orderly end takes a plain file with it, any other
end leaves the store to the next process. `AesdSocket` implements it (`ServesOneByOne`) with
`heard` the bytes `recv` took (`taken`) and `Serve` happening at the `fseek` of `send_file`. So a
text that `recv` took is stored once, whole and in one piece; what was only received, or only in
the stdio buffer, when the process dies, is lost as a whole. The two exceptions are in `Texts`: a connection with
a seek command in its text has some of its bytes stored, in their order (the commands are
not), and after a failed `recv` one made-up byte may follow (`Junk`). How much of what a client sent
is heard before it is served is open, because the code gives no promise about it: `recv_to_file`
stops at the first short `recv` (`aesdsocket.c:156`).

### SystemCalls

One action for each system call of a process and for each of its failures. A forked process
is in the same function as its parent (`call`) and has copies of its descriptors; `pc` says
whether it is still there (`child`), has become the command, or, after a failed `dup2`, has
returned into the caller's code (`app`), where it may call the functions again. The process
`Root` calls them for ever, so no bound on the number of calls is needed: process ids and
descriptors run out as in a real system, and `fork` and `open` then fail (`OPEN_MAX` is the kernel's limit). `system()` is one
step with any wait status or -1. `ran`, `copies`, `given_up` and the fields of `last` beside
`ret` are history: what really became of the command whose result a caller has in hand. Left out: the contents
of the output file, the caller's stdio buffers (which `exit` in the child flushes a second
time) and SIGCHLD set to be ignored.

### Threading

`slept[t]` counts the microseconds of the `usleep` a thread is in; it may wake at any time
after the ones it asked for. `pthread_join` models the caller that `threading.h` describes: it
frees what the thread returned. Left out: a failing `malloc` (the code does not check it) and
a failing unlock (the thread owns the mutex, so it cannot fail).

## Runs

| Run | Instance | Shows |
|---|---|---|
| `circular_buffer` | 3 slots, 2 addresses, sizes 0–2 | `TypeOK`, `RingInv`, `SizeIsSum`, `FindMatchesConcatenation`, refinement of `BoundedLog` (`KeepsLastEntries`). The state space is finite without any bound. |
| `driver` | 2 tasks, 2 slots, 4 addresses, payloads of a part and of the end of a command, llseek and the ioctl, one reload | `TypeOK` (positions never negative), `MemorySafe`, `LeakBound`, `CommandsTerminated`, `ReadsFollowTheLog`, `SeekFindsCommandUnwrapped`, refinement of `CommandLog`, seeks included |
| `driver_seek_wrapped` | 1 task, 3 slots, commands of 1 and 2 bytes | **violated**: `SeekFindsCommand` |
| `driver_scan_race` | 2 tasks, 3 slots | **violated**: `ScanSeesOneBuffer` |
| `driver_live` | 2 tasks, 1 slot, 2 addresses, empty writes too, all calls, one reload | `CallsReturn` under `FairSpec` |
| `server` | 3 clients, device with 1 slot, one seek command, a client that may close or reset and whose thread may get the signal, SIGKILL and restarts | `TypeOK`, `NoUseAfterFree`, `CleanExit`, `AnswerEndsWithOwnText`, `ListIsExact`, refinement of `LineService` (`ServesOneByOne`) |
| `server_file` | 2 clients on a file, one may shut down, close or reset; failing start-up, accept, pthread_create and fopen; restarts | `ConnectionsDoNotMix`, `AnswerEndsWithOwnText`, `CleanExit`, `ShortAnswersAreSurvived`, `ServesOneByOne`; `ShutdownCompletes`, `ConnectedAreAnswered`, `FinishedAreReaped` under `FairSpec` |
| `systemcalls` | 3 process ids, 1 descriptor, every failure | `TypeOK` (who waits has a child), `ExecTellsTheTruth`, `NoChildLeft`, `OneCaller`, `CallReturns` under `FairSpec` |
| `systemcalls_output` | 2 process ids, 1 descriptor | **violated**: `OutputClosed` |
| `systemcalls_redirect` | 2 process ids, 1 descriptor | **violated**: `RedirectTellsTheTruth` |
| `threading` | 3 threads, waits of 0 and 1, failing `pthread_create` and lock | `TypeOK`, `DataIsPrivate`, `NoDataLost`, `SuccessIsHonest`, `ThreadReturns` under `FairSpec` |
| `threading_units` | 2 threads, a millisecond of 1000 microseconds | **violated**: `WaitsMilliseconds` |

Deadlock is checked in every run but those of `Threading`, whose threads are started once and
end; the server's `Ended` stutters once the process is gone.

Bounds. In `AesdChar` a task starts a write or a seek only from a position up to `MaxPos` and
while at most `MaxPartial` bytes wait; in-flight calls may exceed both by one call each, so
the bounds only cut off longer sequences of the same calls. Two slots and four addresses let
the ring wrap while a partial entry and a write in progress exist; a fifth live allocation
shows up as `-ENOMEM` (in `driver_live` a third one does, so that a write does not merge and
overwrite at once there). Addresses and tasks are symmetric; the liveness run uses no symmetry.
In `AesdSocket` `MAXDATASIZE = 2` lets a text of two bytes arrive in one full `recv`, which makes
the loop go on, or in short ones, which end it early; `BACKLOG = 1` with three clients gives a
full queue, three clients a list with an element in its middle, and `SENDSIZE = 2` answers that take more
than one turn. Restarts have no bound: a client that was cut off does not come back, so the
states are finitely many.

Fairness. Driver: a task in a call goes on (weak), and the mutex is not withheld from a task
for ever (strong: the kernel's mutex hands over to its waiters); nobody has to start a call.
Server: threads run, `poll` returns (it has a timeout), `accept` and `get_listener` do not fail
for ever, `send` does not block for ever, connected clients send their text. SIGKILL, failures of start-up and restarts are in
no fairness condition. Signals and connections need not come. Weak
fairness is enough for `fptr_mutex`: each thread locks it once. System calls: processes run
and commands end; a copy of the caller may run for ever. Threads: time passes and threads run.
No failure (an interrupted `waitpid`, a lock that fails) is part of a fairness condition that a
liveness property could lean on.

### What the violations show

* `SeekFindsCommand`: the ioctl adds up array slots from slot 0. Reading starts at
  `out_offs`, so after the first overwrite "command n" of the ioctl is not the n-th command. The
  same property is violated in a second way, which the bound `MaxPos = 0` of the run keeps out of
  its trace (a file seeks from position 0 only): `main.c:210` adds the sum to `f_pos`, so that the ioctl
  moves a file relative to where it was, while `aesd_ioctl.h:27` and `:31` describe a place in the buffer. With
  `MaxPos = 1` TLC shows that after a single write. `SeekFindsCommandUnwrapped` says when the
  ioctl is right: for a file at position 0, with the oldest command in slot 0, if no command is
  stored while the loop is under way.
* `ScanSeesOneBuffer`: the ioctl takes no lock. Two commands that are stored between two turns of
  its loop can yield a sum that belongs to no buffer there ever was. One is not enough: it changes
  one slot, and the sum is then that of the old or of the new buffer. The locking rule that the
  finding quotes is on the functions of the buffer; `aesd_write` follows it and `aesd_ioctl`, which
  reads the entries itself, does not.
* `OutputClosed`: the parent never closes the output file, against the comment of
  `do_exec_redirect`, so a program that calls it often enough runs out of descriptors.
* `RedirectTellsTheTruth`: the comment of `do_exec_redirect` refers to that of `do_exec`, which
  promises true for a successfully executed command only. A child that a signal killed has no exit
  status, and the function falls through to `return true`. The other way to violate it is a child
  whose `dup2` failed, that returned into the caller's code and exited there with 0. For `do_exec`
  the same statement holds (`ExecTellsTheTruth`).
* `WaitsMilliseconds`: the waits go to `usleep`, which takes microseconds.

Not a run of its own, but visible in the model: `do_system` is true for every status of the
command, while its comment promises false for a failed one.

Some behaviours are in the models without a property of their own, since nothing in the
repository promises otherwise: a text is cut at the first short `recv`; an empty write takes the
mutex with it (`CallsReturn` excuses what follows); a failed `pthread_create` of `Threading` loses
one `thread_data` (`NoDataLost` counts it). And a client whose text fills `recv_buf` exactly and who then waits
keeps `fptr_mutex` for ever (TLC refutes `ConnectedAreAnswered` when `server_file` is run with
such a client outside `Shuts` and `Hangs`).

## Proofs

For every `MAX` in 1..255, every set of addresses, tasks, payloads, list elements, processes and
threads, and every finite set of connections. Sums, walks and concatenations are recursive functions, and what they
compute is proved by `NatInduct` (in `CircularBufferLemmas`), which states induction for a *set*
of numbers: the least number outside the set, which `WFMin` gives, has a predecessor in it. That a
recursive function satisfies its equation is `Recursion`, and each function has its lemma from it
(`RunningTotalValue` for the lookup, `SeekPosType` for the seek, `FlattenValue` for `FlattenSeq`).
Counting uses the cardinality facts of `FiniteSetTheorems`.

* `CircularBufferLemmas`: what the modulo does (`AdvanceValue`, `ReadSlotValue`,
  `ReadSlotInjective`, `ReadSlotShift`), the number of used slots (`CountValue`), how
  `add_entry` moves the read order (`AddEntryReadOrder`), and from it `AddEntryWellFormed` and
  `AddEntryLog`: the log after an add is the old one, without its head if the ring was full,
  with the new entry appended. Then what `FlattenSeq` makes of a log (`FlattenAppend`,
  `FlattenTail`) and how its prefixes grow (`ReadsOn`, `PrefixGrows`).
* `CircularBufferProofs`: `TypeCorrect`, `RingCorrect` and the refinement
  `RingImplementsLog`. The inductive invariant is `TypeOK /\ RingInv`: the offsets and the flag
  agree and unused slots are null entries. The second part is what makes the returned entry a
  null entry when nothing was dropped. `SizeCorrect`: the `size` field is the sum of the entries
  in use, which `add_entry` keeps because the overwritten entry is the one at `in_offs`.
  `FindCorrect`: the first turn at which the running total exceeds the offset names the entry that
  the concatenation has there, for every offset, and there is no such turn beyond the last byte.
* `AesdCharProofs`: `DriverInvariant`, and from it `DeviceTyped`, `DriverMemorySafe` and
  `DriverCommandsTerminated`. `DriverInv` strengthens `MemorySafe` by the ownership of the mutex
  (only one task can be about to free), by "an open file keeps the module loaded", by "a write
  that copies has something to store" (an empty write has died before), by `WellFormed` and by
  `CommandsTerminated` (an absent partial entry has size 0, so sizes and allocations agree). All
  actions that touch neither the device nor the heap are handled by one lemma, `QuietKeepsInv`.
  `NothingLeaks` (`LeakBound`) counts the allocations nobody reaches: each removal of the module
  adds at most the partial entry. `DriverTyped` adds the types of the calls' locals; that `f_pos`
  never gets negative rests on what the lookup returns.
* `AesdCharRefinement`: `DriverImplementsLog`. A write commits in `write_store`, a read in
  `read_copy`, a seek in `ioctl_seek` or `aesd_llseek`, and every failure is `Fail`; all other
  steps, the removal of the module apart, stutter. It needs `DriverInv` (no step changes the
  bytes of another's entry) and `GotInv` (a call delivers nothing before its last step). This
  proof found a flaw of the abstraction: `Fail` used to keep the bytes of the call before it.
  - `DriverReadsFollow` (`ReadsFollowTheLog`) is about the driver with the history `seen`.
    `SessionInv` adds that a closed file is at position 0, so that a file that has read something
    keeps the module loaded. A read is `Read` of the log (`ReadMaps`), whose bytes begin where the
    file is, so they go on where `seen` ends (`ReadsOn`); every other step leaves the commands
    as they are or appends one (`CommandsGrow`), under which a prefix stays one. Only an overwrite
    does not, and it ends the session.
  - `SeekFindsUndisturbed` (`SeekFindsCommandUnwrapped`). `ScanInv`: with `out_offs` 0, slot and
    command numbers agree, and as long as no command was stored since the ioctl began (`still`), the
    loop of `aesd_ioctl` has added up the commands before its index. The condition is needed: `aesd_ioctl`
    does not take the mutex, and a store between two turns moves the command that is looked for.
* `ListProofs`: `LIST_INSERT_HEAD`, and `LIST_REMOVE` followed by `free`, keep a list `Linked`
  (every pointer leads to an entry, every `le_prev` names the pointer that leads to its entry)
  and `Ordered`: the entries form one row from `lh_first` on. `Linked` alone would allow a ring
  of entries beside the list, which no walk would ever free. `Ordered` says by a numbering what
  `ListIsExact` says by a walk.
* `AesdSocketProofs`, a tower of invariants, each proved from the one below it:
  - `SafeInv` (`ServerMemorySafe`: `NoUseAfterFree`) adds the list (`Listed`) and the queue: a
    connection waits for `accept` once and has no entry yet, so that `accept` never inserts an
    entry twice. `ServerListExact` (`ListIsExact`): the walk that `clean_threads` makes visits every
    entry exactly once, by induction on the number of its steps.
  - `ExitInv` (`ServerExitsClean`: `CleanExit`) adds who owns descriptor, mutex and `seekto_arg` at
    which place of `thread_work`, and that the final walk is always at the first entry: when it
    ends, `Ordered` leaves no entry over.
  - `TypeInv` (`ServerTyped`: `TypeOK`) adds the types of the data and that the ring stays
    `WellFormed`; `FlushStores` is the lemma on what the write behind `fseek` does to the store.
  - `Broken` (`ServerPipe`: `ShortAnswersAreSurvived`): a connection is broken only by a send of its
    own thread, which has then sent `SENDSIZE` bytes or all.
  - `StoreInv` (`ServerKeepsTogether`: `ConnectionsDoNotMix`): the stdio buffer holds bytes of the
    mutex's owner only, and the owner of a stored byte is past its write, so nobody comes back
    to add to an old text.
  - `TextInv` (`ServerAnswers`: `AnswerEndsWithOwnText`): what a thread has in the stdio buffer is
    what it has received, in order.
  - `ServerImplementsService` (`ServesOneByOne`): all of this together makes each `recv` a `Hear` and
    `send_file` one `Serve` of all that was heard.
  The proofs cover failures, SIGKILL and restarts.
* `SystemCallsProofs`: `SystemCallsInvariant`, and from it `SystemCallsTyped`, `ExecIsTrue`,
  `ChildrenAreReaped` and `OnlyCopiesReturn`. What a function returns is made
  from a status, so its truth rests on how a child can have come to that status: the invariant
  relates parents and children (`TreeInv`), says that a free process id has no past (`FreeInv`; ids
  are used again), and what a process that ended with zero has done (`PastInv`).
* `ThreadingProofs`: `ThreadsInvariant`, and from it `ThreadsTyped`, `ThreadsDataPrivate`,
  `ThreadsHonest` and `ThreadsLoseNothing`. `DataIsPrivate` makes the rest inductive: a thread that
  writes or frees its `thread_data` leaves all others alone. `NoDataLost` is a count, kept as an
  equation between the addresses in use and the calls they were allocated for.

Assumptions are the named `ASSUME`s of the modules. `NULL` is none of the things it is told apart
from: no address, task, connection, process, argument, text (`TextAssumption`) or result of a
lookup (`NullAssumption`); `lh_first` is no connection; payloads are byte strings; bounds are
natural numbers; there are finitely many connections (a listen queue and a list of threads have
to be counted); among the waits of `Threading` there is a longest, as among the values of an `int`.

Only model-checked: liveness (`CallsReturn`, `ShutdownCompletes`, `ConnectedAreAnswered`,
`FinishedAreReaped`, `CallReturns`, `ThreadReturns`), which needs fairness and `ENABLED`, beyond the
provers. Every other property of a passing run is stated by a theorem.

## Not modelled

`finder-app` and `autotest-validate` are one-shot programs without state of their own: a
property of them would restate a line. Of `queue.h` the macros that the server does not use
are left out, of the scripts the device node with its group and mode. `do_system` hands its
work to `system()`; that it takes every status but -1 for success is plain from its one line.

## Plan

1. Done: ring, driver, server with its ends and restarts, list, examples, the runs above, the
   proofs above.
2. Left: a driver that is removed while the server runs; the `count` of read.

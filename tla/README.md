# Verification of the HTTP servers of OS_study

The repository is a set of study programs for an operating-systems course. Its
one system is `multi_server/`: eight self-contained HTTP/1.x servers in C, each
a different way to serve connections concurrently (a process per connection, a
pool of processes, a thread per connection, pools of threads with and without a
queue, several ports). They share one header and otherwise copy each other's
functions. This directory models them in TLA+, checks small instances with TLC
and proves the central properties with TLAPS. There are no tests in the
repository; what the programs promise is read from their code and comments.

## The system

| Part | Source | State | Operations | Concurrency |
|---|---|---|---|---|
| blocking queue | `multi_server_thread_blocking_queue.c` 39-58, 235-282 | linked list `first`/`last`/`length`, mutex, condition variable, the messages | `queue_init`, `queue_put`, `queue_get`, `queue_destroy` | one accepting thread, a pool of workers |
| thread pool server | the same file | queue, statistics, unnamed semaphore `sem`, per-worker buffers | `server`, `do_call`, `write_code`, `response`, `exit_handler` | workers share one process; a signal or `exit` ends all |
| request line | `read_request_line`, `parse_method`, `parse_version` | `recv_buffer`, `req_uri`, fields of `struct req_line` | one `recv` per byte | buffers of pooled threads survive a request |
| fork per connection | `multi_server.c` | System V segment with the statistics, named semaphores, process table | `main`, `server`, `do_call`, `write_code`, `handler_siguser1`, `exit_handler` | a process per connection, one more that reports on SIGUSR1, restarts |
| pre-forked pool | `multi_server_pre_forked_pool_of_processes.c` | as above, a listening socket and globals per process | `main`, `server`, `do_call`, `handler_siguser1` | 32 processes that `accept`; those that die are not replaced |
| passed descriptors | `multi_server_pass_socket_fd_to_child_processes.c` | as above | those of the pool: `sendConnection` is not called, `un_listen` has no body | as above |
| thread per connection | `multi_server_thread.c` | statistics, `sem`, open descriptors | `server`, `do_call` | `pthread_create` per connection, its result ignored |
| accepting threads | `multi_server_pre_create_thread.c` | the same | `server`, `do_call` | a fixed number of threads that `accept`; nothing is closed |
| several ports | `multi_server_thread_Listening_on_multiple_ports.c` | listening sockets, `readfds`, the queue | `start_server`, `queue_put`, `do_call` | one thread in `select` and `accept`, a pool of workers |
| first server | `server.c` | open descriptors | `server`, `accept_request`, `parse_uri` | a detached thread per connection, no statistics |
| script runner | `/bash` in `multi_server.c` and the two pools | `alarm_count`, `need_stop_script`, the handler of SIGALRM and its timer, `errno`, a process group and a pipe per script | `pipe_read_v2`, `handle_bash`, `stop_scirpt_timeout`, `handle_bash_stop_child_process_group`, two SIGALRM handlers | alarms against reads and waits; scripts and what they start |
| `server.h` | | | `is_valid`, `err_sys`, `log_print`, unused `sendConnection`/`recvConnection` | |
| exercises | `Reference/`, `CXXPRIMER/`, `E_CXX/`, ... | | language exercises | a few use threads |

How the parts interact. In the thread pool server the main thread calls `accept`
and `queue_put`; workers call `queue_get`, read the request line, answer, and
call `write_code` in the middle of the answer. In `multi_server.c` every child
opens the semaphore by name and attaches the segment by number; main only zeroes
the segment and unlinks the name when it starts. SIGUSR1 goes to main, which
posts a second named semaphore that a reporting process waits for.

What is hard here: the signal after the unlock in `queue_put` and the free after
the unlock in `queue_get`; the semaphore around the counters, which every
threaded server takes and never gives back; processes that die inside the
critical section or live on while the server is started again; a counter that is
read without the semaphore; buffers that keep what an earlier request left;
files, and in most servers connections, that nobody closes; a `select` set that must be built again in every round,
and a blocking `accept` behind it; alarms that are never cancelled and flags that are
never reset while one process runs script after script; a `queue_destroy` that takes
no lock while the workers run on; clients that connect and say nothing.
`PROJECT.json` lists each hazard at its line with the properties that watch it.

## Modules

| Module | Models | Corresponds to the code as follows |
|---|---|---|
| `FifoQueue` | what `struct queue` promises | `FifoPut`, `FifoGet`, `FifoAsk` are the calls seen from outside |
| `BlockingQueue` | `queue_init`, `queue_put`, `queue_get` | one action per step other threads can see: `PutAlloc` (calloc and the two assignments), `Lock`, `PutLink`, `Unlock`, `PutSignal`; `GetWait`, `GetTake`, `Unlock`, `GetFree`. Addresses are model values that `free` makes available to `calloc` again |
| `BlockingQueueProofs` | theorems about it | see below |
| `ThreadedAnswer` | what a thread does with a connection, in all four threaded servers (the functions are copies of each other) | `write_code` is modelled access by access, an answer is the choice of its status code and of the place where it is counted |
| `QueueServer` | `multi_server_thread_blocking_queue.c` | EXTENDS `ThreadedAnswer`, INSTANCEs `FifoQueue` for the queue |
| `Descriptors` | the descriptors of a process whose threads share them | by kind, which connections have one open: of the connection itself, of the file sent to it (`open` in `req_parser` or `parse_uri`, never closed), of the directory listed to it (`opendir`, `closedir`) |
| `ThreadServer`, `PreThreadServer`, `FirstServer` | `multi_server_thread.c`, `multi_server_pre_create_thread.c`, `server.c` | INSTANCE `ThreadedAnswer` and `Descriptors`; each adds how a thread gets a connection and what becomes of the descriptors |
| `ThreadServers` | the three together | a constant of the behaviour, `program`, says which of them runs; what they promise is stated once |
| `PortsServer` | `multi_server_thread_Listening_on_multiple_ports.c` | INSTANCEs `QueueServer` and `Descriptors`; adds the backlogs of the listening sockets and the main thread: `Select`, then one action per slot of `servSocks` |
| `PreforkServer` | `multi_server_pre_forked_pool_of_processes.c` | INSTANCEs `ThreadedAnswer` for the copied functions; adds forks, deaths, backlogs, the semaphore's creation, `sem_post` and the SIGUSR1 process |
| `PassFdServer` | `multi_server_pass_socket_fd_to_child_processes.c` | EXTENDS `PreforkServer` and says which function of the copy is which action there |
| `PreforkServerProofs` | theorems about the pool and its copy | see below |
| `BashScript` | the script runner | one process that runs one script after the other (a child of `multi_server.c` runs one); the script, its process group, its pipe and what it leaves behind are the environment. One action per system call or test that a signal can come before |
| `BashScriptProofs` | theorems about it | see below |
| `QueueShutdown` | SIGINT, `exit_handler`, `queue_destroy` | `queue_put` and `queue_get` once more, but access by access: a destroyed mutex excludes nobody, so that what is one step of `BlockingQueue` is several here. What follows an access to a null or freed message is undefined, and the model stops there (`fault`) |
| `RequestLine` | `read_request_line`, `parse_method`, `parse_version` | one action per state of the reader and byte received |
| `RequestLineProofs` | theorems about the reader | see below |
| `ForkServer` | `multi_server.c` | main, children and the SIGUSR1 process are separate processes with a `pc`; segments and semaphores are numbered in the order of their creation |
| `ForkServerProofs` | theorems about its semaphore and its counters | see below |
| `QueueShutdownProofs` | theorems about SIGINT | see below |
| `ThreadedServersProofs` | theorems about the thread pool and the servers of `ThreadServers` | see below |
| `PortsServerProofs` | theorems about the server on several ports | see below |
| `MCBlockingQueue`, `MCQueueServer`, `MCThreads`, `MCPortsServer`, `MCPreforkServer`, `MCRequestLine`, `MCForkServer`, `MCBashScript`, `MCQueueShutdown` | instances for TLC | the `.cfg` files give the constants |

`QueueServer` and `BlockingQueue` compose through `FifoQueue`: the first uses it
in place of the list, the second is proved to implement it, and so is `QueueShutdown` as
long as the queue is not being destroyed. `PortsServer` puts
its `select` loop in front of the same pool. `QueueServer` ends in one step;
`QueueShutdown` says what that step is made of. The servers with processes take
the outcome of `/bash` as a choice: there is no script; EPIPE, behind which `handle_bash` returns
without `write_code`; or a body (`bash`, then `stop`) that ends, except for a script in `Hanging`,
which may keep its process for good. `BashScript` has the steps of that.

Data is abstracted to what the properties tell apart. A connection is a value;
an answer is the class of its status code; files and directories are a choice of
outcome; a script is one of four kinds (it ends, writes for ever, stays silent,
ignores SIGTERM), and its output is there or not. Bytes appear in `RequestLine`
only. Two shared-memory accesses that the C code makes in one statement
(`++requests`) are two steps.

## Runs and bounds

| Run | Instance | Shows |
|---|---|---|
| `queue` | 2 putters, 2 workers, 3 messages, 3 sockets, fair | `TypeOK`, `ListShape`, `MessagesAccounted`, `NoLostWakeup`; `ImplementsFifo` (refinement of `FifoQueue`); `Delivered` |
| `pool` | 2 workers, 3 connections, fair, semaphore working or not | `CountedOnce`: a working semaphore admits one request ever; `NeverOvercounts`; `TakenIfUnguarded` |
| `pool_stuck` | the same with 4 connections | expected violation of `QueuedIsTaken`: `write_code` never posts |
| `shutdown` | the accepting thread, 2 workers, 2 connections, SIGINT in any thread, fair | `QuietEndsCleanly`: SIGINT while the queue is empty touches no message; `FaultsExplained`: what goes wrong otherwise, and only then; `SigintEnds` |
| `threads` | 2 threads, 3 connections, 3 descriptors, each of the three programs, fair | `AnsweredOnce`; `ThreadOpenIsInUse` (one program closes the connections it answers, none a file), `LifetimeBounded` (two close no connection); `FirstIsCounted` |
| `ports` | 2 ports, 3 clients, 3 descriptors, an accept that fails, 1 worker, fair main thread | `SelectsAllPorts`, `BlocksOnlyAfterAbort`, `EveryPortServed` |
| `prefork` | 2 processes, 2 clients, one of which may stay silent or ask for a script that never ends, 1 SIGUSR1, fair | `SemaphoreExact`, `CountExact`, `ClientsServed` |
| `request_line` | 2 requests in the same buffers, a URI buffer of 3 bytes, methods of at most 3 bytes, versions of at most 4 | `AcceptsExactlyLines`, `UriFits`, `VersionRefused`, `FirstServedAsGet`, `UriIsToken` |
| `request_stale` | the same | expected violation of `ServedAsGet`: `parse_method` reads bytes of an earlier request |
| `fork` | 2 connections, 2 runs, SIGINT to the group or to one child | `SemaphoreExact`, `CountExact`, `NeverOvercounts`, `StatisticsBounded`, `AnsweredIsCounted` |
| `fork_live` | 2 connections, the script of one of which may never end, 1 run, 1 signal, fair | `ConnectionsEnd`, `SignalsReported`, `ReportIsCurrent` |
| `bash` | 3 scripts (one writes for ever, one ends, one stays silent and ignores SIGTERM), 5 descriptors, a child or a pool process, SIGPIPE ignored or not, fair | `FirstStopIsDue`, `TermNamesOwnGroup`, `StopIsFinal`, `ScriptsBounded`, `WorkerReturns` |

Why these bounds are enough for the cases that matter. Two putters, two workers
and three messages contain an empty, a one-element and a longer list, both
workers asleep, a woken worker overtaken by another one, and the reuse of a
freed address. Two workers and three connections leave one connection queued
while both workers are busy; four let both get stuck behind a first answered
request with one still queued. Two runs contain every overlap of an old process
with a new server; two children are needed for any race on the counters. Three descriptors are
used up by three connections, or by two and one file, and three connections are more than there are
threads: both can run out. Two ports
and three clients let one port have clients all the time while another waits; one
failing accept can hit either of them in any round; once the three descriptors are gone, a client
still waits. Two processes, one of which
dies anywhere, show what the other one still does, and one silent client or script
among two keeps one process while the other goes on. A URI buffer of three bytes has
the empty, a fitting and a too long URI; version tokens of four bytes contain `/-1.`;
two requests are what one stale buffer needs. Five descriptors let a pool process
run two scripts, in each order of two kinds, and run out before the third. Two workers
and two connections in `shutdown` contain an empty, a one-element and a longer list,
a worker asleep, one inside and one outside `queue_get`.

`MaxRuns`, `MaxSignals`, `MaxRequests`, `Fails` (how often accept fails), `Modulus`
(8 in place of 2^32: one wrap below zero is in reach), `MaxMethod` and
`MaxVersion` are bounds of the models; `MaxOpen` and `MaxFds` stand for the
descriptor limit. `Fails` bounds what the code does not: once no descriptor is left every `accept` of
the server on several ports fails, and no property relies on that coming to an end. `Silent` and `Hanging`
name the connections whose clients and scripts may keep a process for good, and bound nothing else. `BashScript` has no times: an alarm may go off at any moment after it was
set, which includes the ten seconds. `MaxMethod` and `MaxVersion` are also an assumption: the code puts no limit on method
and version, and what it does with a token longer than its buffer of 8192 bytes
is undefined and not modelled.

CHECK_DEADLOCK is off where the modelled clients may simply stop connecting
(all but the queue). In `queue` it is on: every blocked state must be left.

## Fairness

`BlockingQueue!FairSpec` assumes that a thread which can take a step inside
`queue_put` or `queue_get`, or has a connection to serve, is scheduled eventually,
and nothing about new connections or spurious wakeups. `QueueServer!FairSpec` is
weak fairness of each worker's `do_call`, and so is `ThreadServers!FairServersSpec`;
`ForkServer!FairSpec` is weak fairness of every process's own steps, except those of a child that
waits in `read` or `waitpid` for a script in `Hanging`; `PortsServer!FairSpec` is that of the main thread only, `QueueShutdown!FairSpec` of every
thread's own steps. Where workers are fair, this includes the reading of the request
line: the code's `recv` has no timeout, so a client that stays silent keeps its worker,
and these liveness properties hold for clients that send their line or close.
`PreforkServer!FairSpec` assumes that of the clients outside `Silent` only, and the end of scripts
outside `Hanging` only (`Held`); `ClientsServed` says who suffers (`KeptWaiting`). Likewise
`ConnectionsEnd` excuses a child whose own script keeps it (`Hangs`), and nobody else. `EveryPortServed` assumes nothing of clients
and workers; it promises nothing once no descriptor is left (`HasFd`), because `accept` then fails for ever.
While one is left, it assumes that `accept` fails a finite number of times. `BashScript!FairSpec` schedules the process and lets an alarm that was set
go off; of scripts it assumes what their kind says and nothing more. No fairness is
assumed of signals from outside, failures, resets or new clients.

## Proofs

`BlockingQueueProofs` proves, for any finite sets of threads and messages and any
sockets (`QueueAssumption`):

- `InductiveInvariant`: `IInv`, the conjunction of `TypeOK`, `MutualExclusion`,
  `ListShape`, `MessagesAccounted`, `HandInv` and `ConnfdInv`, is inductive. The
  list part needs the mutex part (only the owner relinks), the accounting needs
  the list part (the message that leaves is the first and no other), and both
  need `HandInv` (what is about to be linked ends with a null pointer).
- `TypeCorrect`, `QueueMutualExclusion`, `ListWellFormed`, `NoLeakNoDoubleFree`
  follow. `WakeupsAreNotLost` adds `NoLostWakeup`, by counting: a signal moves one
  worker from asleep to awake exactly when its putter stops counting as
  signalling; a worker that goes to sleep saw an empty list.
- `QueueImplementsFifo`: `Spec => Fifo!FifoSpec`. Linking is `FifoPut`, unlinking
  `FifoGet`, the return to `queue_get` `FifoAsk`; all other steps stutter.

`ForkServerProofs` proves, for any finite set of connections, any number of
starts of the server and of signals (`ForkAssumption`):

- `SemaphoreExactAlways`: `Spec => []SemaphoreExact`. The inductive invariant
  `IInv` has no cardinalities. `Exclusive` says that a semaphore is 0 exactly where
  somebody, dead or alive, holds it, and that holders are unique. It needs
  `Handles` (who got past `sem_open` has a semaphore that exists) and `Numbers`: a
  run creates one semaphore at most, although the name may be opened while the
  next run is already between `shmget` and `sem_unlink`. Steps that leave
  the semaphores alone are covered by two lemmas, one for a process that goes on
  (`ChildStep`) and one for those that die (`DeathStep`). At the end `IInvExact`
  counts the holders. TLC checks `SemaphoreExact` without SIGUSR1 (`MaxSignals = 0`
  in `fork`); the proof covers the SIGUSR1 process as well.

- `CountExactAlways`, `NeverOvercountsAlways`, `StatisticsBoundedAlways`,
  `AnsweredIsCountedAlways`, `ReportIsCurrentAlways`. A semaphore that is exact does not make the
  counters exact; the inductive invariant `CInv` adds who uses a segment with which
  semaphore. `Kin` is the heart of it: as long as the runs do not overlap, the
  children attached to a segment are those of the latest run, and all of them have opened
  the semaphore that the name denotes now. With `Exclusive` this makes the one
  between two counters unique (lemma `Sole`). `Progress` ties the sets of counted
  connections to the places of the children, `Exact` the counters to those sets,
  `Registers` the loaded values to the counters, and `Window` what a reader has
  read to what it may still be. `Bounded` needs none of that and holds with overlapping
  runs, too.

`ThreadedServersProofs` proves, for any finite sets of threads and connections and with or
without a working semaphore (`AnswerAssumption`):

- `CountedOnceAlways`, `NeverOvercountsAlways`, `AnsweredIsCountedAlways`. The
  invariant has two independent parts. `Owned` says that a connection is in the queue or
  with one thread, and counted by that thread only; with it `Counts` bounds counters
  and registers by what was counted, although without a semaphore any number of threads
  race. `Phase` describes the life of a semaphore that nobody posts after
  `write_code`: free and nobody counted, or held by one thread and nobody counted, or
  never free again and one connection counted.
- `AnsweredOnceAlways`, `ThreadOpenIsInUseAlways`, `LifetimeBoundedAlways`, of the three servers
  without a queue and for any descriptor limit (`MaxFdsAssumption`). `ServersIInv` follows a
  connection: `Given` says that it is with one thread at most and not answered before that
  thread ends, `CountedFirst` that a thread which is past the counters has counted it,
  `OpenConns` which connections are open: those in use and those lost, or, where no connection is
  closed, all there ever were; `OpenBodies` that a directory is open only while it is listed, and that
  a file belongs to a connection that is being answered or was; and with `NOpen` within the limit these are `OpenFds`. `ThreadStep`, `PreThreadStep` and `FirstStep` have one case per way a
  server hands a connection to a thread.

`PortsServerProofs` proves, for any finite sets of ports, clients, failures and workers
(`PortsAssumption`):

- `SelectsAllPortsAlways`, `BlocksOnlyAfterAbortAlways`. `Asked` says that the loop has set again the bit
  of every slot behind it, `Chosen` that a chosen slot ahead of it has a client, or lost one
  since this `select` returned (`gaveUp`, which every `select` resets).
- `AbortedStayOutAlways`: who gave up is never accepted and in no backlog (`Waiting`).
- `PortsArePool`: a `select` loop in front of the queue is the pool of
  `QueueServer`: `accept` and `queue_put` together map to its `Accept`, everything
  that happens in front of them to a stutter. `PortsCount` draws from the
  pool what holds of its counters.

`PreforkServerProofs` proves, for any finite sets of processes and connections, silent
or not, and any number of signals (`PreforkAssumption`):

- `SemaphoreExactAlways`, `CountExactAlways`. `Exclusive` is that of `ForkServerProofs`
  for one semaphore, which may not exist yet. `Queued` says that a client is in one backlog
  once and not accepted, so that `Owned` can say that a connection is with one
  process. `Exact` needs both: at most one connection is between the two counters,
  with the process that holds the semaphore or lost with one that crashed
  holding it; and since such a death stops the counting for ever, there is
  never a second one. `Registers` says that the holder knows what it loaded.
- `PassFdExactAlways`: `PassFairSpec => Spec` (`PassFdIsPool`), so that both hold for the
  copy that was meant to pass descriptors. They are safety properties; `ClientsServed`
  is model-checked for the pool.

`BashScriptProofs` proves, for any scripts of any kinds and any number of descriptors
(`ScriptAssumption`):

- `FirstStopIsDueAlways`, `TermNamesOwnGroupAlways`, `StopIsFinalAlways`, `ScriptsBoundedAlways`.
  `OwnChild` says that a pool process reaps nobody before it has sent SIGTERM, so that the
  number it names is not free for reuse; `Due` that only alarms of scripts that were started
  set the flag; `Final` that the two ways out of the loop around `waitpid` lead past
  a reaped leader; `Bounded` counts descriptors.

`QueueShutdownProofs` proves, for any finite sets of threads and of messages, one accepting thread and a
`length` of any width (`ShutdownAssumption`):

- `FaultsAlwaysExplained`, `QuietAlwaysEndsCleanly`, `MessagesAlwaysOwned`. Inside the critical section the
  queue is no list, and after `queue_destroy` it never is one again; the inductive invariant has a part
  for each time. `Whole` holds until `queue_destroy` writes its first field: `first`, `last`, the links
  and `length` are those of a sequence of messages, plus what the one thread inside has done so
  far, and there are fewer messages than `Modulus`, so that `length` cannot wrap. `Safe` goes further:
  as long as the mutex is not destroyed, no link, `first` or `last` names a message that is freed or
  still private, even where `queue_destroy` has reset the fields under a thread that is inside.
  A fault therefore needs a destroyed mutex or reset fields, which is what
  `FaultsExplained` says. `QuietInv` follows a SIGINT that finds the queue empty and unlocked and the main
  thread in `accept`: from then on no worker passes the test of `length`.
- `AccessesAreFifo`: `Spec /\ []Untouched => Fifo!FifoSpec`. Until `queue_destroy` marks the mutex or resets
  `last`, the single accesses, interleaved in any way, implement `FifoQueue`: the store
  that links a message is `FifoPut`, the one that makes `first` skip it `FifoGet`, the free
  `FifoAsk`. `ChainFrom` reads the content off `first` and `next`; `OneChain` says that there is only one way
  to do so, by a least place where two could differ. This is what allows `BlockingQueue` to
  take one step for what the mutex covers.

`RequestLineProofs` proves, for any `URI_LIMIT` of at least 2, any printable bytes, any bound on methods and
versions and any number of requests in the same buffers (`RequestLineAssumption`):

- `UriFitsAlways`, `UriIsTokenAlways`, `AcceptsExactlyLinesAlways`. `Shape` says for each state of the reader where
  the spaces of the bytes received are, and that `req_uri` holds those between
  them; in the state `error`, `Hopeless` says that no continuation at all is a line (the run
  tries five). A refused byte is hopeless because a line has its two spaces where
  the bytes received have theirs.
- `FirstServedAsGetAlways`. `Fresh`: what the first request has not overwritten in
  `recv_buffer` is zero.
- `VersionRefusedAlways`. `Version` says that behind the second space `recv_buffer` holds the bytes of
  this version, whatever earlier requests left behind them. `Found` shows that the search for a byte
  finds its first place (a set of numbers has a least one), `ParseRefuses` that `parse_version`
  therefore looks at the same bytes as the reference. The theorem is stated for versions of less than
  12 bytes: a longer one may hold a number that does not fit in an `int`, which
  `strtol` and the assignment to an `int` may turn into -1, and which `Strtol` leaves out.

Every safety property of the runs that pass, the refinement `ImplementsFifo` included, is thus proved.
Model-checked only is what is about liveness: the queue, the pools, `/bash`, SIGINT, the ports.

## Observations

- `write_code` of all four threaded servers waits for `sem` and never posts it.
  Where unnamed semaphores work, the first answered request is the last one
  (`pool_stuck`). Where `sem_init` fails, as on macOS, nothing is guarded and
  counts get lost, but none is made up (`NeverOvercounts`).
- `parse_method` compares three bytes whatever was read (`request_stale`). An empty
  Request-URI is accepted, and a version with the number -1 is refused as if it
  had none. A URI of `URI_LIMIT - 1` bytes is read but can never be ended: the
  longest that is served has `URI_LIMIT - 2`.
- In `multi_server.c` and the pre-forked pool the semaphore is exact even when
  processes die anywhere (`SemaphoreExact`), so the counters are exact unless a
  server is started while children of an earlier run are alive (`CountExact`,
  `overlap`). What is not given back stays taken: one death inside `write_code`
  stops every later request (`ClientsServed` excuses it).
- `multi_server.c` and the pool open the semaphore as `SHARE_MEMORY_FILE_PATH`
  (`"./share_mem.lock"`) and unlink it as `SEM_FILE`. Outside Linux the two are the
  same, and the models say so. On Linux `SEM_FILE` is another name, and
  `sem_open` refuses the one it is given: no process gets past it. (`multi_server.c` sets
  `__sigaction_u` and compiles on macOS only.)
- `shmat` reports failure as `(void *)-1`, which no caller looks for.
- A failing `accept` of the server on several ports puts -1 into the queue; a
  worker reads from descriptor -1, answers it with 400 and counts that.
- A listening socket is blocking behind `select`: a client that gives up in between
  stops all ports until the next one arrives on that port.
- Only `multi_server_thread.c` closes connections, and no server closes the files it sends: `req_parser`
  (`parse_uri` in `server.c`) returns with `fd` open. Each file served costs a descriptor for good, so that
  `multi_server_thread.c`, too, ends in an `accept` that fails (`ThreadOpenIsInUse` says what stays open).
  `multi_server_pre_create_thread.c` and `server.c` open no more connections and files together in their
  life than they have descriptors (`LifetimeBounded`); a failed `pthread_create` loses a connection
  unanswered.
- The server on several ports closes nothing either and does not end when `accept` fails: once the
  descriptors are gone, every round of `select` finds the same clients waiting, accepts none of
  them and queues another -1. `EveryPortServed` therefore ends where the descriptors do.
- No program handles SIGPIPE. The tests for `EPIPE` behind `send` in `handle_bash`
  are reached only where the server was started with SIGPIPE ignored (`sigpipeIgnored`);
  else the signal ends the process first.
- `need_stop_script` and `alarm_count` are set by alarms and never reset, and an alarm
  is never cancelled. In a process of the pool an alarm left by one script may count as
  that of the next, and after one script timed out every later one is stopped at its first
  output. `FirstStopIsDue` is therefore a statement about the first script.
- `signal` restarts what it interrupts. An alarm does not end a `read`: a script that
  stays silent is never stopped, whatever its age. Nor does it end `waitpid`: SIGKILL is
  sent only after `waitpid` has returned once, so a leader that ignores SIGTERM is waited
  for without end, and SIGKILL reaches at most what the leader left behind. SIGTERM sent
  before the script's `setpgid` reaches nobody. `WorkerReturns` excuses exactly these.
- A pool process never closes a script's pipe and never waits for a script that ends by
  itself. It ends in an `accept` that fails, after at most one script per two descriptors
  (`ScriptsBounded`). In return the process group it signals is still its own
  (`TermNamesOwnGroup`); in `multi_server.c`, where children are reaped automatically, the
  number may belong to somebody else by then.
- `queue_destroy` frees nothing and takes no lock, although its comment says "deallocate and
  destroy everything in the queue" (`multi_server_thread_blocking_queue.c:62`) and the mutex
  is "used to protect the queue" (line 53). It destroys a mutex that may be in use. With an
  empty queue and the main thread in `accept` this does no harm (`QuietEndsCleanly`); else a
  worker may follow a null pointer or use a freed message, in the window before the
  process is gone (`FaultsExplained`).
- `pthread_cond_destroy` waits for the threads that wait, in glibc since 2.25. SIGINT while
  the pool is idle then leaves the process hanging in `exit_handler`: if it reached the
  accepting thread for good, else until clients arrive for all the idle workers
  (`SigintEnds`).

## Not modelled

- The unused functions of `server.h` (`sendConnection`, `recvConnection`), `un_listen`, which has no
  body, and the length check of a socket name in front of it, which has no effect;
  `ls_version_one` and `pipe_read`, which nobody calls; `sem_destroy` at the end of a process.
- The descriptors of the thread pool server, where none is closed, and those a process of
  `multi_server.c` or of the pools opens for connections and files; `BashScript` counts those of scripts.
- Contents and layout of answers and the file system: a request is a choice of
  outcome. Logging. What a request does that is longer than `recv_buffer`.
- Time: alarms have no duration, `usleep` and the length of backlogs are left out.
- The programs of `Reference/multi_threading`: each shows one facility of the C++ library
  and keeps no state between operations. The exercises are sequential programs about
  the language; the kernel module prints two messages.

## Plan

Done in this order: the queue and its pool, `multi_server.c`, the remaining
servers, the request line; then the script runner, the shutdown of the threaded
servers, silent clients, and the proofs about counters, the pre-forked pool and the request line; then those about
the shutdown, the threaded servers and the ports. What is left:

1. A composition of `BashScript` with the process that serves requests in `PreforkServer`, step by step.
   Now `Hanging` says which scripts keep a worker, and `BashScript` says, for one process, how they do.

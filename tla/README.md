# Safe_transmission in TLA+

Safe_transmission is a C++ program in which a client and a server agree on a
secret key and keep it in shared memory. The repository holds two generations:

- **generation 1** (`serverop/`, `clientop/`, `shmclass/`, `ASN_1/`): an epoll
  reactor that gives every event to a thread pool; a client with a heartbeat
  thread; DER messages whose strings are bit strings;
- **generation 2** (`ServerSeckey/`, `ClientSeckey/`): a server that starts one
  detached thread per connection; a client with a menu; DER messages whose
  strings are printable strings; keys kept in a shared-memory table.

All paths below are under `src/Safe_transmission/`. A cryptographic value is a
name here: a key is the random numbers it is made of, a pair is a client and a
server. The subject is what threads, processes and messages do to them.

## 1. The system

| component | state | operations | how it interacts |
|---|---|---|---|
| thread pool, `serverop/threadpool.c` | the ring of tasks with its lock and two conditions; `live_thr_num`, `busy_thr_num`, `wait_exit_thr_num`; `shutdown`; the thread handles | `threadpool_create`, `threadpool_add`, the worker loop, the manager `adjust_thread`, `threadpool_destroy` / `threadpool_free` | the reactor calls `threadpool_add`; workers call the task function |
| epoll server, `serverop/epoll2.cpp`, `serverop.cpp` | one `Epoll` object with one `fd`, edge-triggered descriptors, the bytes on each | `initepoll` (wait, accept, dispatch), `working`, `recvdata`, `senddata` | a task is a pointer to the one object, which the reactor goes on writing |
| client of generation 1, `clientop/clientop.cpp`, `cli.c`, and `secMngArrange` of `serverop.cpp` | its `Key`, one socket shared by two threads, `mtx_t`, `flag` | `keyMngArrange`, the heartbeat thread, `recvdata`; the server's agreement | TCP with the epoll server |
| key server and client, `ServerOperation.cpp`, `ClientOperation.cpp`, `TcpServer.cpp` | `m_listSocket` from thread ids to sockets, `m_stop`, descriptors, what is on its way | `startWork`, `working`, `secKeyAgree` on both sides, SIGUSR1 | TCP; the map is shared by all threads without a lock |
| framing, `TcpSocket.cpp` | none between calls | `connectToHost`, `sendMsg`, `recvMsg`, `disConnect`, timeouts | under the two above |
| key store of generation 2, `SecKeyShm.cpp`, `ShareMemory.cpp` | an array of records in a System V segment | open (and clear), `shmWrite`, `shmRead`, `delShm` | processes share the segment without a lock; one that starts clears it, and a client that ends in good order removes it |
| key store of generation 1, `shmclass/` | the same, and the life of the segment | `shmPutdata`, `shmGetdata`, `deshm` | the same; removes the segment's name after each call |
| message codec, `BaseASN1.cpp`, `SequenceASN1.cpp`, the codecs | a chain of nodes while a message is built or read | encode, pack, unpack, decode | a message of one process is decoded by another |
| log, codec factories, the prototypes in `epoll/` and `socket/` | none that another call reads | | |

What is hard in it, and what would make each part correct:

- *Pool.* Waiting and signalling under a lock, with a manager that retires
  workers through the same condition on which work is announced; decisions on
  samples taken earlier; a destroy that does not take the lock. Correct: the
  counters are what they count, each task goes to one worker, none is
  forgotten, and of the sleeping workers at most one misses the destroy.
- *Epoll server.* One field is the hand-over between the reactor and all
  workers; events are reported once; descriptors are reused. Correct: all that
  arrives is read, an answer goes back to its sender, exactly one per request.
- *Client of generation 1.* Two threads read one socket, and a thread outlives
  the call that started it. Correct: a call no heartbeat disturbs gets the
  server's key and returns; the lock is given back.
- *Key server.* A thread is started before its socket is where it looks for it;
  thread ids and descriptors are reused; errors are not looked at. Correct: both
  ends hold the same key; a worker works on its own socket; everyone is answered.
- *Key stores.* Readers and writers of several processes, slot by slot, any of
  which may be killed between two steps and start again, and some of which
  remove the segment under the others. Correct: a map with room for a fixed
  number of pairs, forgotten only while it is opened or when it is removed.
- *Codec.* Widths, signs and lengths. Correct: decoding inverts encoding, and
  what is sent is DER.
- *Framing.* Partial reads and writes, timeouts, a peer that dies in the middle.
  Correct: no slow piece is reported as an error, and a receiver that has begun
  returns.

`PROJECT.json` lists the hazards by line with the properties that are about each.

## 2. The modules

| module | models | lines of state and actions |
|---|---|---|
| `TaskQueue` | the promise of `threadpool.h`: a bounded FIFO queue whose tasks are each taken once | `Accept`, `Take`, `Finish` |
| `ThreadPool` | `threadpool.c` | the fields of `threadpool_t` under their names; `pc`, `mgr`, `dst`, `call` are where each thread stands |
| `EpollServer` | `epoll2.cpp` with `working` | `ep_fd` is `Epoll::fd`; `peer`, `stream`, `far`, `ready`, `watched` are the kernel's |
| `KeyArrangement` | client and key arrangement of generation 1, composed with `EpollServer` | `key` is `clientop::Key`, `mtx_t` and `flag` are those of `cli.c`; `cpc` and `hpc` are where a call and its heartbeat thread are |
| `Agreement` | the promise of the two `secKeyAgree`: a client takes no key but one made for its session | `Make`, `Take` |
| `SecKeyAgreement` | server and client of generation 2 | `m_listSocket`, `m_stop`; `mpc` and `pc` are the main thread and the workers |
| `KeyTable` | the promise of a key store: a map with room for so many pairs | `Store`; `Forget`, only while a process opens the store; `Create`, `Remove` |
| `SecKeyShm` | the key store of generation 2 with the life of its segment | `named` is what the IPC key leads to, `node` the records of each segment, `seg` each process's `m_shmID`, `node_i` its loop index |
| `ShmKey` | the key store of generation 1 with the life of its segment | `named`, `segs`, `attached` are the kernel's view, `mem` the records, `shmid` and `i` each process's |
| `DerCodec` | `BaseASN1.cpp` as operators on sequences of bytes | no state |
| `MsgCodec` | one message through a codec, made with or without its struct | `nodes` is the chain behind `m_header`, `m_next` its iterator |
| `MsgExchange` | the message of `MsgCodec` through `TcpSocket.cpp` | `written` and `taken` count bytes, `reach` is what the network still delivers |
| `MC*` | values of constants for TLC; `MCMsgExchange` also checks the types of `BaseASN1` that no codec uses | |
| `ThreadPoolProofs`, `EpollServerProofs`, `KeyArrangementProofs`, `SecKeyShmProofs`, `ShmKeyProofs`, `SecKeyAgreementProofs`, `DerCodecProofs`, `MsgExchangeProofs` | theorems and their proofs | |

**Granularity.** In `ThreadPool` a worker that decided to wait holds the lock for
one step more (`idle`): destroy writes `shutdown` and broadcasts without the lock
and can act in between. A `threadpool_add` that meets a shutdown unlocks, goes on
(`late`) and unlocks again (`AddUnlock`), whoever holds the lock then. After that
a locked section protects nothing. So the two sections that read counters and
write them again, a worker's dismissal and the manager's creation of threads, are
a step for each access, the reading and the writing of `live_thr_num` among them
(`reg`). The other sections read only, or run before the shutdown only, or write
a single field, and are one step. A late add writes its task in one step, as
nobody takes tasks any more; what is said of the ring ends with the shutdown.

In `SecKeyShm` and `ShmKey` a step is the comparison of one slot, the copy of the
slot that a read has found (whatever it holds by then), half of a `memcpy` into
a record, the clearing of one slot by a constructor or before a copy, or one
system call; a process may be killed at any of them. A call of `shmWrite` or
`shmRead` attaches when it begins and detaches when it ends. In `EpollServer`
and `SecKeyAgreement` a step is one system call or one access to a shared field.
So a worker's `recv` or `send`, its `EPOLL_CTL_DEL` and its `close` are three
steps of `EpollServer`, and two workers that see the end of one stream close its
number twice: if `accept` has returned it in between, the second close takes the
connection of another client. What the reactor does about a new connection
(`accept`, `fcntl`, `epoll_ctl`) is one step.

In `KeyArrangement` the bytes from the server are units of two bytes, so that
`recv` of two threads can take each other's. In `MsgExchange` a step is one
`read`, `write`, `select` or `connect`, of as many bytes as the system gives.

**Composition.**

- `EpollServer` uses the pool through its promise, a bounded queue;
  `ThreadPool` is proved to implement that promise for an orderly use. Two
  effects of the real pool on the server are therefore not in `EpollServer`: a
  forgotten task (run `pool_forgotten`), and the free of the shared argument.
  `threadpool_add` frees the argument of the slot it reuses, and the server
  gives the same `Epoll` object to every task, so that from the event after the
  first `queue_max_size` on the object has been freed. `QueuedArgIntact` says
  both: until every slot was used once nothing is freed, however arguments are
  shared, and later only an argument that one task has for itself is safe.
- `KeyArrangement` extends `EpollServer`: its handler `working` runs
  `secMngArrange`, and its clients are calls of `keyMngArrange`, each with the
  connection and the heartbeat thread it leaves behind.
- `MsgExchange` carries what `MsgCodec` has packed, which reads and writes with
  the operators of `DerCodec`. `SecKeyAgreement`, `EpollServer` and
  `KeyArrangement` treat a message as one value: the run `codec` says when that
  is right, and its `RecvReturns` is why a message of `SecKeyAgreement` arrives
  whole or not at all.

**Undefined behaviour and the platform** are constants or choices:

- What `malloc` leaves in fields that `threadpool_create` does not set
  (`SlotInit`, `WaitExitInit`); whether `pthread_kill` reports a thread that
  has exited (`KillSeesExit`); spurious wakeups (`Spurious`).
- Two threads inside `std::map` at once: each does what it would do alone, or
  the process ends (`MapRace`).
- Uninitialised output parameters that are sent: nothing, bytes that are no
  answer, or the end of the process (`Refuse`, `SendUninitialised`).
- A decoder that is given NULL or junk ends its process.
- `ITCAST_UINT32` is `unsigned long`, eight bytes, as in the binaries of the
  repository. An int read through a pointer to it overwrites the four bytes
  that follow (`Overwrites`).

## 3. The runs

Run a model with `tlc -config <run>.cfg <module>`. Twelve runs, nine of which
pass and three of which end in a counterexample that is the point of the run.

| run | what it shows | instance |
|---|---|---|
| `pool_resize` | until the shutdown the live threads are counted and the ring is a queue; a task is taken once, at most one worker misses the destroy, while the pool grows, shrinks and is destroyed under overlapping calls | 1 to 3 threads, 2 slots, 2 callers, 3 tasks |
| `pool_fixed` | the pool implements `TaskQueue`; no task waits while all threads sleep; tasks are taken, blocked adds return; destroy joins everyone; a queued argument is not freed | 2 threads, 2 slots, 1 caller, 3 tasks of which two share an argument, spurious wakeups |
| `pool_forgotten` | **violated**: in a pool that changes size a task may never be taken | 1 to 2 threads, 2 slots, 3 tasks |
| `epoll_one` | a call of `keyMngArrange` that no heartbeat disturbs gets the key the server made, and returns; no key but the server's is ever taken; why the server can end; the heartbeat gives its lock back | 1 process, 2 calls with 1 heartbeat each, answers of 6 units, 2 workers, 2 slots |
| `epoll_many` | no request is answered twice; a reactor that waits for room has a worker that can go on | 2 clients, a heartbeat, split packets, one client that leaves, 2 workers, 1 slot |
| `epoll_wrong_client` | **violated**: an answer goes to another client | 2 clients, one request each |
| `shm_one_writer` | a pair has one slot; a stored key is found, and stays in its segment until that is opened; a write fails only on a full segment or one that is gone; the segment that has the name implements `KeyTable` | 1 writer, 1 reader, both killed at any step, or leaving in good order, and started again; 3 pairs for 2 slots, 3 writes, 2 segment ids |
| `agree_faults` | under every fault at once, a port that is taken among them, a client that gets a key has the one made for its session | 3 clients (one unknown, one that may be killed), 2 threads, 1 descriptor, 2 random numbers |
| `agree_served` | every worker has its own open socket; the map keeps no dead entry; the server survives; requests are answered; SIGUSR1 ends the server; no client waits for ever | 2 clients, one of which comes back, 2 thread ids, 3 descriptors |
| `agree_null` | **violated**: a worker that comes before the main thread's insert ends the server | 2 clients |
| `codec` | decoding inverts encoding, what is sent is DER, only a negative int cannot be sent; the framing reports no error without a failure outside, and `recvMsg` returns | about 2700 messages of both generations; pieces of 1 to 120 bytes and room for 60 on the way |
| `shmkey` | a get finds what a map with room for the records would hold, if puts do not overlap; a name that leads to a segment leads to no key, but for one that is being stored or whose process has ended there | 2 processes that end at any step, 3 pairs for 2 records, 2 numbers, 2 segments, 3 puts |

### Bounds, and why they are enough

- `pool_resize` has three threads, so that the manager can add two at once
  (`ThreadVary` = 2) and a slot in the middle can be the free one; with two
  slots and three tasks the ring wraps, is full and is empty; two callers can
  both be blocked, or one be late after a shutdown. Tasks and callers are
  interchangeable: symmetry is sound, as all its properties are invariants.
- `pool_fixed` has two slots for three tasks, so that the caller is blocked and
  a slot is reused while the other one waits. It has liveness properties and no
  symmetry. Its refinement needs an orderly use
  (`Orderly`: no add overlaps or follows the destroy), which is what a header
  can promise about.
- `epoll_many` has two of everything that can be confused: clients,
  descriptors, workers; and one slot, so that the reactor blocks. That a worker
  closes a number which `accept` has given to the other client is among its
  3.5 million states.
- `epoll_one` has two calls of one process, so that the second one meets the
  thread, the connection and the key that the first one left. One heartbeat each
  is enough for two threads to read one socket and for one to hold the lock;
  `FlagMax`, three heartbeats without an answer, is not reached. `BodySize` is
  6 units, one more than the heartbeat's buffer holds.
- `shm_one_writer` has more pairs than slots, so that the segment is full, and
  enough writes to fill it and overwrite a key or be refused. Two segment ids:
  one process can go on in a removed segment while the other one is in the next;
  an id is used again when nobody has it. The number of restarts, removals and
  reads has no bound.
- `agree_faults` has one descriptor for three clients, so that the second
  `accept` fails with EMFILE. `Emfile` is 4, the number of the one descriptor,
  and so the error number is an open descriptor: the ordinary case, for a
  process that has run out of descriptors has 24, the real number, open as well.
- `codec`: names of 1 to 11 characters (the struct holds 12 bytes), which moves
  the content of a message across 128 bytes where the length takes its long form;
  ints on both sides of each power of 256 and of each sign boundary. A piece
  may end inside the four bytes of the length, after them, inside the body and
  near its end (`CutAt`); `Room` is less than a message, so that a writer waits
  for its reader. Faults strike a few messages of each kind (`Cut`): where the
  pieces end does not depend on what they hold.
- `shmkey`: two segments, so that one can be gone and the next be in use. Three
  pairs for two records and three puts: a segment fills, is full, and a record is
  overwritten. A full store answers 0 and stores nothing: `Stored` says so.
  Processes, pairs and numbers are interchangeable, and both properties are
  safety properties, so that symmetry is sound.

### Fairness

- `pool_fixed`, `pool_forgotten`: strong fairness for workers, resumed adds and
  the destroyer: they wait for a mutex that others take and release again and
  again, and pthreads mutexes let a thread in eventually. The manager likewise.
  A caller need not call, and a spurious wakeup need not happen.
- `epoll_one`: weak fairness of all steps of the programs together
  (`ArrangementFair`): while the server or a call can go on, one of them does.
  Nothing runs in circles, so that it need not be said of each thread. A
  heartbeat thread may sleep for ever, and no process need end.
- `codec`: weak fairness of the steps of both programs (`WF_evars(Progress)`).
  A fault need not happen. A sender closes its side sooner or later: the server
  calls `disConnect` after `sendMsg`, and a client ends after its `TIMEOUT`.
- `agree_served`: weak fairness for the main thread, each worker, and a client
  that has begun a call. Nobody need start one, nor send a signal. `accept`
  returns after its 5 s timeout with or without a client: that is why SIGUSR1
  is noticed.

### What the passing runs assume

- `agree_served` assumes that the main thread fills the map before the worker
  looks (`InsertFirst`, the intention of the `usleep(1)`), that no two threads
  are in the map at once (`Exclusive`), that a peer does not stay silent for
  the 1000 s of `TIMEOUT` (`Slow` is FALSE), and that nobody is killed or
  unknown. Without the first, `agree_null` shows what happens; with
  `Exclusive = FALSE` the race on the map ends the server, and with an
  `Emfile` among the descriptors `OwnSocket` fails.
- `shm_one_writer` has one writing process: two writers can put a pair into two
  slots or overwrite each other's new slot. A process may be killed at any step,
  also between the two halves of a record, and a process that starts clears the
  store slot by slot. `StoredStays` speaks of keys stored since; `FailsOnlyIfFull`
  and `ReadFindsStored` of calls during which nobody was opening the segment
  (`calm`), because a read that compares a slot before it is cleared and copies
  it after another pair has taken it returns the key of that pair. A client that
  ends in good order runs `~ClientOperation`, whose `delShm` removes the segment:
  it loses its name and is freed when nobody is attached. As `shmWrite` and
  `shmRead` attach for one call only, the calls of the others then fail, until
  they are started again; whoever is inside a call finishes it in a segment
  that no name leads to. So the properties speak of the segment a process has
  opened, and `KeyTable` of the one that has the name.
- `shmkey`: `GetFindsKept` speaks of segments on which the calls of `shmPutdata`
  came one after another, and none was broken off in the middle of its record
  (`alone`): two that overlap can take the same record of zeros, and the key of
  one of them is lost. It speaks of a `shmGetdata` during which no key of its
  pair is stored (`calm`), because between `memset` and the end of `memcpy` the
  pair has none.
- `pool_fixed` is about pools with `min_thr_num = max_thr_num`. After a shrink
  destroy may join the wrong handles, and a destroy may wait for a worker that
  missed its broadcast; it is one worker at most (`OneMissesShutdown`, in
  `pool_resize`). The count of live threads is claimed up to the shutdown: then
  a late `threadpool_add` gives away the lock of a worker between its test of
  `live_thr_num` and its decrement, and a second one can pass the test.
- `epoll_one`, `epoll_many`: no worker that still has the number of a closed
  descriptor calls `recv` between the `accept` that returns it and the `fcntl`
  that makes it non-blocking; such a `recv` waits for that client, against
  `ReactorReleased`.
- `epoll_one` has one process, so that a number has no other client to go to.
  With two, a worker's second close can take a connection that is in use: then
  the calls on it end and a heartbeat thread returns with the lock although the
  server lives. `LockIsReleased` says so (`Lost`), and is proved for any number
  of processes; without that case it fails for two.
- `epoll_one` has clients that send a packet whole and stay (`Split`, `Leaves`).
  With packets in two parts the non-blocking read of the body decodes zeros.
  `Quiet` in its properties means that no heartbeat thread has woken up, five
  seconds after its call began; with one in between, the answer and the echoed
  heartbeat are mixed up, and a decoder gets junk.
- In `agree_served` the port is free. `setListen` returns an error that
  `startWork` ignores: the server whose port is taken gets EINVAL from every
  `accept`, takes the number for a descriptor, starts a thread on it and ends
  when that thread decodes NULL (`BindFails`, in `agree_faults`).

### Disagreements between the code and its comments

Three are shown by runs, and quoted with their lines under `findings` in
`PROJECT.json`: the comment at `threadpool.c:153` that a signal wakes a thread
that waits for a task (`pool_forgotten`); the comment at `serverop.cpp:48` that
the answer is sent back (`epoll_wrong_client`); the comment at
`ServerOperation.cpp:55` that socket and thread id are put into the container,
after the thread that needs them was started (`agree_null`).

One that the codec makes visible without a run of its own: `LengthOfSize` tests
`< 0xFFFF`, so that a content of exactly 65535 bytes is given a length of one byte
more than DER asks for. No message of this program is that long.

## 4. What is proved

For every value of the constants that the modules' assumptions allow: any number
of threads, slots, clients, pairs and so on. Eight modules hold the proofs: one
for each part of the system, and one for the operators of `DerCodec`, on which
`MsgExchangeProofs` rests.

| theorem | statement | assumes |
|---|---|---|
| `PoolTypeCorrect` | `Spec => []TypeOK` of `ThreadPool` | |
| `LiveCountCorrect` | until the shutdown `live_thr_num` is within the sizes and, when the lock is free, the number of threads alive | |
| `BusyCountCorrect` | `busy_thr_num` is the number of workers inside a task | |
| `OneWorkerMissesShutdown` | after the broadcasts of destroy at most one worker sleeps or is about to | |
| `NoTaskIsForgotten` | no task waits while all threads sleep | `min_thr_num = max_thr_num` |
| `NobodyOutlivesPool` | the pool is freed after every thread has left | the same |
| `RingIsConsistent` | until the shutdown the ring is one queue of distinct waiting tasks | |
| `EachTaskTakenOnce` | no task is executed twice | |
| `NoQueuedArgFreed` | an argument that one task has for itself is not freed while it waits, nor twice; nothing is freed before every slot was used | |
| `PoolRefines` | `ThreadPool` implements `TaskQueue` | no add overlaps or follows the destroy |
| `EpollTypeCorrect` | `Spec => []TypeOK` of `EpollServer`: a client has one descriptor | |
| `RequestAnsweredAtMostOnce` | the requests of a client have at most one answer each, whoever gets them | |
| `BeatReleasesLock` | a heartbeat thread ends with `mtx_t` only after the server has closed a connection of its process, as it ended or with a stale descriptor | |
| `KeysAreServers` | a key a client takes is junk or one the server made, whatever was mixed up | |
| `QuietCallIsAnswered` | without heartbeats the first call returns with the key made for it | one process |
| `OnlyHeartbeatsSpoilKeys` | without heartbeats no key is junk | the same |
| `ServerEndsForAReason` | without heartbeats only a second agreement ends the server | the same |
| `ShmTypeCorrect` | `Spec => []TypeOK` of `SecKeyShm`: no process indexes past the segment | |
| `FullOnFailure` | a write fails only on a full segment or one that is gone, for any number of writers, if nobody opens the segment during the call | |
| `PairIsUnique` | a pair is in one slot of a segment only, whoever is restarted | at most one writer |
| `StoredKeyStays` | a stored key stays in its segment until one of its pair replaces it or a process opens that segment | the same |
| `StoredIsFound` | a read finds what was stored in its segment when it began, or a later key of the pair, if nobody opens the segment during the call and it is not gone before | the same |
| `StoreRefines` | the segment that has the name implements `KeyTable`, restarts and removals included | the same |
| `TypeCorrect` | `Spec => []TypeOK` of `ShmKey`: nobody writes past its segment, or into one that is gone | |
| `NamedSegmentIsEmpty` | a segment with a name holds a key only between the `memcpy` and the `deshm` of a call, or after a process has ended there | |
| `GetFindsWhatWasPut` | `shmGetdata` finds a key if and only if a map with room for `maxnode` pairs would hold it | puts do not overlap on the segment, none is broken off in its record, none stores a key of this pair meanwhile |
| `AgreementTypeCorrect` | `Spec => []TypeOK` of `SecKeyAgreement` | |
| `AgreementRefines` | `SecKeyAgreement` implements `Agreement`, under all faults | |
| `NoEntryOutlivesItsThread` | the map has no entry of a thread that is gone | the insert comes first |
| `ThreadsOwnSockets` | every worker has its own open socket | the same, the port was free, more descriptors than threads |
| `ServerOutlivesAgreements` | the server survives | the same, no two threads in the map at once, every peer known, quick and alive |
| `IntegerNode`, `NegativeIsRefused` | an int that is not negative is written as DER and read back; a negative one is not written | |
| `BitStringNode`, `CharStringNode` | a string is read back from what generation 1, or 2, writes | up to 65533, or 65534, bytes |
| `SequenceIsRead` | a chain of such nodes is packed into DER and unpacked into the same nodes | less than 65535 bytes |
| `MessageIsReadBack` | who has read the last field of a message has the struct that was sent | |
| `WhatIsSentIsDer` | every node and every message is DER | |
| `NegativeIntsCrash` | a codec meets a missing node only if an int is negative | |
| `ErrorsComeFromOutside` | the calls of the framing fail only after a failure outside | |

*The counters of the pool.* `TypeOK` is inductive by itself. `Locks` says that
until the shutdown a thread inside a section of several steps has the lock.
`Counts` follows `live_thr_num` through such a section: a worker that passed the
test finds more than `min_thr_num`, the value it is about to lower is the current
one, a thread the manager has created is one more than is counted, until it is.
It is inductive with `Locks` until the shutdown, and where the lock is free it is
`LiveCountExact`; `GoesOnCreating` is where the test inside the manager's loop
matters, for the samples it decided on are old. `BusyCountExact` (a theorem
without a run) has a mutex of its own and holds after the shutdown too.

*The unlocked destroy.* `Sleepers`: the workers that wait or have not got past
the test of `shutdown` since are at most `live_thr_num`, also after the shutdown,
when the count is not exact any more and stale values are written back. So if
anybody sleeps there is a first broadcast. `LastIdle`: a worker keeps the lock
from its test of `shutdown` to its wait, so that at most one is between the two
when `shutdown` is written, and nobody gets there afterwards (`NobodySleeps`).
The first broadcast wakes all that wait, so that afterwards only that one worker
can be asleep.

*A pool of fixed size.* `FixedCount`: `live_thr_num` is `max_thr_num`, the manager
creates nobody and nobody is dismissed, after the shutdown too. `FInv` adds to
`NoForgottenTask` that the worker which has decided to wait holds the lock, so
that no task is announced before it waits; every signal reaches a thread that
takes the task. `Joined` says that the join loop of destroy has met every thread
up to its index; that needs every handle to be one of a live or an exited
thread, which a shrinking pool does not have.

*The ring.* `Owned` says that each task is in one hand only: not yet given, with
a caller, in the ring, with a worker, or done. `Ring` and `Apart` say that the
slots from front to rear are distinct tasks that no hand has. They hold while
the pool is not shut down, or use is orderly; after a shutdown an add writes
without the lock. Arithmetic modulo `queue_max_size` is done once, in
`ModQueue`. For the refinement the sequence read from the front gets longer at
its end by `Enqueue` and shorter at its front by `WorkerBody`. For the
arguments `Blocks` says that of the arguments which one task has for itself
nothing has been freed that belongs to a task still to be given, with a caller
or in a slot, and that all of these differ. A slot keeps its task after it was
taken; what an add frees is in the slot it reuses, and that slot is none of
those that wait. `Unused` says that slots are first used in their order, so that
no add finds a task in the slot it fills while another one is unused.

*The store of generation 2.* `TInv` adds to `TypeOK` that a process which is
writing has a pair and a positive key; `HInv` that while somebody clears a segment
no call in it is calm and nothing counts as stored. Everything is said of each
segment by itself. A segment that is gone stays so for whoever has its id
(`GoneStays`), and what a call has returned stays true until the next call
(`ReturnedStays`). `FailsOnlyIfFull` is not inductive: what is needed is
`Scanned`, that every slot a calm writer has passed in its second loop is taken,
which stays true because only an opening empties a slot (`TakenStays`).
`UniquePair` needs `Missed`: the slots the one writer has passed in its search
do not hold its pair, which clearing cannot change. `KInv` adds what is in the
slot that a writer fills, whose first half an opening may have taken away
(`Placed`), that a key in the segment belongs to the pair beside it and is not
newer than the write under way (`Numbered`), and that a calm reader of a stored
pair has not passed its slot, nor copies another pair's (`Ahead`). The refinement rests on a record
being written in two halves of which only the second one changes the table, on
each cleared slot forgetting the pair it held (`StepKeys`), and on steps in
segments that have lost their name changing nothing.

*The store of generation 1.* `Types` adds to `TypeOK` that a process in a call is
attached to its segment, which therefore exists. `SInv` says of a segment on
which puts did not overlap: one process at most is in a put (`Lone`); each pair is
in one record (`OnePlace`); a record that is not zero is a key of the map, and each
key of the map is in a record, but for the record that is being written
(`HeldIsKept`, `KeptIsHeld`); the writer has passed no record of its pair, and the
one it writes is zero or half (`Putter`); a reader has passed no record that it
looks for, and what it has found is still there (`Getter`). When the second loop
ends, `mem[s]` is an injection from the slots onto the map's keys, so that the map
is full as well (`FullIsFull`); when a record has been written, the others hold
one key less than there are slots (`RoomIsFound`).

*The key agreement.* `SInv` says what is on its way: a request is sent once per
session, a worker serves the session of the descriptor it read from and no
second worker serves the same one (`ServesPeer`, `ServesAlone`), what a worker
holds or has sent is an answer made for that session (`KeyOfThread`,
`KeyOnItsWay`), and a client that waits has not taken this round's key
(`TakesNext`). It holds under every fault, with ids, descriptors and even
error numbers reused. `AgreeIsMake` and `RecvIsTake` are the two steps that are
not stutters.

*The key server.* `OInv`: a descriptor that is open is held by one thread, in
the map or on its way into it, and a thread that runs has one. That leaves a
descriptor for the next `accept` (`DescriptorLeft`). `VInv` adds that a session
is accepted, served and closed once (`Unique`), that a request arrives whole
before its session is over (`Arrives`), that a client closes only after it was
answered (`Answered`), with an answer that is no junk (`Whole`), and that nobody
is in the map with another (`AloneInMap`). So no step that ends the process is
possible; without any one of the conditions one of them is, as the runs show.

*The codec.* `Nodes` and `FlattenSeq` are recursive functions, and the theorems
are about every input. That such a function exists is proved from its values at
the later places (`NodesExist`, `FlattenExists`), and what it computes by
`Induction`: a set of numbers that has 0 and with each number the next one is
all of `Nat`, or there would be a least number outside, which `WFMin` gives.
`Continued` and `PieceIsRead` say that tag and length are read in the same way
whatever follows, so that a node is found again at its place in a sequence
(`OneNodeMore`, `NodesOfPieces`).

*The exchange.* `CInv` says how far the chain is for each `pc`: the nodes
written so far are those of the fields in their order (`Writes`), the wire is
what they are packed into, the receiver's chain is what that is unpacked into,
and the fields before the next one have been read (`Reads`); an int read through
the wide pointer overwrites only the field behind it, which is read later. `Fit`
is what the theorems about nodes say of each field. `SInv` says that a call
which returns "ok" has taken the four bytes of the length and then as many as
the message has, so that what it returns is the wire (`StreamIs`). `FInv` says
what holds as long as nothing has failed: the sender has a connection and a
blocking socket, and a closed stream has been written to its end, so that a
receiver inside a message always has more to read.

*Generation 1.* `EInv` adds to `TypeOK` that a task exists only when the one
object has a descriptor. For `AnsweredAtMostOnce`, `OnePlace` counts the places
a client's requests are in: a body still to come, a token of some stream, a
worker that holds it, an answer in some client's inbox. Together they are at most
the requests it has sent. Whichever descriptor a worker reads, and however many
read it, a token leaves the stream when it is read.

*The key arrangement.* `LInv` adds to `LockIsReleased` that a lock is held by a
thread of its own process, and that what the threads reach is a connection which
one of the process's calls has made (`ReachInv`): a thread that finds it closed
shows a connection of its process that the server has closed, and nothing makes
that one again while the process lives (`StaysLost`). `KInv` says whose answers there are: what is in an
inbox, what a call has read of it and what a worker is about to send was made,
so that a key is made before any byte of it is read. That needs what
`FlattenSeq` and `SubSeq` do to a stream of units (`FlattenType`, `SubSeqType`).
The three other properties say nothing of heartbeats, so that `BInv` is needed
for `Quiet`: once a heartbeat is sent, it stays false. `QInv` says where
everything is until then. The request of a call is in one place of the server
(`RequestAt`): in the stream, with the reactor (ready, in its batch, being
added), in the queue, or with one worker at one of its labels; the rest of the
server is idle (`At`). A process is before its first call, in it, after it, in
a second one, or over (`Before`, `FirstCall`, `FirstDone`, `SecondCall`,
`Over`, `Left`). `SecondCall` has no answer: its request is decoded with a
key the server does not know and the server ends. `Left` says why the end of a
process does no harm: what it leaves has been read, so that its connections end
with FIN, and a worker finds the end of the stream before a body, takes the
descriptor out of the interest list and closes it (`EndAt`). `Served` is the
step of the server on a request, `StepsLeaveClients` says what it leaves alone;
there is one lemma for each phase and each kind of
step. The three are stated for one process that makes any number of calls, any
number of descriptors, workers and slots, and answers of any size.
With two processes the argument fails where the code does: clients of
generation 1 can get each other's answers (run `epoll_wrong_client`).

Only model-checked, as fairness and ENABLED are out of the prover's reach: the
liveness properties (`TaskServed`, `AddReturns`, `QuietCallReturns`, `Served`,
`StopEnds`, `WaitEnds`, `RecvReturns`) and `ReactorReleased`, which uses ENABLED.

## 5. What is not modelled

- `ItcastLog`: it appends to a file, and the body of `OpenFile` and the write
  are inside `#if 0`.
- The prototypes `epoll/epoll2.c` and `epoll/cli.c`, an echo server the
  epoll server grew out of, which neither program links. It gives the pool the
  address of a struct on its stack, which the next event overwrites and the pool
  frees when it reuses the slot.
- Copies. Of the lines of the repository two fifths are unique text:
  `BaseASN1.cpp` and `ItcastLog` are there five times, `threadpool.c`
  four times (but for the `#if` of its test main), `SequenceASN1`, `SecKeyShm`,
  `ShareMemory`, `TcpServer`, `shmkey`, `shmClass`, `epoll2.c` and `cli.c` two or
  three times. Each is modelled once, from the copy in the program that runs it.
  `Asn1_Factory.cpp` is empty.
- In the key store of generation 2 the constructors without a size, which leave
  `m_maxNode` unset and which nobody calls.
- Calls that fail: `socket` (`select` on the descriptor -1 is undefined),
  `pthread_create`, `malloc`, `shmget`, and `shmat` on a segment that exists.
- The memory of the codec's nodes (`FreeQueue`, `DI_FreeAnybuf`,
  `CREATE_LOW_ANYBUF`); bytes that no encoder wrote; the private
  `DER_ItAsn1_GetLengthInfo`, which nobody calls.
- The digits of keys: `r1r2[64]` of generation 1 is written past its end into
  fields that nobody reads any more, and the `seckeyid` of its answers is read
  over the four bytes after the struct; neither changes a value that is modelled.
  Random strings are seeded with the time; a session stands for its number.
- `secKeyCheck`, `secKeyRevoke`, `secKeyView`: declared, not defined; their
  command types are never sent. `createDeamon`.
- The free of the shared argument inside the epoll server: what a freed object
  holds is open, and every property of the server would be void from then on.

## 6. Plan

Done: the models, in the order pool, epoll server, key store, key agreement,
codec, generation 1's store, `KeyArrangement`, `MsgExchange`, `setListen`; the
theorems of section 4, with all refinements.

What would come next:

1. What of `KeyArrangement` holds for two processes whose calls do not overlap,
   stated with a condition on the order of their calls.
2. A store whose segment cannot be had (`shmget` fails at a limit of the system),
   which stops where behaviour is undefined.
3. A composition of the epoll server with the pool that frees its argument, for
   the first `queue_max_size` events.

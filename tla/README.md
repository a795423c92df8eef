# Verification of skyc

TLA+ models of the concurrent parts of the programs collected and annotated in
`src/`, the TLC runs that check them on small instances, and TLAPS proofs of
the results that matter most for instances of every size.

`PROJECT.json` is the index: every component with its status, every run, the
source lines each definition translates, the hazards the code is exposed to and
which property watches which, the disagreements found, and the theorems.

## The system and its parts

`src/` is a source-review collection: several independent programs and
libraries, each with comments added by its author. They do not call each
other, so there is no single composed system; a module models one component,
and composition happens inside a program (an event pipe inside a work queue, a
lock table inside a database, three kinds of lock and a master inside a server
of worker processes).

| part | what it is | where | modelled by |
|---|---|---|---|
| c-utils circbuf | lock-free ring buffer | `utils/src/circbuf.c` | `CircBuf` implementing `BoundedFifo` |
| c-utils workqueue, event | worker threads woken by pipes | `utils/src/workqueue.c`, `event.c`, `fdutils.c` | `WorkQueue` |
| apue database library | hash file shared by processes | `apue.3e/db/db.c`, `lib/lockreg.c` | `HashDb` implementing `KVStore` |
| melon thread pool | threads created and retired on demand | `melon/src/mln_thread_pool.c` | `ThreadPool` |
| nginx shared-memory mutex | a mutex of processes that may die | `nginx/src/core/ngx_shmtx.c` | `ShmMutex` implementing `CrashLock` |
| nginx reader/writer lock | a lock word spun on by processes | `nginx/src/core/ngx_rwlock.c` | `RwLock` |
| nginx accept mutex | turns at the listening sockets | `nginx/src/event/ngx_event.c`, `ngx_event_accept.c` | `AcceptMutex` implementing `CrashLock` |
| nginx master and workers | death and replacement of workers | `nginx/src/os/unix/ngx_process.c`, `ngx_process_cycle.c` | `NgxProcs`, composed in `NgxWorkers` |
| apue print server | threads, a job list and spool files | `apue.3e/printer/printd.c` | `PrintSpool`, `PrintWorkers` |
| everything else | see "Not modelled" | | |

## Conventions

* A step is what the code does between two points where another thread or
  process can see a difference: a critical section, one access of a shared
  variable, or one system call. Local computation belongs to the step after it.
* Memory is sequentially consistent and a system call is atomic. Where the
  build decides what the machine does (`CircBuf`), the build is chosen in the
  initial state and never changes.
* Data are model values. Formatting, logging, statistics counters and error
  returns of `malloc` are left out unless a property is about them.
* A definition whose comment begins with "Mutant" is a plausible mistake in the
  definition below it. It is used by no specification; replacing the original
  by it makes the named property fail.
* History variables (`pushed`, `popped`, `owed`, `table`, `result`, `given`,
  `freed`; `refused` of `ThreadPool`; `skipped` and `refused` of
  `AcceptMutex`; `printed`, `unsure`, `skipped`, `added`, `finished` of
  `PrintSpool`) record what callers or processes observe and never guard a step.

## Ring buffer: `BoundedFifo`, `CircBuf`, `CircBufProof`

One producer and one consumer thread use the buffer without a lock, as
`tests/test-circbuf.c` does. `PushCheck`, `PushCopy`, `PushCount` (and
`PushWrap`) are the steps of `__circbuf_push`; `PopCheck`, `PopCopy`,
`PopCount`, `PopWrap` those of `__circbuf_pop`, with `read_only` for a peek;
`PushFull` and `PopEmpty` the early returns; `Flush` is `CIRCBUF_FLUSH`, which
is only called while neither thread is in a call.

`count++; if (count >= 2*size) count = 0;` is compiled to two stores by gcc -O0
and -O1 and to one at -O2. `build`, fixed in the initial state, is one of the
set `Builds`: `"one_store"`; `"two_stores"`; or `"serialised"`, two stores with
callers that do not overlap their calls.

| run | question | answer |
|---|---|---|
| `circbuf` | is the buffer a FIFO queue, in the one-store build under overlap and in the two-store build without it? | yes; copies never share a slot |
| `circbuf_two_stores` | does free space stay in 0..N in the two-store build? | no: a reader sees `2*size` |

Size 3 lets the counters go around both laps with the buffer full, empty and in
between; two elements tell any two positions apart.

**Proved** for every `size >= 1` and every set of elements:

* `TypeCorrect`: counters in `0..2*size`, slots in the buffer. Uses `TInv`,
  which says a counter is `2*size` exactly between its two stores.
* `FreeSpaceRight`, `CopiesApart` and `RingIsFifo`: under `SafeUse` (`"two_stores"` not in
  `Builds`: one store, or no overlap).
  The inductive invariant `IInv` adds to the types what each call in progress
  knows: after `PushCheck` there is room and only the consumer can change that,
  by making more; after `PopCheck` there is an element, and only the producer
  can change that, by adding one. The refinement maps the abstract queue to the
  slots from `pop_count` to `push_count` (`Contents`); the lemmas show that a
  copy past the end is invisible, the counter store appends or removes one
  element, and a wrap changes nothing.

`SlotThirdLap` covers the slot of a counter that stands at `2*size`.

## Work queue: `WorkQueue`, `WorkQueueProof`

Workers `1..num_workers` run `workqueue_factory`; a client thread makes the
calls in `calls`. State: the backlog, each work's `status` and cancel request,
each worker's `state` and the number of unread events in its pipe (`event`),
and for each thread its position, its current work and the scan index `i` of
`wakeup_first_free_worker`. `put_backlog` is split into the locked append
(`Put`), the unlocked scan (`Scan`, one worker per step) and the pipe write
(`EventSet`). `flush_fd` reads chunk by chunk (`EventIsSet`), so a pipe holding
a multiple of `ReadChunk` events makes it read once more, and block.

`workqueue_destroy` is four kinds of step: `DestroyFlush` (the critical section
of `flush_backlog`), `DestroyLock`, `DestroyWorker` (cancel one thread, close its
pipe) and `DestroyFree`. It joins nobody, so the workers go on in between: one
whose work yields puts it back after the flush, one may be cancelled in a pipe's
read or write or in a function of the client (`Cancelled`), and one may take the
destroyed lock or look at a freed `worker_t`. The last is `Undefined`; the
properties speak of the time before it.

| run | question | answer |
|---|---|---|
| `workqueue` | can a work be in two places, for a client that does not both cancel works and add them again? without cancellation, can a complete work still be queued or held, or an addition complete twice? | no |
| | does a yielded work run again while the queue is up, and does a cancel end one that keeps yielding? | yes |
| `workqueue_pickup` | is an added work picked up? | no: a wakeup is lost |
| `workqueue_cancel` | is a work cancelled in the queue left alone? | no: it is run, and completed twice |

Two works and two workers give one work to fight over and one to keep a worker
busy. `ReadChunk = PipeCapacity = 2` reaches a full pipe and the extra read; in
the program the chunk is 64 bytes, 8 events, and the capacity that of a pipe.
`calls`, fixed in the initial state, is one of `CallSets`: a client that adds
works again and destroys the queue, or one that cancels. `OneOwner` leaves out a
client that cancels *and* adds works again: the factory reports a work cancelled
in the queue complete (line 109) and then runs it and puts it back, and by then
the client may have added it a second time. Complete means that the library
neither queues nor runs the work any more; `complete_work` may still be about to
call `complete_fn`.

Fairness is weak fairness of every thread's own step: threads are scheduled by
the operating system, a pipe read returns when there is data, and a work's
function is assumed to return. Nothing is assumed of the client's next call.

**Proved** for any number of workers, any works and any pipe size:
`TypeCorrect`, `OwnersSingle` (`OneOwner` as it is checked), and
`CompleteIsQuiet` and `CallbacksOnce`, which suppose that
`workqueue_cancel_work` is not used. Their inductive invariant `OwnInv` says which
works nobody has (`Free`): those never added, and without cancellation also the
complete ones; and that without cancellation nobody is at the position `"early"`,
the completion at line 109 that a cancelled work falls through. That position is
the reason for the assumption: with cancellation complete works are still run
(`workqueue_cancel`). `CallbacksOnce`
adds `OwedInv`, which compares what is owed of a work with the workers that are
about to call its callback (`Finishing`) and with whether it is still in play.

## Database library: `KVStore`, `HashDb`, `MCHashDb`, and the proofs in `HashDbInv`, `HashDbSteps`, `HashDbTable`, `HashDbProof`

Processes share an index file (a free list, hash chains, index records) and a
data file. Every step is one file access with the `fcntl` lock taken before or
released after it. An offset is a record number. `Call` (with `Lock`) and `Find`
are a call up to the end of `_db_find_and_lock`; `DeleteStart` to `DeleteChain` are `_db_dodelete`, in the
order of its writes; `FindFree`, `WalkFree`, `TakeFree` are `_db_findfree`;
`EndDat`/`AppendDat` and `EndIdx`/`AppendIdx` are the appends of `_db_writedat`
and `_db_writeidx`, split between finding the end and writing there; `Link` is
the final `_db_writeptr` and the unlock; `Rewind`, `NextRec`, `NextIdx`,
`NextDat` are the scan, which goes on from the end of the file when more was
appended.

| run | question | answer |
|---|---|---|
| `hashdb` | is it a table with atomic operations, do chains and free list stay disjoint and complete, are locks taken in an order without circular waits? | yes |
| `hashdb_scan` | does `db_nextrec` return only keys that are stored, each with its data or with those of a `db_store` in progress? | yes |

`KVStore` is the table the calls promise: each takes effect at one moment
between its call and its return, for the key and data it was called with.
`table` and `result` are that table and the answers, and the refinement maps
the pending call to the one in the process's handle (`Pending`); a call takes
effect where its chain is unlocked. Three keys on two chains give a chain of two records and
two processes that meet only at the free list and at the ends of the files;
three records (`MaxRecords`) allow one to be freed and reused while another is
appended; two data lengths make `db_store` overwrite as well as delete and
append. Processes are symmetric. `RoomLeft` stops new stores when the file
could exceed the bound. The scan run leaves out fetch and replace, which do
nothing to records that store does not.

`LockOrder` is what keeps the processes from waiting for each other: a chain
lock is held exactly during a call on the chain, and the free list, the end of
the index file and the data file are never waited for while one of them is
held. Deadlock checking is on as well, but sees only states in which nobody can
move. That each call returns is not checked as a liveness property.

Not modelled: `db_open` (its truncation precedes its lock), a process dying
between two writes (the code has no recovery), and the file offset that other
calls on a scanning handle move.

**Proved** for any processes, scanners, keys, data, chains, hash function and
lengths, and for every `MaxRecords`: every property of the two runs. `TypesHold`, `LocksOrdered`, `ChainsAlwaysMatch`,
`FreeListAlwaysSound` and `RecordsNeverLost` are the invariants, `IsATable` is
the refinement of `KVStore`, `ScansAreSound` the action property of the scan; all
follow from `Invariance`, `Spec => []Inv`. Assumed are the `ASSUME`s of `HashDb`:
`Hash` and the lengths are functions (`HashAssumption`, `LenAssumption`); the
free list, the two end-of-file locks and the chains are different places and none
is a record number (`PlacesAssumption`); a process does not scan
(`ProcsAssumption`); calls are the five of the library (`OpsAssumption`); a blank
key is no key and no data is no data (`BlankAssumption`).

The invariants are not inductive: they speak of lists nobody is writing, and a
step starts from lists somebody is in the middle of writing. `Inv`
(`HashDbInv`) therefore says in every state what is where:

* Each record is `Live`, `Freed` or `Taken` by one `db_store` that fills it; the
  record and the handles alone decide which. `ListsOK` says that the chain ptrs
  agree: each chain goes through its live records and the free list through the
  freed ones, once each - and between the writes of `_db_dodelete`, that they will
  once the ptrs still to be written are written.
* `LocksHeld`, `Exclusive`, `OpsAt`: which locks a process has is told by where it
  is in which call, and they exclude each other.
* `HandleOK`: what a process knows of the files from what it has read - where it
  stands on its chain or on the free list, that the key it looks for is still
  ahead (`Ahead`), that the record it found or took is as it read it.
* `RecordsOK`: no two records share their data, no two live ones have a key in
  common, a freed one has blank data, an end of file found under a lock stays the
  end.
* `TableOK`, `ScansOK`: live records have the data of the table, but for a record
  whose deletion has begun; a scanner about to read data still has its record.
* `HandleTypes`, `FileTypes`: types.

Lists are defined without recursion: `OnList(x)` is the least set that holds the
record `x` leads to and with each record the next one. `IsList(next, x, S)` says
that `S` is this set and that no two ptrs lead to one record; what a write of
`db.c` does to a list - a record bypassed (`ListBypass`), one put at the head
(`ListPush`) - and what a walk knows of the rest (`ListAhead`) are lemmas on
`IsList` for any function `next`.

The argument goes by module. `HashDbSteps` says what each action does to the
handle of its process, to the locks and to the files, and that it leaves alone
what the locks of the others protect; with the list lemmas, it shows that what a
process knows stays true when it moves and when others do (`HandleOK`).
`HashDbTable` does `RecordsOK`, `TableOK` and `ScansOK`, and shows for every
action that it is a step of `KVStore` or changes nothing there: a call takes
effect where it answers, and by then `HandleOK` and `TableOK` tell what the table
holds for its key. `HashDbProof` does `ListsOK`, puts the parts together, and
draws the theorems from `Inv`.

## Thread pool: `ThreadPool`, `ThreadPoolProof`

The main thread adds resources, then closes the pool; child threads are created
when nobody is idle (`AddResource` with `MoreThreads`), take resources, park in
`pthread_cond_timedwait` and leave on a timeout or on quit. All shared state is
under one mutex, so a step is a critical section. `idle`, `counter` and the
chain `res` are the code's variables; `pc` says where each thread is: waiting
for the mutex, parked, woken, timed out, in its handler, or created in vain
(`"lost"`: counted, but `pthread_create` failed).

| run | question | answer |
|---|---|---|
| `threadpool` | do the counters, the resources and the freeing of the pool stay right when `malloc` and `pthread_create` may fail? Is each accepted resource processed, and does the pool close, as long as no `pthread_create` failed? | yes |
| `threadpool_fail` | does the pool close after a failed creation? | no: it waits for a thread that never was |

Three threads and four resources let a thread time out, another be woken and a
third be created around one addition; `max = 2` makes the limit bite. `Intact`
says that no thread was created in vain so far. `refused` holds the resources
whose addition returned an error: they stay in the chain, with no thread
promised for them, so the wakeup properties leave them out. Thread
names are reused after an exit. Runs allow the final state in which the pool is
freed, so deadlock is not checked.

Fairness: a thread that can take the mutex does, a handler returns, a timed
wait ends, and the main thread goes on closing. The main handler may run
forever, and no spurious wakeup is promised.

**Proved** for any threads, resources and limit: `CountsRight` (types, counters
and, beyond what the run lists, the limit `ThreadLimit`), `PoolStays` (no thread
left when the pool is freed), `ResourcesOnce`, and
`WakeupsReach` when `max > 0`, which speaks of `Intact` states and resources
that were not refused. The inductive invariant
keeps the counters equal to cardinalities (`Card`, `MovedMembers`, `MovedIdle`
say what one thread's move does to them); `WakeupsReach` also needs that
parked threads are counted as idle, so that "idle <= 1" means nobody sleeps.

## nginx locks: `NgxProcs`, `CrashLock`, `ShmMutex`, `RwLock`, `AcceptMutex`, `NgxWorkers`, `MCNgxWorkers`, `NgxWorkersProof`

Worker processes share memory and may be killed at any instruction; a word in
shared memory outlives the process that wrote it. `NgxProcs` is the processes:
`Crash`, the master's `Waited` (`ngx_process_get_status`) and `Respawn`
(`ngx_reap_children`). The other modules extend it.

* `ShmMutex`: the mutex of a shared memory zone, in the variant with atomic
  operations, with and without a POSIX semaphore (`semaphore`, chosen by
  `ngx_shmtx_create`). Every read or atomic operation is a step. `pc` says where
  a process is: at the loop, counting itself in (`CountIn`), trying again
  (`Retry`), taking its count back (`CountOut`), asleep (`SemWait`), in its
  critical section, or in `ngx_shmtx_wakeup` (`ReadWait`, `CmpSetWait`,
  `SemPost`). The master calls `ngx_shmtx_force_unlock` for the dead.
* `RwLock`: the four operations of `ngx_rwlock.c`, with the read of the reader
  count and the `cmp_set` that uses it in separate steps.
* `AcceptMutex`: one pass of `ngx_process_events_and_timers` as far as it
  concerns the mutex, the flag `ngx_accept_mutex_held`, `ngx_accept_disabled`
  and the listening sockets in the poll set, with the failure of
  `ngx_enable_accept_events` and the EMFILE path of `ngx_event_accept`.
* `NgxWorkers` composes them: handlers run inside a pass and take the zone mutex
  alone or while they have the peers' lock, as
  `ngx_http_upstream_save_round_robin_peer_session` does (no code takes the peers'
  lock while it has the mutex); `ngx_unlock_mutexes`
  frees the accept mutex and then the zone mutex, and a new worker starts only
  after that. `CrashLock` is what both mutexes promise: a lock that passes
  through being free, is not taken from a living owner, and is freed when its
  owner is dead.

| run | question | answer |
|---|---|---|
| `nginx_locks` | do the three locks exclude, is no wakeup lost, does a forced unlock free only what the dead had, does a pass always give the accept mutex back, do the two mutexes implement `CrashLock`? | yes, with the exceptions below |

The exceptions are the code's and are named in the properties. `WakeupDied`: a
process that dies between taking a count or a token and passing it on leaves the
others asleep beside a free lock until somebody unlocks again. `skipped`: a pass
with `ngx_accept_disabled` above 0 polls what the last pass left in its poll
set. `refused`: a worker whose poll set refused a socket half way never removes
the ones it had added. A reader/writer lock whose holder died is held for ever
(`RwWord` says so), so no liveness is claimed of it.

`MCNgxWorkers` runs four servers in one state space: two workers with the accept
mutex, three with the zone mutex, three with the peers' lock, two with both of
these, one inside the other or apart; one worker dies and a fourth pid replaces it. Three workers are needed for
an owner, a sleeper and one that arrives between them; one death suffices, since
what a death leaves behind is the state of one process. The workers are distinct
model values without symmetry, because liveness is checked.

Fairness: a process that is not waiting is scheduled, a critical section ends and
the master collects the dead. Nothing makes a worker call a lock, fail or die.

**Proved** for any number of workers and deaths:

* `ZoneLockExclusive`, `SemaphoreBalanced`, `WakeupsKept`, `ZoneLockRefined` of
  `MutexSpec`, the zone mutex used in any way. `MutexInv` joins `LockWord`,
  `SemBalance` and `NoLostWakeup`, which are inductive only together: that the
  second attempt of `ngx_shmtx_lock` saves the wakeup depends on the balance of
  counts and tokens, and who unlocks depends on the lock word. It adds that unborn
  processes are idle and that without a semaphore nobody counts. The steps are
  treated as one process moving between two places (`MutexStep`), and `SizesMove`
  says what such a move does to the cardinalities of `SemBalance`.
* `WritersAlone` and `RwWordExact` of `RwSpec`: `RwInv` equates the lock word with
  the number of readers or with the writer, the dead included.
* `LocksCompose`: `NgxWorkers`, with the mutex inside the peers' lock and deaths
  that leave both behind, implements `MutexSpec` and `RwSpec`, so the theorems
  above hold of the composed server (`ServerLocksSafe`, `ServerTyped`).
* `AcceptGivenBack`, `AcceptInTurns` and `AcceptLockRefined` of `NgxWorkers` itself. `AcceptInv`
  adds to the two properties what a process knows at each stage, and above all
  that sockets in the poll set imply the flag or a refusal, so that the next pass
  removes them.

That the two mutexes also free the locks of the dead *eventually* (`FairSpec` of
`CrashLock`), and `FreeLockTaken`, are only model-checked.

## Print server: `PrintSpool`, `PrintSpoolProof`, `PrintWorkers`

`printd` takes requests, one thread per client, stores each in two files (the
text in `DATADIR`, the request in `REQDIR`), and sends them to the printer from
one thread; a job ID file keeps the next number across restarts. `PrintSpool`
has the daemon die at any step (`Crash`) and be started again.

* A client thread: `get_newjobno`, `CreateData`, `StoreBlock`, `TextEnds`,
  `CreateControl`, `WriteControl`, `Respond`, `NotifyPrinter`, with the early
  exits `HeaderFails`, `CreateFails`, `StoreFails`, `ControlFails`.
* The printer thread: `PickUp`, `ReadJobno` and `update_jobno` (the read of
  `nextjob` and the write of the file are separate steps), `OpenData` or
  `OpenFails`, `Send`, then `Confirmed`, `Defer` (back to the head of the list, by
  `replace_job`) or `StatusHangs`; then `UnlinkData` and `UnlinkControl`.
* Start-up: `init_request`, `QueueOnStart` and `SkipOnStart` for each entry that
  `build_qonstart` reads, `StartAccepting`.

A file is named by the request that created it, so that two threads given the
same number after a restart write to what the code makes them write to. A
request is its client; its text is a number of blocks. A control file that was
created and not written is `Short`.

`PrintWorkers` is the doubly linked list of client threads; each operation holds
`workerlock` throughout and is a step. Reading or writing a freed element
(`Touched`: those up to the one looked for, and its neighbours) is the absorbing
state `undefined`.

| run | question | answer |
|---|---|---|
| `spool` | after any death, is a job whose number a client was sent kept until it is printed, printed with the text that was stored, confirmed once, in order, and eventually? | yes, but for the exceptions below |
| `spool_workers` | does SIGTERM cancel every thread that serves a client? | no: the second of two is not in the list |

Exceptions, named in the properties. `Reissued`: the job ID file is written when
a job is picked up, not when its number is given out, so a restarted daemon may
give the number of a pending job to another client, whose `creat` truncates the
first one's text; nothing is said of any two requests that were given the same
number, not even when the first of them failed before it had a control file.
`unsure`: a daemon that dies between the printer's answer and
the unlink prints the job again. `PrintedOnce` counts confirmed prints only: a
job that was sent whole and whose answer is lost or late is put back and sent
again, and may come out of the printer twice. `skipped`: a job whose files could not be opened
for want of descriptors waits for the next start. `ppc = "hung"`: if the end of
the HTTP header is not in the first read, `printer_status` never leaves its loop.
A pause of 20 seconds ends a text (`TextEnds`), so `PrintedIntact` speaks of what
was stored.

Two clients and two numbers (`MaxJob`) give one job to be reissued and one to be
overtaken; two crashes (`MaxCrashes`) let a daemon die during the start-up that
follows a death; one block (`Blocks`) tells an empty file from a full one. Three
threads in `PrintWorkers` make a head, a lost element and one that comes after.

Fairness: the threads are scheduled; a printer that is asked again and again takes
a job and confirms it some time (strong fairness of `Send` and `Confirmed`, since
`Defer` may come in between). `AckedPrinted` supposes that a daemon stays up;
nothing makes anybody start it.

**Proved** for any number of clients, numbers, blocks and crashes: `JobsKept`,
`PrintsIntact`, `PrintsOnce`, `ListInOrder` and `SpoolTyped`. The inductive
invariant `SpoolInv` says: whatever carries a job
number - a file, a control file, an entry of the list, a job in hand - belongs to
a request that was given this number (`Numbers`); open and named files exist
(`Created`); what each position of a client thread and of the printer thread
implies (`Threads`, `Printer`); what start-up has not read is not in the list
(`Unread`); a request is not queued before its thread gives it away (`NotYet`);
files hold the text of their request (`Contents`) and stay until printed (`Kept`);
after printing, the data file goes before the job can be sent again (`Gone`).
`Kept` and `Gone` are the heart: without `Numbers` another request could own the
file, and without `NotYet` a job could be printed before its client was answered.
The lemma `Writers` says which steps write which variable, so each conjunct is
shown only for the steps that can disturb it. `InOrder` needs from the invariant
where the printer thread is and that a daemon starts with an empty list; it rests
on four equations on sequences (`FinishJob`, `ReplaceJob`, `RemoveJob`, `AddJob`).

## What is proved and what is only model-checked

TLAPS proves the theorems in `PROJECT.json`, from the `ASSUME`s of the modules
and the library's facts on sequences and finite sets; the runs check every
listed property on the instances described above as well.

Only model-checked:

* Liveness under fairness (`YieldedRunsAgain`, `CancelEnds`, `ResourceServed`,
  `IntactCloses`, `FreeLockTaken`, `AckedPrinted`, the fairness part of
  `CrashLock`), which is out of the prover's reach.
* That every call of the database library returns: neither proved nor checked.
* `PrintWorkers`, whose one property is false.

## Not modelled

* Death of a process inside a call of the database library, and `db_open` with
  truncation while others have the files open: the code repairs nothing and
  promises nothing of these, so every structural property is simply false after.
* c-utils `bus_server.c`: works that poll a socket and one shared message slot;
  a message is overwritten whoever has not read it, so there is no delivery to
  promise, and the use of the work queue is the one of `WorkQueue`.
* melon `mln_iothread.c`: two message lists under a mutex each. Concurrent, and
  the next part worth a model.
* melon `mln_event.c`, framework and connections: one thread, the order of events
  is the kernel's; the rest is I/O.
* The containers of c-utils and melon, codecs, cryptography, the language and its
  parser: sequential, most of it recursion over pointers or generated tables.
* nginx beyond its locks: protocol parsers, configuration and upstreams of one
  thread per process; of `ngx_shmtx.c`, the file-lock variant and the destruction
  of the semaphore; of the master, signals, channels, reload and upgrade.
* haproxy: its threads rest on atomic operations under a weak memory model, which
  these modules, sequentially consistent throughout, do not represent.
* `printd`: the IPP and HTTP messages, rereading the configuration at SIGHUP, the
  wrap-around of job numbers (which a comment in the code excludes), and the
  client program `print.c`.
* linenoise, ctn-d, the ipc and socket examples and the other apue programs:
  terminal handling and examples of one system call each.

The repository is a collection of whole upstream source trees, most of them
sequential protocol and parsing code, so the modelled lines are a small share of
all lines however completely the concurrent parts are covered.

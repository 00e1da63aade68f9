# Verification of the trainee programs

`src/` is a collection of independent C++ programs and header-only components.
Those with a logic of their own are three caches, programs that share memory
between processes or threads under semaphores or lock-free queues, a TLS echo
server and its client, a simulation of a frame pipeline, event loops, a daemon, a
supervisor of a child process, a checksum, and a dozen classical algorithms. This
directory holds TLA+ models of them, the TLC runs that check the models, and proofs
that TLAPS checks.

    tlc -workers 2 -config SemQueue.cfg SemQueue      # a run
    tlapm SemQueue_proofs.tla                         # a module of proofs

## Inventory

| Component | State | Operations | What makes it correct |
|---|---|---|---|
| `cache/lru/flat_lru.hpp` | one vector of slots sorted by key, an age counter per slot | find, find_mutable, exists, update, invalidate, invalidate_range | sorted and unique, never beyond its reservation, evicts the oldest, never shows a stale datum, loses nothing silently |
| `cache/lru/generic_lru.hpp` | a list in order of use, a map of iterators into it | the same | list and map agree, no iterator dangles, evicts the least recently used |
| `cache/lfu/lfu.hpp` | a list of buckets of nodes, a map of pairs of iterators | get, exists, put, invalidate, invalidate_range | buckets ordered and not empty, iterators valid, evicts the least recently used of the least frequently used |
| `posix/semaphore/interprocesscountingsemaphore.cpp` | a ring, three semaphores, the children | fork loop, producer, consumer, reaping | mutual exclusion, no over- or underflow, FIFO, everything consumed, the run ends |
| `posix/semaphore/inter*binarysemaphore.cpp`, `cpp20/semaphore/cpp20binarysemaphore.cpp` | one int, one semaphore | start, acquire, increment, release, join | no lost update; the sum asserted at the end |
| `cpp20/semaphore/cpp20countingsemaphore.cpp` | counters, a stack of pointers, a mutex, a semaphore | acquire, take, increment, give back | a counter has one owner, the pool suffices, no lost update |
| `pipeline_model/pipeline_model.cpp` | slots in use, waiting frames, timers | frame_receive, frame_submit, frame_processed | order, no idle processor beside a waiting frame, no frame lost |
| `lockless/sp?cqueue/*.cpp` | an external queue, the children | push and pop with retries, fork loop, reaping | each value consumed once and in order, the retries end |
| `posix/shmem` | two shared objects, each a semaphore and a message | open, extend, initialise, ask, answer | the programs alternate, no stale answer, nobody sleeps for ever, no bus error |
| `boost/child/process/src` | a child process, a thread that runs its io_service | Spawn, Stop, Join, Terminate | a stopped child is over, no thread is left unjoined, the exit handler is called in time |
| `tls/server.cpp`, `tls/client.cpp` | one connection at a time and its buffer; a socket | accept, handshake, echo; connect, verify, say, receive | nobody prints another's message, none is told to a stranger, a client that ends does not take the others' answers |
| `boost/asio` | operations under way, handlers to run, the thread in run() | the handlers, stop, join | handlers in order, a coroutine writes to its own socket, run() returns exactly when nothing is left |
| `daemon/daemon.cpp` | the processes, their sessions and descriptors | two forks, setsid, chdir, close, open, dup | detached from all that the starter had; failure at any step ends everything |
| `shared_memory/main.cpp` | an object in a shared mapping, two processes | map, fork, call, wait, destroy | the object is used only while it lives, and destroyed once |
| `crcbench/crc32c.cpp` | the tables | crc32c() in three versions | all give the same CRC, however a buffer lies and is cut |
| `cache/*/ut.cpp` | a cache and the calls yet to be made | the tests | the answers are those expected |
| options of `algo/sorting/sort.cpp` and of `tls` | the argument looked at, what is set | one argument | what is set is what the help says |
| `algo`, `boost/my_algo`, `python/algo` | none: pure algorithms | searches, sorts, prefix tree, shortest paths | agree with their reference definitions |
| everything else | none | one library call each | no logic of its own |

The programs do not call each other. Within one, components interact through
shared memory (semaphores, the shared ring, the message objects), through the
kernel (fork, waitpid, kill), through connections (TLS) and through callbacks
(the pipeline's timers, the handlers of the event loops, the supervisor's exit
handler). The hard behaviours are therefore interleavings of processes, failed
forks in the middle of a loop, sessions that are killed and leave their shared
objects behind, clients that crash or fall silent while a server blocks on them,
timers that expire together, and long sequences of legal calls
to a cache. PROJECT.json lists them line by line under "hazards".

## Modules

| Module | Models | How state and actions correspond |
|---|---|---|
| `CacheParameters`, `Dropping` | what the caches have in common | `Reply(op, got, evicted)`: the last call and what it gave its caller; `Without` and `With` are erasing from a hash map and adding to it, `Dropping` is erasing from a list |
| `FlatLRU` | `flat_lru.hpp` | `cache` is `cache_`, a sequence of `[key, data, refs]`; one action per public operation, `Update` split by the code's three ways to get a slot. `EvictIndex`, `Touch`, `Rotate`, `LowerBound` are the private helpers |
| `GenericLRU` | `generic_lru.hpp` | list nodes are addresses from `Nodes`, freed and given out again; `cache` maps keys to them |
| `LFU` | `lfu.hpp` | the same with buckets; `touch`, `lfu_attach`, `lfu_detach` are operators on the bucket list that `Get`, `Put` and `Erase` combine |
| `AbstractLRU`, `ForgetfulCache`, `AbstractLFU` | nothing: they say what a cache promises | content, order of use, what an insertion throws out |
| `MCFlatLRU`, `MCListCaches` | nothing: for TLC | history variables, refinement mappings, symmetry; `MCListCaches` is `generic_lru` in one half of its states and `generic_lfu` in the other |
| `SemQueue` | `interprocesscountingsemaphore.cpp` | `pc` names the next call of a process; one action per semaphore call and queue operation |
| `BoundedFifo` | nothing: what the ring promises | a queue with Put and Get |
| `TLSEcho` | `tls/server.cpp` and `tls/client.cpp` | `server` and `client[c]` say which call each is in; the records in flight are sets `up[c]` and `down[c]`; the buffer is a function on `BufSize` parts, of which the last read has filled `nread`; `Crash` and `FallSilent` are what may happen to a client, `KilledWriting` is the SIGPIPE that nothing handles |
| `ProgramParameters` | what the next three have in common | constants and their assumptions |
| `Counters` | the three binary semaphore programs and `cpp20countingsemaphore.cpp` | `program` tells them apart; an increment is `Load` and `Store`; the pool is a stack, `Top` and `Pop` are steps of their own |
| `Pipeline` | `pipeline_model.cpp` | one action per timer handler, and `Tick` for the passing of a second |
| `PollQueue` | both programs of `lockless` | `program` tells them apart; a failed push or pop changes nothing |
| `EventLoops` | the seven programs of `boost/asio` | `pending` operations complete, with or without an error, and put a handler into `ready`; `Starts` and `Coroutine` say what a handler starts; a handler that writes or shuts down synchronously may throw (`MayThrow`), which ends the program |
| `Daemon` | `daemon.cpp` | the sequence `proc` of all processes there have been; one action per system call |
| `SharedObject` | `shared_memory/main.cpp` | where parent and child are, and whether the object is live |
| `CacheTests` | both `ut.cpp` | a test is a script of calls with the answers expected; `Step` makes the next call on `FlatLRU`, `GenericLRU` or `LFU` |
| `MCPrograms` | nothing: for TLC | composes `Counters`, `PollQueue`, `Pipeline`, `EventLoops`, `Daemon` and `SharedObject`: `program` says which of them an execution runs, and the variables of the others are `Idle` |
| `ShmemChat` | `posix/shmem` | the same actions for client and server, each with the object it writes and the one it reads; the user starts, types and kills |
| `Supervisor` | `boost/child/process/src` | the members of `Process`, the state of its children, and where its caller is; `Stop()` is one action up to each point where it waits; `run()` takes a handler from its queue (`Dequeue`, then `handling`) and calls it (`Handle`), and `stop()` may come in between |
| `Loops` | what the models of the algorithms have in common | an input, the local variables, the result; one round of a loop is a step |
| `Searching`, `Sorting`, `ShortestPaths`, `Trees` | the algorithms of `algo`, `boost/my_algo`, `python/algo` | one definition per function, and one action per round where its loop is of interest; below the second rule of each module are the reference definitions |
| `CommandLine` | the options of `sort.cpp` and of `tls` | one argument is a round |
| `Crc32c` | `crc32c.cpp` | a number is the set of its bits, so that exclusive or is symmetric difference and nothing depends on a width that TLC lacks; a byte, a word or three blocks is a round |
| `Algorithms` | composes them | an initial state for every algorithm and input |
| `MCAlgorithms` | nothing: for TLC | composes `Algorithms` and `CacheTests`: an execution runs an algorithm or a test |
| `SemQueue_proofs`, `ListCaches_proofs`, `FlatLRU_proofs`, `Programs_proofs`, `ShmemChat_proofs`, `Supervisor_proofs`, `TLSEcho_proofs` | nothing | theorems about `SemQueue`, `GenericLRU` and `LFU`, `FlatLRU`, the programs of `MCPrograms`, `ShmemChat`, `Supervisor` and `TLSEcho` |
| `DataLemmas` | nothing | induction, and lemmas about `Dropping`, about insertion into a sequence and removal from it, and about `SumFunction` |

A definition whose comment starts with "Mutant" is a plausible bug of the code
next to it. No specification uses it: it takes the place of the definition that
follows it to see that a property notices the difference.

Outside the repository, and modelled only as far as the programs use them: POSIX
semaphores and processes, the standard containers, `steady_timer` and
`io_context`, OpenSSL and sockets, the crc32 instruction, and the queues of the
submodule `xroost`, whose push and pop are taken to be atomic.

## Runs

Caches. The keys are integers, since `flat_lru` sorts them and ranges are
invalidated by order. Four keys and three slots make every relation between the
place of a key and the place of a victim occur, and every case of a slot being
live, invalidated or aged out; two data tell an old value from a new one. The
caches never stop: deadlock is not checked, since a cache whose caller is gone
is not stuck. In `LFU` a key is used at most `MaxFreq` times, which is at least 1.

- `flat_lru`: `SafeCache` (sorted, unique, within the reservation, live entries
  of different ages and with a buffer) and two refinements.
  `ImplementsExactLRU`: until the first invalidation `flat_lru` is exactly an
  LRU cache. `ImplementsForgetfulCache`: afterwards it still never
  shows a datum it should not and evicts nothing while it has room, but an
  insertion may forget an entry.
- `flat_lru_silent_loss` finds that loss. `touch()` counts every entry older
  when the recycled slot was an invalid one, although an invalid slot has no
  rank; a live entry so reaches the age that marks a slot invalid. With two
  slots: put 1, put 2, invalidate 2, put 2, and key 1 is gone.
- `list_caches`: for `generic_lru` `SafeCache` (list and map describe the same
  entries, whatever the list node's address was used for before) and
  `ImplementsLRU`, also with invalidations. For `generic_lfu` `LFUSafe` (buckets
  in order, one for each frequency and none empty, and every iterator leads to
  the node of its key) and `ImplementsLFU`. The code keeps the order of uses only
  within a bucket; the history variable `used` keeps it for all keys, so that
  the refinement shows that this is enough.

Processes and threads.

- `sem_queue`: three children, a ring of two slots, two iterations. The ring
  wraps, fills and empties, and any subset of the forks fails. `Inv` and
  `SafeQueue` are the proved invariants; `AllConsumed`, `ImplementsFifo`,
  `Termination`; `AbortStrandsChildren` says what an aborted parent leaves.
- `programs` runs one of the small programs in each behaviour.
  `CountersSafe`: one to three workers, as processes or threads for one int, or
  as threads for a pool of two, so that one of three has to wait; a counter has
  one owner, nobody else increments it, whoever is admitted finds one, and no
  increment is lost. `AssertionIffAllFits` says when the closing assertion of
  these programs holds: three increments for each of three workers do not fit an
  int of four bits, as 100000000 for each of 22 hardware threads do not fit the
  program's int. There, and after a failed fork, the programs end in a failed
  assertion.
  `QueueSafe`: three consumers or one, a queue of two, three values each, so
  that, as in the code, the values of one consumer do not fit the queue; each
  value is popped once and in order, and none is left.
  `PipelineSafe` and `KeepsUp`: arrival every 1 or 3 seconds, processing times
  below, at and above what the processors can take, none to three processors,
  eight frames: enough for a backlog to build up and, where it should not, to
  show that it does not. The two examples in the comment above `main()` (3 8 3
  and 3 10 3) are among the instances.
  `EventLoopsSafe`: every operation that has to do with a peer may fail, a write or
  shutdown within a handler may throw, which ends the program, and stop() may come
  before any handler or after all. A client counts as answered when its write has
  completed, with or without an error.
  `ForksSafe`: the daemon, started as the leader of a group or not and with any
  of its standard files closed (those of the daemon itself are `/dev/null` in the
  end, open for reading only), and the object shared with a child.
  `EveryProgramEnds`: every one of them ends, with the resources given back, and
  every frame is processed, but for the programs that are made to run for ever
  (`tcp` while its peer sends, the two with work that nobody stops) and for
  spscqueue without its child. Deadlock is checked: what does not go on is over.
- `tls`: two clients, one ahead of the other in the backlog or not yet
  connected, each of which may crash or fall silent at any point; a certificate
  that is good, of another host or of another authority; a lookup that gives no
  server, the server, or another address first; messages of one part or two, in a
  buffer of two (`client.cpp` always says the same, but the server does not know
  that). `OwnMessageOnly`: a short message leaves the rest of a longer one before
  it in the buffer, and yet each client prints its own, all of it and no more.
  `SaidToTrustedOnly`. `EmptyOnlyIfKilled`: `client.cpp` does
  not look at the result of its read; it prints an empty message only if SIGPIPE
  has ended the server, which it does when another client goes away at the wrong
  moment. `EveryoneServed`: whoever is connected gets its turn, unless the server
  is killed or serves a client that has fallen silent, which blocks all others for
  ever; and whoever begins its handshake with a server that it trusts has its
  message back in the end, unless it crashes or falls silent or the server is
  killed. Two
  clients are enough, as the server knows one at a time and a third could only
  wait behind the second; the theorems hold for any number. Deadlock is not
  checked: a server without clients waits for ever.
- `shmem_chat`: any number of sessions of up to three lines with kills at any
  point, for a user who starts the client first and types once both are up.
  `shmem_order`: the same user without the patience; readme.txt asks for none.
- `supervisor`: up to three launches, in any order with `Join()`, `Stop()` and
  the destructor, while children exit or not. `Inv` (a child that runs is known to
  the object, and is over when the object is gone, unless `Stop()` has given up on
  it), `ThreadJoinedFirst` (the io_service thread is joined before it is replaced
  or destroyed, or the program would end), `HandlerInTime` (the exit handler is
  called at most once, for the current child, and once the service is stopped only
  while `Stop()` waits for the thread, so never after `Stop()` or the destructor
  has returned), `StopReturns`. Three children are one more than a second launch
  after a `Stop()` needs.
- `supervisor_stop` finds that `Stop()` terminates nobody: it joins the thread
  before it calls `Terminate()`, which then takes the object for one without a
  child. The messages that it prints say otherwise.

Algorithms.

- `algorithms`: one algorithm on one input, or one test of the caches, in each
  behaviour. `ResultsRight` (`SearchesRight`, `SortsSort`, `SumsFound`),
  `PathsFinal`, `TraversalsRight` and `PrefixTreeIsMap` compare what is returned,
  and where it says more what is known after each round, with reference
  definitions; `Returns` says that all the loops end. Bounds: sorted arrays of up
  to 7 numbers, where an int that ends at 7 overflows in the middle of the search
  (the property asks for the right answer while twice the last index fits, and so
  says nothing of the overflow, where the model shows an index outside the array);
  lists of up to 3 numbers, long enough for a pivot with both neighbours and for a
  sum of three, but none empty for `sum3`, where `nums.size() - 1` is the largest
  `size_t`; graphs of 4 nodes with up to 5 edges of two weights, where a way of
  three edges can be cheaper than one of one; binary trees of depth 3; words of up
  to two of two letters. `PrefixTreeIsMap` also counts how often `insert()` returns
  true for an index, and says what `print()` prints. `print()` uses a reference to
  the top of its stack after it has popped it, which the standard leaves undefined;
  in the model, as in a `std::deque`, the slot keeps its content until the next
  push. `PathsFinal` also says that the script in Python raises an exception only
  where an edge leads back to the start. `ArgumentsRight` compares what up to four
  arguments set with what the last value of each option is, read from left to
  right. `CrcRight`: the version for the instruction and those for either byte
  order return the CRC computed bit by bit, for buffers at, behind and before an
  8-byte boundary and of lengths around the block sizes, in one call or in two. The
  blocks have 32 and 8 bytes here, not 8192 and 256; both are powers of two and
  multiples of 8, which is all that the code asks of them, and three of either size
  fit the longest buffer of 131 bytes, with a rest. The polynomial, the 32 bits of
  a CRC and the 64 of a word are those of the code.
  `TestsPass`: the models of the caches give the answers that the unit tests
  expect. The tests use 8, 16 or 32 entries and shuffle the keys; here there are
  always 8, and three orders, which leaves every comparison between a key, a
  victim and a place as it is in the tests.
- `sort_option` finds that `sort --algo heap`, the example at the top of
  `sort.cpp`, sorts with bubble sort: the code looks for `--argo` and compares
  that word, not the next, with the names of the algorithms.

## Fairness

Weak fairness of each process or thread: the kernel runs whoever can run. No
strong fairness is assumed: a process that waits for a semaphore is given it in
the end because the others stop asking. In `ShmemChat` the user at the server
answers; nobody has to type at the client or to start anything. In `Pipeline`
`io_context::run()` runs handlers that are due and time goes on. In `Supervisor`
the io_service thread and the caller inside `Stop()` run and its 30 seconds pass;
no child has to exit and no caller has to call. In `Algorithms` the loop goes on;
the rounds of `Crc32c` are left out of `Returns`, since whether one is enabled
costs TLC as much as the round itself, and each takes a byte or goes on to the
next stage. In `MCPrograms` the fairness is that of the program that runs: in
`EventLoops` the thread in run() and main() run, and an operation completes or
fails in the end. In `TLSEcho` the server is fair and so is each client; no
client has to crash or to fall silent, and one that has fallen silent does
nothing more.

## Proofs

What the runs show for small constants the theorems show for all that satisfy the
named assumptions of the modules. `tlapm` checks them in this order, each module
in less than half an hour from nothing:

| Module | Theorem | States |
|---|---|---|
| `SemQueue_proofs` | `Invariance`, `Safety`, `NothingLeftBehind`, `AbortIsForEver`, `Refinement` | `Inv`, `SafeQueue`, `AllConsumed`, `AbortStrandsChildren`, `ImplementsFifo` |
| `ListCaches_proofs` | `ListMatchesMapAlways`, `ExactLRU`, `BucketsMatchMapAlways`, `ExactLFU` | `SafeCache` of `GenericLRU`, `ImplementsLRU`, `LFUSafe`, `ImplementsLFU` |
| `FlatLRU_proofs` | `SlotsStayInOrder`, `ForgetfulLRU` | `SafeCache` of `FlatLRU`, `ImplementsForgetfulCache` |
| `Programs_proofs` | `CountersAreSafe`, `AssertionsTell`, `QueuesAreSafe`, `ForksAreSafe`, `EventLoopsAreSafe`, `FramesAreSafe`, `FramesKeepUp` | `CountersSafe`, `AssertionIffAllFits`, `QueueSafe`, `ForksSafe`, `EventLoopsSafe`, `PipelineSafe`, `KeepsUp` |
| `ShmemChat_proofs` | `Invariance`, `TurnsAreTaken`, `NobodyIsTooEarly` | `Inv`, `Alternation`, `NoBusError` |
| `Supervisor_proofs` | `Invariance`, `JoinedFirst`, `CalledInTime` | `Inv`, `ThreadJoinedFirst`, `HandlerInTime` |
| `TLSEcho_proofs` | `Invariance`, `OwnMessage`, `SaidToTrusted`, `Answered` | `Inv`, `OwnMessageOnly`, `SaidToTrustedOnly`, `EmptyOnlyIfKilled` |

`DataLemmas` holds lemmas that these use.

**SemQueue_proofs**, for every number of children, capacity and number of
iterations. `Inv` is inductive. Its heart is `Accounting`: the semaphore values,
plus the processes between a wait and the post that answers it, count every value
and every free slot of the ring once. It says how many processes are at a set of
labels; the lemmas on `Number` say how that count changes when one process moves,
and each step of the proof applies them to the one or two sets that the action's
process enters or leaves. Mutual exclusion follows from
`mutex + Number(Critical) = 1`, the two assertions from the other equations.
`ReadStaysFront` is inductive only with mutual exclusion: nobody else moves the
head between a consumer's `front()` and `pop()`. That nothing is left needs more
than that: `Balance` compares what the children still wait for, as a set of pairs
(child, iteration), with what the parent has still to make and what is in the
ring; when the parent is done both sides are zero. After a failed fork nobody has
posted `empty`, so that the children stay where they are (`BeforeProducing`). For
the refinement `EndsMatch` keeps the tail as far from the head as there are
values; a push is then an `Append` to what the ring holds from its head on, a pop
a `Tail`, and every other step a stutter.

**ListCaches_proofs**, for any keys, data, addresses and length. `SafeCache` of
`GenericLRU` is inductive by itself. An operation of the list is `<<n>> \o Dropping(list, gone)`,
so that all of them follow from what `DataLemmas` says of `Dropping` (its range,
that it keeps a list without repetitions so, and that dropping the last element
leaves the rest). The refinement maps the list of nodes to the list of their keys:
renaming commutes with dropping because the map is injective on the nodes
allocated, which is the part of `SafeCache` that it needs.

`LFUSafe` is not inductive as it stands: a step of `generic_lfu` opens a bucket,
moves a node into it, and closes the bucket that it came from, and in between there
is an empty one. `Placed` is what holds at each of these points: every entry of the
map has its node in one bucket, that of its frequency, and the buckets stand in the
order of their frequencies, empty or not. Opening, moving, adding, detaching and
closing each preserve `Placed`, so that an operation is a sequence of lemmas, one for
each edit, and `NoneEmpty` is shown of the last. `Erase` is a fold over a set of
keys, by induction on the size of that set; the order in which `FoldSet` takes the
keys does not matter, since the step is shown for any. That the map is finite and
within the length (`BucketsSafe`) is what the eviction of one entry for a new one
needs.

For the refinement of `AbstractLFU` the inductive invariant is `InStep`:
`BucketsSafe`, and `Remembered`, which says that the history `used` has the keys of
the map once each and those of any one bucket in the order of that bucket. The same
edits are followed once more for what they do to the places of nodes: which nodes sit
in the bucket of which frequency (`Sits`) and which stands before which in it
(`InFront`). Detaching only takes nodes away (`Lost`), attaching puts one in front
(`Gained`), and a `touch` is the two together (`Moved`), so that exactly one key has
been used more often than before, and it is the first of `used`. The victim of the
code, the last node of the first bucket, is then the one that the abstract cache
chooses: its frequency is the least because the buckets are in order, and within the
bucket its key is the last in `used`. `used` starts with the key that the step used,
which `UsedNow` finds by comparing frequencies; the proof shows that a lookup or an
insertion uses exactly its key, and that `exists`, a miss and an invalidation use
none.

**FlatLRU_proofs**, for any keys, data and length. `SafeCache` is inductive by
itself. What `LowerBound` and `EvictIndex`
choose exists because a set of numbers has a least one (`BoundIs`, `EvictIs`); that
every slot before the bound is below the key and none after it needs the sort
(`HitIs`). The three forms of an update come to one, `Updated`: the slot `e`, or a new
one, gets the key and the datum and is touched, and the others only change their
places. For the rotation `From` says from which place each slot comes, and that it
keeps their order. Ages stay apart because a touch ages exactly those that are younger
than the slot touched.

For `ImplementsForgetfulCache`, `Shows` and `Hides` say which pairs the live slots show
and which buffers the others still own, and these two determine the abstract store
and the abstract set of lost pairs (`StoreFrom`, `LostFrom`). The touch of a live slot
leaves both as they are (`TouchLive`): nothing grows too old. The takeover of a slot
that is not live ages every entry, so that the one of age `LenMax - 1` stops being shown
and becomes hidden (`DeadReplaced`); there is one such at most, because live ages are
apart. That an entry is evicted only when all are live is a matter of counting: the
keys shown are as many as the live slots (`FullIs`).

**Programs_proofs**. An execution of `MCPrograms` runs one program, so every
invariant has the form "if this program runs, then ...", and a step of it leaves
`program` as it is.

- `Counters`, for any number of workers, permits, increments and width of the int.
  `PermitsCounted` counts the workers that the semaphore has admitted,
  `WorkersStand` says what a worker has at each label. That an admitted worker
  finds a counter in the pool is not inductive and is not proved by induction: if
  the pool were empty the holders would map onto all the counters, so that there
  would be as many of them as permits, but the worker that looks has a permit and
  no counter yet. No increment is lost because the sum of the counters grows with
  the sum of what the workers have done, until it no longer fits
  (`CountersGrow`). At the closing assertion that sum is the number of workers that
  are over times `PerWorker`, from which both directions of `AssertionIffAllFits`
  follow.
- `PollQueue`, for any number of consumers and values and any capacity. What has
  been popped, in the order of each consumer, and then what is queued are
  increasing (`ConsumedOnce`); `ChildrenCounted` ties what the parent makes to the
  children born, so that when all have been reaped the queue is empty.
- `Daemon`, `SharedObject` and `EventLoops` have no parameters but start in several
  ways. `Stages` says which of the three processes has which label and what the
  label tells of its session, its directory and its files: the descriptors that
  `open()` and `dup()` return are the three standard ones because all lower ones
  are in use by then. `Queued` says what has run and is ready, in order;
  `WritesFollow` that a write is started by the accept of its own client.
- `Pipeline`, for any number of processors, any periods and any number of frames.
  The invariant counts nothing: `Serves` gives each taken slot one timer, and
  `Lines` says that the frames processed, running and waiting are all that have
  arrived, each in one place, and the last ones wait. Both hold after a frame was
  queued and after a slot was freed, before frames are submitted to the slots found
  (`Picks`, from the lemmas on `Dropping`): a handler is these edits, one after the
  other. The sums of `OneTimerPerTakenSlot` and `InOrder` follow at the end. For
  `KeepsUp` the invariant `OnTime` compares time with numbers: a timer of frame `f`
  has at most `processing_period + incoming_timer` left less one period for each
  frame since `f`. If all processors are busy their frames have numbers of their own
  (`FramesSpread`, by the pigeonhole principle), so that the oldest is that many
  periods old and, where the processors keep up, at its end (`NotYetFull`): either
  there is a free one when the next frame comes, or the clock cannot go on before
  one is freed.

**ShmemChat_proofs**, under `Patient = TRUE` (a user who starts the programs in
the order of readme.txt and waits for each; `shmem_order` shows what happens to
another), for any number of lines. `Alternation` is far from inductive: `OneTurn`
tells from the labels and the semaphores whose turn it is, `ObjectsReady` and
`StartedInOrder` which objects exist across kills and restarts, and
`AnswerOnItsWay` that what is under way belongs to the last question.

**Supervisor_proofs**, for every number of launches. Of the parts of `Inv`,
`NoOrphan` is the promise; `ThreadOfCaller` ties the thread to the caller's place
in `Stop()`, `GivenUp` says that without a thread only a child that timed out may
still run (or `Spawn()` could lose another one), `Watching` that a service that
has not been stopped watches the current child at most, and `Handling` that a
handler taken from the queue is that of the current child, which has exited, and
outlasts `stop()` only while `Stop()` waits for the thread. `JoinedFirst` follows
from `ThreadOfCaller`, `CalledInTime` from `Watching` and `Handling`: the thread
returns only when no handler is left to call, and no caller gets past the wait for
it before.

**TLSEcho_proofs**, for every set of clients and every size of the buffer. None of
the three promises is inductive. `Inv` adds `OnePlace` (until the server is killed
a connection is not yet made, or in one place of the backlog, or served, or hung up
on) and `InStep` (what is in flight fits the place that a client has reached: who
may speak has had the server's flight and trusts it; only a client that is over has
refused; a client that was hung up on after the flight is over, or the server was
killed), and `Filled`: while a message is echoed, the first `nread` parts of the
buffer are that of the client served, whatever the rest of it holds.

**DataLemmas**. What a recursively defined function returns for every input is
proved by induction, but the library's induction theorems take a formula as a
parameter, which the provers cannot instantiate. `Induct` takes a set instead, that
of the numbers for which the formula is true, and follows from the fact that a set
of numbers that is not empty has a least one. This is why the lists of the caches
are edited with `Dropping`, a recursive function over the length of the list, and
not with the library's `Remove` and `SelectSeq`, and their maps with `Without` and
`With`. For a sequence that gains or loses one element in its middle, `Inserted`
and `CutOut` say where each of the others stands afterwards. The module also proves
what the sums over `Counters` and `PollQueue` need: a sum over a finite set does
not depend on the order in which `SumFunction` takes its elements.

### Model-checked only

- All liveness: `Termination`, `EveryProgramEnds`, `EveryoneServed`, `Answered`,
  `StopReturns`, `Returns`. It needs fairness and ENABLED, which tlapm does not
  handle.
- `Searching`, `Sorting`, `ShortestPaths`, `Trees`, `CommandLine` and `Crc32c`: they
  use recursive operators, or are composed by `Algorithms` with modules that do,
  behind which tlapm has no SMT solver.
- `TestsPass`: the scripts are constants, which TLC runs.
- `ImplementsExactLRU`: its refinement mapping sorts the slots by age with `SortSeq`,
  for which there is no theory in the prover's library.

## Plan

What is left is a proof of `ImplementsExactLRU`: until something is invalidated the
ages are the numbers from 0 on, so that sorting by them has one result, in which a
touch moves a key to the front.

## Not modelled

- The demonstrations of library features, the benchmarks, and the script that
  makes keys: no state and no logic of their own, or none that is not the
  library's.
- The sorts that `sort.cpp` calls, and what `partition.cpp` and
  `boost/my_algo/binary_search` call: they are in the submodule `xroost`, which
  is not in the repository.
- `Spawn()` never sets the error code that it returns
  (`boost/child/process/src/main.cpp:72`), so that `main()` does not notice a
  failed launch. The model has no error code; a failed launch changes nothing.
- The tests `CreateValid` and `CreateInvalid` of the caches, which only look at
  what `create()` returns.

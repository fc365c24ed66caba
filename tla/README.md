# A TLA+ model of InMemoryDB

InMemoryDB is a Redis-like key-value server: one reactor thread reads request
lines from sockets, a pool of worker threads executes them on a sharded store,
and an append-only file (AOF) makes writes survive a restart. This directory
models its parts in TLA+ and checks them with TLC on small instances; TLAPS
proves every invariant that the runs check, their action properties and the
steps of the three refinements for every value of the constants.

## The system

| part | state | operations | talks to |
|---|---|---|---|
| Reactor (`network/reactor`) | connection table (buffers, sequence numbers, reassembly map, in-flight count), paused sockets, connection count, running flag | start's loop: drain results, release backpressure, poll, accept, read, write, disconnect; stop | calls the pipeline; drains the completion queue; `stop` comes from the main thread |
| Pipeline (`network/pipeline`) | none | rate limit, tokenize, parse, dispatch | submits to the pool, or posts an error result itself |
| Worker pool (`core/worker_pool`) | task queue, completion queue, running flag, threads | submit, push, drain, worker_loop, shutdown | executes commands |
| Commands (`core/command`) | none | SET GET DEL EXISTS PING LPUSH LRANGE HSET HGET, parsing | lock a shard, log to the AOF |
| Shards and values (`engine/shard`, `memory/variant_type`) | map from keys to values with creation time, TTL and tombstone | set, get, del, exists, evict_expired | allocate from the shard's arena |
| Router (`engine/hasher`) | none | key to shard | |
| Arena (`memory/pmr_allocator`) | bytes used | allocate, deallocate | throws OomException |
| AOF logger (`daemons/aof_logger`) | two buffers, file, running flag, flush thread | log, flush loop, start, shutdown | replayed by the server builder |
| Timing wheel (`daemons/timing_wheel`) | buckets, tick | schedule, advance_tick, stop | evicts from shards, logs DEL |
| Rate limiter (`network/rate_limiter`) | token buckets | allow | returns true before it uses them |
| Pub/sub broker (`network/pubsub_broker`) | channels | subscribe, unsubscribe, publish | called by nobody |
| Lifecycle (`core/server_builder`, `main`) | signal flag | replay, start, stop in order | everything |

What is hard here: workers finish out of order and outlive connections; socket
handles are reused; two kinds of backpressure share one set of paused sockets;
the queue is tested and filled under separate locks; buffers are swapped while
others log; flags are cleared without the mutex their waiters hold; the process
may be killed between any two writes, inside one, and while it replays; writes are logged
after the lock under which they were made is released; deleted and expired
entries stay in the map and must not show; threads are started and joined one
by one while a signal may come at any moment. `PROJECT.json` lists each of these hazards at its line.

## The modules

| module | models |
|---|---|
| `TaskPool` | what the pool promises: a bounded FIFO, workers, completions |
| `WorkerPool` | the pool with its mutex, condition variable and shutdown; implements `TaskPool` |
| `Reactor` | the reactor thread and the pipeline, extending `TaskPool`, with kernel and clients around it |
| `ReactorProofs`, `ReactorOrderProofs` | theorems about `Reactor` |
| `CommandLog` | what the log promises as replay reads it: commands in order, a durable prefix, at most one torn line |
| `AofLogger` | the log, its flush thread, failing writes, kills and restarts; implements `CommandLog` |
| `Replies`, `KeyValue` | replies; the abstract map that clients see |
| `Store` | shards, values and what commands do to them; implements `KeyValue` |
| `Commands` | parsing, execution and serialization of commands, over `Store` |
| `Persistence` | `Commands` and `CommandLog` composed: workers, sweeper, kills, replay |
| `TimingWheel` | the wheel and its sweeper thread, over `Store` |
| `Lifecycle` | `build_and_run`: start-up and shutdown of all threads, over `TaskPool` |
| `WorkerPoolProofs`, `AofLoggerProofs`, `StoreProofs`, `TimingWheelProofs`, `LifecycleProofs` | theorems about the module they are named after |
| `PersistenceProofs` | theorems about `Commands` and `Persistence` |
| `MCReactor`, `MCStore`, `MCPersistence`, `MCTimingWheel` | symmetry sets and constants for TLC |

Operators commented `Mutant: ...` are no part of the model: each is a plausible
mistake in the operator that follows it, and shows that a property notices.

### WorkerPool

One action per critical section. `SubmitPush`/`SubmitReject` are `submit` under
the lock, and `NotifyOne` the notification after it; `Await`, `Take`, `Exit`
and `Execute` are `worker_loop`, with the predicate of the wait evaluated under
the lock; `SpuriousWakeup` is allowed by `std::condition_variable`;
`ShutdownFlag`, `ShutdownNotify` and `ShutdownJoin` are `shutdown`. The producer
offers each task once, so that "exactly once" can be said; `offered`, `accepted`
and `drained` are history. A task and its result are the same value.

### Reactor

`pc` is where `start()` is. A turn of the loop is: `DrainCompletions`, one
`DropResult` or `ReassembleResult` per result, `Unpause`, `Poll`, possibly
`AcceptConnection` (the listening socket is polled first), the events of each
socket, and for each read the loop over complete lines. The reactor's own steps
are split only where it meets the pool (the 90% test in `TakeLine`/`PauseReads`
and the submit in `StampLine` lock separately) or where the code takes several
decisions; workers, clients and `Stop` interleave everywhere.

A request line is its position in the client's stream and what the pipeline
makes of it: `blank` (skipped), `space` (no tokens), `unknown`, `command`. A
result carries the connection and the line it answers, which the code does not
have: properties use it, actions never do. Socket handles are reused by
`Accept` as soon as they are closed. `owner` numbers the connections of a
handle; a handle that is reused while work of an earlier connection is still
under way is `tainted`, and the ordering properties are stated for the other
ones (`Sound`), because the code does not keep them for tainted ones (see the
finding on handle reuse). `recv` may end inside a line and `send` may take part
of the buffer; a vanished peer shows as a hang-up, as the end of the stream, or
as a failing send. The rate limiter is modelled as it is: it allows everything.

### AofLogger

`Log` is `log()` under the mutex. The flush thread goes through `LoopTest` (the
unlocked test of the flag), `WaitEnds`, `Swap` and `FlusherWrites`, which gives
the stream one command at a time; the stream's buffer may spill any part of
what it holds to the file, also inside a line. `BeginShutdown`, `Join` and
`MainWrites` are `shutdown()`. `Kill` loses everything that is not in the file;
`Restart` is the next run of the server, whose replay logs nothing.

Lines are commands; their bytes matter in one respect. A process may die with
part of a line in the file, `std::getline` (`server_builder.cpp:52`) gives that
part to the next replay as if it were a line, and the next run, which opens the
file with `std::ios::app` (`aof_logger.cpp:19`), appends its first line to it.
`open_line` says that the stream has given the system a part of its next line,
`LeaveFragment` makes that part the `tail` of the file when the process ends, and
`Spill` joins the first line of a later run to it. What a fragment or a joined
line reads as is any of `Readings`: another command (`DEL key12` cut to
`DEL key1`), the same one (only the newline was missing), or nothing that parses.
That is more than the bytes of a given line allow, and what is shown holds for
all of it. `file` has the commands whose lines were completed, `contents` what
replay reads in their place.

A write may fail (the disk is full): `failed` is the error state of the stream,
which nobody looks at or resets, so that commands given to it from then on are
dropped. What the stream held when it failed may still reach the file, in part;
what was refused never does. `CommandLog` abstracts from buffers, threads and
stream, not from torn lines: `entries` is the log as replay would read it, the
first `durable` of them complete in the file, and `torn` says that the next one
is a fragment there. `Persist` joins the line after it to a fragment, a crash
costs a suffix and may leave a new fragment, a failing disk costs a suffix. The
mapping takes `contents`, not `file`: a line that no longer reads as its command
is one in `CommandLog` too.

### Store

Every command holds the lock of its key's shard from its first look to its last
change, so a command is one action, and one map stands for the maps of all
shards. Time is counted in seconds, as `is_expired` does. Any allocation may be
refused (`OutOfMemory`) and changes nothing then: `set`, LPUSH and HSET allocate
before they change the entry, and the containers roll back. `KeyValue` is a map
without tombstones or eviction, of values with their deadlines: a key is there
until it is deleted or the second of its deadline comes, in which it disappears,
and nothing else removes one. `Store` maps to it by keeping the entries that are
neither tombstoned nor expired, with `created_at + ttl_seconds` as the deadline;
an entry that expires a second late, or that is evicted while it lives, is a
step that `KeyValue` does not have. `KeyValue` allows DEL to count a key that
has expired, as `Shard::del` does not look at expiry, and leaves open at which
end of the list LPUSH adds (see Observations). LRANGE is specified there by which
positions are selected, and in `Store` by the code's clamping. What a command logs is in `Commands`.

### Commands and Persistence

A line is the sequence of its tokens. `Parse` is `CommandFactory::parse`, with
its defaults (the TTL of a SET that has none, or one that is no number) and its
refusals; `Execute` is the virtual call, `Serialize` what goes to the log.
LPUSH and HSET call `log()` under the shard's lock, so change and entry are one
step; SET, DEL and the sweeper call it later, so their changes wait in `pending`
(one per thread) and are logged in any order. `Kill` may come at any time,
during replay too, and between lines of the file or inside one; `Replay` parses
and executes the next line, a fragment at the end included, passes over what does
not parse and ignores the answer; `StartUp` is the end of replay; `Flush` brings
lines to the file and joins the first of them to a fragment. An orderly shutdown
is a kill with everything durable. No write fails here: `LoseSome` is a step of
`CommandLog` that `Persistence` does not take. The sweeper may visit any key at any time, which is more
than the wheel lets it do. Time stands still during replay: it is taken to be
shorter than the TTLs the file holds.

`ReplayRestores` compares the store after replay with the one at the kill. It
holds for every key but the excused ones, and `excused` keeps the reasons, each
of which is a behaviour of the code: `order` (logged in another order than
made), `lost` (the last change was not in the file yet), `expiry` (LPUSH or
HSET over an expired entry: replay does not know that it had expired), `torn`
(the key is named by what a fragment or a joined line reads as, or was named by
one of the two lines that were joined; the line that was cut short is `lost`),
`skipped` and `memory` (a replayed command found the arena full, in this replay
or the one before, whose state the file never had). Leaving out any one of them
gives a counterexample. So a torn line harms the keys it named and those it
happens to name now, and no others, in this replay and the ones after it. A restored key has its TTL counted anew, and so does
one that had expired and was not evicted: it comes back.

### TimingWheel

The sweeper goes through `LoopTest`, `WakeUp` (the sleep of a second is over),
`AdvanceTick` (a bucket is emptied under the wheel's mutex), and for each entry
taken `Evict` and `LogDel`, or `Spare`, under the lock of the shard. Clients
set, delete and schedule keys between any two of these steps; callers of
`schedule` are external, as only the tests call it. `due` and `beyond` are
history: the second for which the present entry of a key was scheduled, if it is
one at which the entry is dead, and the keys scheduled a turn of the wheel or
more ahead. Those are swept a turn too early and dropped, and `NothingMissed`
leaves them out; with a default TTL of 86400 seconds and 86400 buckets every
entry with the default TTL is among them. `MaxLag` bounds the seconds the
sweeper loses to its own work.

### Lifecycle

`main` is the statement that `build_and_run` has come to. `Interrupt` is
SIGINT, which ends the process as long as its handler is not installed, and
again once it was called, as the runtime resets it. The reactor's thread sets up
its socket (an exception there leaves the thread and aborts the process), sets
`running_` and submits tasks; a task is a write, of which only the call of
`log()` matters. `JoinWorkers` is possible when the queue is empty and no worker
executes. `OnlySweeperRefused` says what the order of shutdown is for, and also
where it falls short: the log is closed before the sweeper has stopped.
`ShutdownCompletes` excludes `StopOvertaken`: `stop()` before `start()` has set
`running_` is without effect, and the join waits for ever.

## What TLC checks

| run | shows |
|---|---|
| `pool` | `ExactlyOnce`, `JoinedMeansDone`, `WorkConserving` (no lost wake-up), `AcceptedCompletes`, `ShutdownReturns`, `ImplementsTaskPool` |
| `reactor_connections` | `ConnectionCount`, `PausedAreConnected`, `ResponsesInOrder`, `NothingForgotten`, and (`TypeOK`) that no counter passes below 0, with handles being reused |
| `reactor_pipeline` | `ResponsesInOrder`, `NothingForgotten`, `PipelineDepthRespected`, `NeverBusy`, `WritesArePolled`, `PausedIsNotRead`, `StampedIsAnswered` and `StopReturns` with pipelining |
| `aof` | `LoggedInOrder`, `ShutdownIsDurable`, `KillLosesSuffix`, `LoggedReachesFile`, `ShutdownReturns`, `ImplementsCommandLog` |
| `store_commands` | `ImplementsKeyValue`, `LeaseKept` |
| `persistence` | `ReplayRestores` |
| `wheel` | `NothingMissed`, `SweeperUnseen`, `DueIsEvicted` |
| `lifecycle` | `OnlySweeperRefused`, `ReturnsQuiet`, `ShutdownCompletes` |

The runs also check the type invariant of their module. Four further runs find
what the documentation says and the code does not do:

| run | the code |
|---|---|
| `reactor_no_line_lost` | drops the line at which reads are paused (`reactor.cpp:147`) |
| `reactor_handle_reuse` | gives the result of a closed connection to the next one with its handle (`reactor.cpp:195`) |
| `aof_torn_line` | appends to a line that a kill left unfinished (`aof_logger.cpp:19`) |
| `persistence_order` | logs SET and DEL after the shard's lock is released: with both in the file, in the wrong order, replay brings a deleted key back (`command.cpp:23`, `:51`) |

**Observations.** Seen in the source while modelling, in the model as the code
has them, and not the subject of a run: lines behind the one that pauses reads
wait in `read_buffer` until the client sends more (`reactor.cpp:145`);
connections paused at 90% are released while the queue is above 70%
(`reactor.cpp:64`, against `docs/architecture_decisions.md:329`); LPUSH appends
(`command.cpp:94`, `emplace_back`) where `README.md:308` says "Prepend value to
a list" and `command.h:71` "prepend to list", so that LRANGE returns the values
oldest first (`Store!LPush` appends; `KeyValue!LPush` allows either end, as code
and documents disagree); no command calls
`schedule`, so that in the running server the wheel is empty, and deleted or
expired entries keep their memory until the key is set again; replay executes
the fragment that a kill may leave at the end of the file
(`server_builder.cpp:52`), which can change a key that the command it was cut
from did not name.

**Bounds.** `pool`: three workers, so that one sleeps, one runs and one wakes; a
queue of two with four tasks, so that it fills, rejects and refills.
`reactor_connections`: two handles and three connections, so that a handle is
reused next to a live one; a depth of one, so that every second line pauses.
`reactor_pipeline`: depth two and four lines, so that results of two workers
and of the pipeline overtake each other, the limit is met and a line waits in
the kernel meanwhile; a queue of one, so that both backpressure rules bite; no
symmetry, as liveness is checked too.
`aof`: three commands in a run put two in one buffer and one in the other; two
runs let the second append to what the first left. `Readings` has a command and
something that does not parse. `store_commands`: two keys,
fields and values; indices -3..2 on lists of at most two elements go past both
ends; TTLs -1, 0 and 1, a default TTL of 2 and two seconds let entries of every
type expire. `persistence`: three entries are what it takes for a change, its
reversal and one more of the same or the other key, also for a fragment, the line
joined to it and one more, and three runs for a replay of what was logged after a
replay. One value keeps the run within reach: contents still differ by type, TTL
and length, and the proof covers any number of values. Two seconds let entries
with the default TTL of 2 expire too. Readings are a DEL of either key, or nothing
that parses. States that differ in the last reply only are counted as one
(`WithoutReply`). `wheel`: three buckets and six seconds, so
that the wheel comes round and an entry a whole turn ahead exists; one key,
whose entry may be on the wheel twice. `lifecycle`: two workers and three
writes, so that one is queued while both execute. Counters that would grow for ever (lines, dials, logged commands,
runs, seconds, list length) are bounded by the constants commented `bound`.

**Fairness.** The reactor's loop goes on: its poll waits 100 ms at most and its
sockets do not block. Each worker that is not waiting goes on; a waiting one
only when notified, so a lost wake-up would show. Commands return, since they
take one lock and no other. The flush thread's wait times out after a second;
a shutdown that has begun goes on. The sweeper's sleeps end, and it comes back
to the test of its flag; the clock goes on (in `wheel`, as far as the bound on
time lets it, and `DueIsEvicted` is stated for seconds early enough). Nothing is assumed of clients, nor that
anyone stops the server. The fairness of `TaskPool` that `Reactor` uses is a
consequence of the one of `WorkerPool`, checked by `ImplementsTaskPool`.
`WorkerPool` and `Reactor` cannot deadlock: their only final states are the
ones in which shutdown, or the reactor, has returned (`Terminated`).

## What is proved

Every theorem is about the specification that TLC checks, and holds for all
values of its constants that satisfy the assumptions of the modules, which TLC
evaluates on every run: sizes, limits and bounds are numbers, positive where the
code has them so (`PoolAssumption`, `WorkerPoolAssumption`, `ReactorAssumption`,
`AofAssumption`, `StoreAssumption`, `WheelAssumption`); the sets of sockets and
workers are finite; "no task" and "not a number" are not a task and not a number
(`TaskAssumption`, `LifecycleAssumption`, `CommandsAssumption`); and the lines
clients send, and what torn lines read as, use keys, fields and values that there
are (`PersistenceAssumption`).

**WorkerPool.** `TypeInv` ties where a worker is to whether it has a task, and
adds that a worker leaves only when the queue is empty and the pool stopped.

- `ExactlyOnceHolds`: `OnceInv` adds that what was accepted was offered, so that
  a task that is pushed is new. The proof counts nothing: it follows the tasks as
  sets, in the queue, at workers, completed and drained, which stay disjoint.
- `JoinedMeansDoneHolds` follows from it and from what workers that left saw.
- `WorkConservingHolds`: `Conserved` counts the notification that `submit` still
  owes and the workers that are awake against the tasks in the queue.
- `PoolRefinesTaskPool`: each critical section is a step of `TaskPool`, or none.

**Reactor.**

- `TypeCorrect`: `TypeOK` is not inductive: `HandleRead` enters the loop over
  lines with a `client` that must stay connected, and `StampLine` uses a `line`
  that must be there. `ControlInv` ties `client`, `line` and `revents` to `pc`,
  and `TypeInv == TypeOK /\ ControlInv` is inductive.
- `NeverBusyHolds`: between the 90% test and the submit only workers touch the
  queue, and they only shorten it; `RoomInv` carries the test over those steps.
- `PausedAreConnectedHolds`, `ConnectionCountHolds`: over every path that closes
  a connection, with the cardinality of the connection table.
- `PausedIsNotReadHolds`: `ReadInv` says that a socket with a read event
  pending is not paused, because only its own read, after which the event is
  gone, can pause it.
- `WritesArePolledHolds`.
- `ResponsesInOrderHolds`: `OrderInv` says that everything under way for a sound
  connection, in the queue, at a worker, completed, drained or parked, is
  faithful to the line stamped with its sequence number, and that a handle that
  is not connected or was reused cleanly has nothing of an earlier connection
  under way. Reassembly then appends answers at consecutive positions only.
- `NothingForgottenHolds`: `FlowInv` says that `in_flight_requests` is the
  distance of the two sequence counters, and that every number between them has
  exactly one holder, every other number none. A step of the pool or of the
  drain moves the holder of a number; only stamping adds one, and only
  reassembly removes one.
- `PipelineDepthRespectedHolds`: `DepthInv` carries the test of `TakeLine` to
  `StampLine`, between which nothing stamps another line.

**AofLogger.** `ControlInv` says which thread may write in which phase and what
is then empty; without it the two writers, flush thread and `shutdown`, could
not be told apart.

- `LoggedInOrderHolds`, `ShutdownIsDurableHolds`, `KillLosesSuffixHolds`:
  `LogInv` says that file, stream, the rest of the buffer being written and the
  active buffer are together what was logged, or a prefix of it once a write has
  failed. A spill, a swap and a write only move commands along that sequence.
- `AofRefinesCommandLog`: every step maps to a step of `CommandLog`, the disk
  that gives out, the kill inside a line and the join of the next line included.
  It needs that `contents` and `file` are of one length (`TypeOK`) and that a
  stream with a part of a line in the file still holds that line (`ControlInv`).

**Store.** `TypeOK` is inductive by itself.

- `LeaseKeptHolds`: for every command and step of the sweeper.
- `StoreRefinesKeyValue`: each command is the command of the abstract map, an
  eviction changes nothing in it, and a second that passes takes away exactly the
  keys whose deadline it is. `SliceIsRange` proves the
  clamping of LRANGE right for all indices and lengths.

**Commands and Persistence.**

- `RoundTrip`: parsing what a logged command was serialized to gives the command
  back.
- `PersistenceTypeCorrect`: `FileInv` adds that during replay nothing waits, the
  log is the file and no entry has aged, and that changes that wait are those of
  SET, DEL and the sweeper.
- `ReplayRestoresHolds`: `Content` is what a restart keeps of a key, its value
  and TTL, and `Apply` what a line makes of it. `Trace(f, es, n, k)` says that f
  is the content of key k after each of the first n lines of es, and `ReplayInv`
  that the log explains the store, key by key: while the server is up, a key that
  is not excused has the content its last waiting change gives it, or that of the
  end of its trace if none waits; during replay it has that of its trace at
  `position`, while what it was at the kill is the end of the trace. Key by key,
  because a torn line makes the log wrong for the keys it names and leaves the
  traces of all others as they were: a crash cuts off lines, or replaces one, and
  a join makes two lines one, that have nothing to do with them (`SaysBefore`,
  `SaysJoined`). Logging out of order is harmless unless both changes are of one
  key, because a SET or DEL forgets what was there (`ApplyOverwrites`); an LPUSH
  or HSET does on replay what it did at first as long as it meets a live key in
  both cases or in neither (`FreshWhenUp`, `FreshOnReplay`). That is where the
  excuses are needed, each once. Traces are quantified in the invariant, and
  extended or cut by a step, so that no induction over the log is needed.

**TimingWheel.**

- `WheelTypeCorrect`: `WheelControl` keeps the tick behind the clock.
- `SweeperUnseenHolds`: the second look at the entry, under the lock, is enough.
- `NothingMissedHolds`: `DueInv` says of each key that is due where its entry
  is: in the bucket of its second, which the sweeper has not passed, or among
  those taken. `SameBucket` is the arithmetic: two seconds of one turn with the
  same bucket are the same second.

**Lifecycle.** `PhaseInv` says which threads have ended by which statement of
`build_and_run`, `TaskInv` where each submitted task is; `OnlySweeperRefusedHolds`
and `ReturnsQuietHolds` follow.

Only model-checked, being out of the prover's reach: what must eventually happen
(`AcceptedCompletes`, both `ShutdownReturns`, `StampedIsAnswered`, `StopReturns`,
`LoggedReachesFile`, `DueIsEvicted`, `ShutdownCompletes`), and that the fairness
of `WorkerPool` gives that of `TaskPool` (the rest of `ImplementsTaskPool`).

## What is not modelled

Socket set-up beyond its failure, and errors of `WSAPoll` (no state changes but
a further turn of the loop); the bytes of lines and replies; `last_accessed`;
unreachable code of the rate limiter; statistics accessors; the setters of the builder. A second
concurrent call of `WorkerPool::shutdown` (the program makes none).

- The arena's byte counts: all the rest of the program sees of them is whether
  an allocation is refused, and `Store` lets any be refused.
- The router and its hash: a function of the key alone. No command touches two
  keys, so nothing depends on which keys share a shard.
- The pub/sub broker: no part of the program creates one.

## Plan

Done: every part that the running server uses is modelled, and every safety
property of a passing run is proved. Next:

1. What narrows the excuses of `ReplayRestores`: that a server with one worker,
   whose sweeper never runs, logs nothing out of order.
2. Shorter proofs: the lemmas on sequences that several proof modules have in
   common, in one place.

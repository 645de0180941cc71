# Models and proofs of the 6.5840 labs

TLA+ models of the finished parts of this repository, model-checked with TLC on
small instances, and proofs, checked with TLAPS, of the properties that matter
most. The Go code is under `src/src/`; paths below are relative to it.
`PROJECT.json` maps every definition to the lines it models.

## The system

| Part | Code | Module | What it does |
|---|---|---|---|
| key/value server | `kvsrv1/server.go`, `kvsrv1/rpc` | `KVServer` | versioned `Get` and `Put`, atomic under one mutex |
| clerk | `kvsrv1/client.go` | `KVClerk` | resends an RPC until `Call` returns true |
| linearizability model | `models1/kv.go` | `KVModel` | the sequential store a clerk should look like |
| lock | `kvsrv1/lock/lock.go` | `Lock` | spin lock on one key, over any clerk |
| workloads | `kvtest1/kvtest.go` | `KVTest` | clients that put, put at least once or append, their done signals, the checks of the result |
| Raft's test harness | `raft1/server.go`, `raft1/test.go` | `RaftTest` | reads the apply channels, compares logs, takes snapshots, runs agreements |
| MapReduce | `mr/`, `main/mrcoordinator.go`, `main/mrworker.go` | `MapReduce` | coordinator, workers, time-outs, shared files |
| network, restarts | `labrpc/labrpc.go`, `tester1/{clnts,srv,persister,config}.go` | `Network` | calls, losses, deletion and restart of servers |
| connections of a group | `tester1/group.go`, `srv.go` | `ServerGrp` | connect, disconnect, partition |
| shard configurations | `shardkv1/shardcfg/shardcfg.go` | `ShardCfg` | join, leave, rebalance |

How they interact: a `Lock` calls a clerk; the clerk calls the server over the
network; the tester cuts connections and restarts servers while they do.
`KVClerk` contains the part of the network that a clerk can notice; `Network`
has the rest, with a service that only records which calls it has handled.
`KVClerk` implements `KVModel`, and `Lock` is written over `KVModel`, so what is
shown of the lock holds with any clerk that implements it. `KVTest`, too, is
written over `KVModel`: it asks whether a right store passes the tests.
`RaftTest` asks the same of a Raft, and whether a wrong one is caught; the
restarts it has are those of `Network`, seen from the test.

### Not modelled

What is left has no state of its own, or nothing written yet to be modelled:

- Raft, `kvraft1`, the shard groups, clerk and controller: lab skeletons, whose
  methods have no body or return constants. `RaftTest` has Raft as an external
  part, in a correct and in a wrong kind.
- The test drivers of `kvraft1` and `shardkv1`: they call those skeletons. What
  they share with the other tests (workloads, restarts, partitions) is in
  `KVTest`, `Network` and `ServerGrp`.
- `Partitioner` (`kvtest.go:204-219`): its `switch` waits for the channel, so
  that it never repartitions, though its comment says it does so periodically.
  As written it does nothing to the group; `ServerGrp` has what it would do.
- `checkOneLeader`, `checkTerms` and `checkNoLeader` of `raft1/test.go`, which
  read a term and a flag of each server; `CheckGet`, `SpreadPuts` and the other
  sequential helpers of `kvtest1`; the operation log and Porcupine.
- The lock of the shard controller: `MakeLock` sets neither its key nor its
  identity, and nothing uses it.
- `labgob` (a wrapper of an encoder); the MapReduce applications (pure
  functions, constants of `MapReduce`); the old mains, which do not build.

`PROJECT.json` lists each with its files.

## Modules

**KVServer** has no variables: it defines what `Get` and `Put` answer and what
they make of the map; `Empty` is `""`, the zero value of a string. **KVModel** extends it to an abstract specification: a
call is invoked, takes effect at one instant, returns. It follows
`KvModel.Step`, with two refinements: a `Get` also reports the version, and a
`Put` on an absent key with a version other than 0 reports `ErrNoKey`, as the
server (`server.go:73-75`) and its test do. `KvModel.Step` (`models1/kv.go:59-63`)
would reject such an answer; the workloads of `kvsrv1` that are checked with it
do not provoke one.

**KVClerk**: one element of `Op` is one invocation of `Clerk.Get` or
`Clerk.Put`. `Dispatch`, `Handle`, `Abandon`, `LoseRequest` and `LoseReply` are
what `processReq` may do to its RPC, `HandleLate` is a handler that runs after
its `Call` has returned false, `Return` the end of the resend loop. `applied`,
`lin` and `abandoned` (some `Call` has returned before its handler did) are
history variables.

**Lock**: `pc` says which call of `lock.go` a client is at; `Call`, `Effect` and
one action per return (`MakeLockGot`, `TryAcquirePut`, ...) run it. `lost` is
history: some call has returned `ErrMaybe`.

**KVTest**: `Init` chooses the workload and whether the network loses answers.
`pc` is the place of a client in its loop, `main` that of
`SpawnClientsAndWait`. In the third workload a client calls `PutAtLeastOnce`
again and again, each time from the version after the one it returned, as the
tests of `kvraft1` do. `fatal` is the check that called `Fatalf`: the clients'
own, `CheckPutConcurrent` or `CheckAppends`.

**MapReduce**: one action per RPC handler of the coordinator, `Done` with its
time-outs, one per iteration of the writing loops of a worker, and the crash of
a worker. `Heartbeat` takes no lock and is two steps: `hb` is the array of
`c.workers` it loaded, which `append` may have replaced when it stores. A file
is the set or the bag of its lines.

**Network**: a call goes through `Start`, `Read`, `Dispatch`, `Handle`,
`Receive` or `GiveUp`, `Check`, `Reply`. A restart is `DeleteServer`,
`ShutdownServer`, `StartServer`, `AddServer`, each a step, with calls in
between. An old instance keeps its Persister and its handlers go on.

**RaftTest**: `ApplyCommand`, `IngestSnap` and `Snapshot` are the goroutine of a
server that reads the apply channel (`applier`, or `applierSnap` if `snapshot`);
`Snapshot` is a step of its own, as `applierSnap` releases its lock before it calls
Raft. `Kill` and `StartServer` are the tester's, `ApplyLate` the message that a
killed Raft was about to deliver. `OneCall` to `WaitReturns` are the test
goroutine in `one` and `wait`. `Init` chooses whether Raft is correct: then
`Commit` extends one log, and each server is given that log in order; if not,
it is given any command at any index. `stale` is history.

**ServerGrp**: `Connect` and `Disconnect` transform the ends and flags as the
methods do, including the test of `IsConnected(j)` for the index `j` rather
than for the server `to[j]` (`group.go:161`). `fresh` and `apart` are history.

**ShardCfg**: `JoinBalance` and `LeaveBalance`, with each loop of `Rebalance` one
iteration at a time.

## Runs

| Run | Instance | Shows |
|---|---|---|
| `KVClerk` | 2 invocations, 1 key, versions 0-2, losses, 1 abandoned handler each | at most once; answers are true; versions count writes; calls return; until a handler is abandoned the clerk implements `KVModel` |
| `Lock_unreliable` | 2 clients, 2 rounds, `ErrMaybe` possible | mutual exclusion; `Release` takes effect; until an answer is lost, no lock without an owner and `Acquire` returns |
| `Lock_lost_reply` | 2 clients, `ErrMaybe` possible | **violated**: `Acquire` may spin for ever |
| `KVTest` | 2 clients, 2 iterations, three workloads | a right store passes the checks, lost answers or not; no append is lost; no version runs ahead of the key; the test ends |
| `MapReduce_timeouts` | 3 workers, 2 inputs, 2 parts, 2 slow attempts | one current attempt per task; inputs reduced once; output complete and stable |
| `MapReduce_recovery` | 3 workers, 1 crash | the job gets done; the coordinator exits unless a worker died |
| `MapReduce_bad_output` | 2 workers, 1 crash in a reduce task | **violated**: a key appears twice in the output |
| `MapReduce_crash_exit` | 2 workers, 1 crash | **violated**: the coordinator never exits |
| `Network` | 2 clients, 2 calls, 1 server, 3 instances | acknowledged updates survive; old instances are harmless; no caller is stuck |
| `RaftTest` | 3 servers, 2 commands, 2 indices, 2 kills | disagreement is caught; a correct Raft is not blamed; what is returned or saved was agreed on |
| `ServerGrp` | 3 servers, any order of operations | connected servers can talk, partitions hold |
| `ShardCfg` | 5 shards, 4 groups, 4 operations | balanced, minimal, terminating |

### The disagreements

- **Lock.** `tryAcquire` takes `ErrMaybe` for a failure (`lock.go:68`). If the
  `Put` was applied, the key stays `"1"` and nobody releases it.
- **MapReduce output.** All attempts at a reduce task append to one temporary
  file (`worker.go:160`); a dead attempt's lines stay in it.
- **MapReduce exit.** `Done` waits for each worker that ever registered
  (`coordinator.go:237`), and a dead one never says that it leaves.

Each is a finding in `PROJECT.json`, with the line of a test or comment that
says otherwise.

### What holds only in part

- `Linearizable`, and that `ErrNoKey` means "not performed" in `ResultIsTrue`,
  hold until a handler is abandoned: one that runs on after its `Call` returned
  may apply a `Put` after the clerk has answered. The properties say so by
  `abandoned`. `kvsrv1`'s tests do not disconnect.
- `NoFalseAlarm` excepts `stale`: `checkLogs` records in `ts.srvs[i]`
  (`test.go:114`), so a message that a killed Raft still delivers goes into the
  log of the next instance, which then looks out of order.
- After an apply error `log.Fatalf` ends the process, so `RaftTest` stops there;
  the comment that the appliers keep reading "so that Raft doesn't block"
  (`server.go:102-103`) does not come into play.
- `MapReduce_recovery` has `LateRegister = FALSE`. If workers register when the
  job is over, the unlocked write of `Heartbeat` (`coordinator.go:282`) can be
  lost and the coordinator then waits for ever.
- The same run has no slow attempts. An overdue reduce attempt that still runs
  can remove or rename the temporary file of its replacement, whose `TaskDone`
  then reports an error; the coordinator exits with an output missing.
- `AcquireReturnsUnlessLost` counts on others acquiring a bounded number of
  times: `Acquire` is not fair and a client may lose every race.
- `KVTest` lets the test stop the clients once one of them has finished an
  iteration. If the sleep were shorter, `CheckPutConcurrent` would find no key.
  Nothing calls `OneClientAppend` yet; it starts from an empty list at version 1,
  which is what `CheckAppends` presupposes by `len(es)+1 = ver`.
- `ServerGrp` is checked for an odd number of servers, as the tests have. With
  an even number `MakePartition` makes one place too many, which names server 0.
- A server that is off the net can still be called by one that was connected
  after it went: `connect` enables all outgoing ends (`group.go:157`).
  `DisconnectedIsSilent` is about what it sends.

### Bounds

Each is a constant or a guard, named in its module. Two invocations are
enough for a late handler that overtakes, and for a `Put` and its resend with a
call in between. One client contends while the other owns the lock; a second
round reuses `lk.version`. The second iteration in `KVTest` follows one that may
have been skipped; `MaxLost` = 4 is above any version the key reaches, so every
`PutAtLeastOnce` may lose its answer at each version. With three servers and two
kills `RaftTest` has a server killed twice or two at a time, one of which is
given the snapshot of the third; index 2 is the first with a predecessor, and
a snapshot every 2 commands falls between the two. Three workers are the least for an attempt, its
replacement and a third worker that reads while both finish; the inputs share a
key, and one part has one input only. Three instances give two
restarts, so that handlers of two old instances overlap. Five shards are
divided unevenly by 2, 3 and 4 groups. Versions are natural numbers: the code's
`uint64` wraps only after 2^64 writes.

`CHECK_DEADLOCK FALSE` stands where a system ends: all invocations returned,
all rounds played, the test over, the coordinator exited, the last configuration
made.

### Fairness

- `KVClerk`: goroutines run; a request sent again and again is dispatched and a
  reply arrives (strong fairness), as each is dropped with probability 1/10 and
  independently, and the tester enables ends again.
- `Lock`: clients run, calls return, a user that holds the lock releases it.
- `KVTest`: clients run, calls return, the sleep ends.
- `MapReduce`: live workers run; heartbeats and `Done` come every second; an
  attempt whose worker died is overdue in the end.
- `Network`: only `processReq` runs. Handlers and the tester promise nothing.
- `ShardCfg`: a loop that has started goes on.
- `RaftTest` and `ServerGrp` have safety properties only.

## Proofs

For every value of the constants: any number of invocations, keys, clients,
workers, inputs, servers, restarts, shards and groups.

`KVClerkProofs`
- `TypeCorrect`: `TypeOK`.
- `PutAtMostOnce`, `ResultsTrue`: from the inductive invariant `CallInv`. "At
  most once" is not inductive alone: `AppliedInv` adds that the key's version
  has passed that of an applied `Put`, so another copy is refused; `FreshInv`
  that a `Put` not resent has no copy about; `AnswerInv` relates an answer on
  its way to whether the `Put` was applied.
- `WritesCounted`: the accepted `Put`s of a key have the versions below its
  current one, each once.
- `ClerkImplementsKVModel`: until a handler is abandoned `Spec` implements
  `KVModel`. `LinInv` relates `lin`, the answer that counts, to `applied` and to
  the reply; each action maps to a step of `KVModel` or to a stutter.

`LockProofs`
- `TypeCorrect`, and `LockInvariant`: the owner's `lk.version` is the version of
  the key, so nobody else's `Put` succeeds; and a client about to write `"1"` has
  read another value at the version it will write at, so if the key still has
  that version nobody owns the lock. Mutual exclusion alone says neither.
- `MutuallyExclusive`, `ReleaseEffective` and `NoOrphans` (until an answer is
  lost) follow from it.

`KVTestProofs`
- `NeverAheadAlways`: an answer of the store bounds the key's version from below,
  a `Get` by what it read, a `Put` by the version after its own whether it was
  accepted or refused (`Bounded`); so a client may raise its version after any
  answer, lost ones included.
- `AllChecksPass` for the puts: the version of the key is the number of `Put`s that
  the clients have counted or are about to count (`Counted`), or less where an
  `ErrMaybe` stood for a `Put` that was refused; and the value of the key is that
  of the `Put` at the version before (`Matches`). The sum in `CheckPutConcurrent`
  grows with its terms (`SumRuns`).
- `AppendsAreKept`, and `AllChecksPass` for the appends: what a client has read, is
  about to write or will be told is the list as long as the key has the version
  that came with it (`Current`). So a `Put` that is accepted extends the list, and
  the numbers of a client's entries rise, are as many as its `OK`s or more, and
  stay below its iteration (`Keeps`). `Found` is the invariant of the loop of
  `CheckAppends`: the numbers skipped and those found make up what it expects.
- `EveryClientTold`: a done signal is sent only while a client is left to receive
  it, and results are collected when each has received one. It is the safety part
  of `SpawnReturns`; as many clients have returned as signals were received
  (`Signals`).

`MapReduceProofs`, from one invariant `Inv`
- `TypeCorrect`, `AlwaysOneAttempt`, `AlwaysMapsCounted`, `MapExactlyOnce`,
  `OutputAtShutdown`, `ExactUnlessRetried`, and the action property `OutputStays`.
- `Held`: no two workers have the same attempt. `OneLive`: each piece of work has
  one attempt that is not overdue; with it an overdue attempt that reports late
  is told apart from the current one. `Work`: the attempts are one per input and,
  after the map phase, one per part that has lines. `Counted`, `Reduced`: the two
  counters are the numbers of unmapped inputs and of parts without an output, so
  a phase ends when its work does. `Lines`: `m-out-*` has the lines of the
  completed attempts and no others. `Settled`: when the coordinator stops
  polling, no attempt is left that would change a file.

`NetworkProofs`
- `TypeCorrect`, `AckedPersisted`, `OldHarmless`: from `Inv`. `Numbered` says that
  the instance behind a name is the last one and that each instance's Persister is
  its own, so old handlers write elsewhere; `InStep` that the last instance's
  memory is what is saved; `Handled` that a call whose server was alive after its
  handler returned is in the state that survives. The look at the server
  (`labrpc.go:283`) is where an instance, its handler's answer and the saved
  state meet.
- `EndsFollow`: inductive as it stands.

`RaftTestProofs`
- `DisagreementIsCaught`, for any Raft: `checkLogs` compares logs only, so the
  invariant `AgreeInv` adds that a server's log holds all of its snapshot
  (`Held`) and where its Raft stands (`Position`).
- `NeverFalseAlarm`, `ReturnsCommitted`, `SnapshotsPrefixes`, for a correct Raft:
  logs and snapshots hold what was agreed on, and a log holds everything its
  Raft has delivered (`LogsTrue`), so that no entry lacks its predecessor.

`ServerGrpProofs`
- `ConnectedTalk`, `PartitionsHold`, `DisconnectedAreSilent`, for groups of any size,
  where those of an odd size may be partitioned: with the types the three are
  inductive together (`GrpInv`). The work is in the loops: what a turn of `connect`,
  `disconnect` or the loops around them keeps holds after all turns (`Turns`).

`ShardCfgProofs`
- `AlwaysBalanced`: the first loop leaves only shards with a member behind it
  (`Assigned`), the second ends when the fullest and the emptiest group differ
  by one at most.
- `OnlyNeededMoves`: while `Rebalance` runs, a group is two shards ahead of
  another only if it is old and the other new (`Gap`). The groups were balanced
  before, and both loops give to the emptiest; so a move is from an old group to
  a new one.
- `RebalanceTurnsBounded`: each turn of the two loops lowers `TurnsLeft`, the shards
  yet to be looked at and those that may yet move. It is the safety part of
  `RebalanceReturns`: a move takes a shard from an old group to a new one, so no
  shard moves twice.
- `OneGroupPerServer`: inductive as it stands.

Loops over clients, servers and lists are recursive functions in the modules. The
induction theorems of the library cannot be used, as they take an operator; the
proofs use sets instead. A set of numbers that has 0 and with each number the next
has them all (`Ind`), because `<` is well founded, a fact of the library that takes
no operator; from it follow that a loop's function exists (`Loop`) and that what
each turn keeps holds at the end (`Turns`).

The assumptions are those named in the modules (`SettingAssumption`,
`LockAssumption`, ...), which give constants their types; `MapReduce` also assumes
that the inputs are distinct and the keys finite.

Only model-checked is liveness (`EveryCallReturns`, `AcquireReturnsUnlessLost`,
`SpawnReturns`, `JobGetsDone`, `CoordinatorStopsUnlessCrash`,
`CallToDeletedReturns`, `RebalanceReturns`), as the prover does not do fairness and
`ENABLED`. Every invariant and action property that a run finds to hold has a
theorem.

## Plan

1. The lock of the shard controller over `KVModel`, once it has an identity.
2. `Network` and `ServerGrp` composed, calls between the servers of a group.
3. Raft, `kvraft1` and the shard groups as they get written; the correct Raft of
   `RaftTest` is then the specification they implement.

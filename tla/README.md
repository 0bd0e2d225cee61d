# A TLA+ development of flowgre

flowgre is a command-line tool that generates, relays, records and replays
NetFlow v9 and IPFIX traffic. This directory holds TLA+ modules translated from
its Go sources, TLC configurations that check them on small instances, and
TLAPS proofs for every instance. `PROJECT.json` maps every definition to the
lines it translates and lists the runs, mutants, hazards and theorems.

## 1. Inventory

### Components, their state, operations and interactions

| component (source) | state it keeps | operations | talks to |
|---|---|---|---|
| record (`record/record.go`) | two buffered channels, the badger database, the next key | `runNetIngest`, `runParseFlow`, `runDBIngest`, `nextRecordID`, `RunCtx` | UDP socket, badger, errgroup, context |
| proxy (`proxy/proxy.go`) | `2 + n` buffered channels, two counters | `runProxyListener`, `runParseNetflow`, `runReplicator`, `runWorker` per target, `runStatsPrinter`, `RunCtx` | UDP sockets, errgroup, context |
| replay (`replay/replay.go`) | one buffered channel, an iterator | `dbReader`, `worker` pool, `RunCtx` | badger (read only), UDP, errgroup |
| barrage (`barrage/barrage.go`) | per-worker counters, one WaitGroup, one statistics channel | `StartCtx`, `worker`, `RunCtx` | collector, UDP, WaitGroup, context |
| statistics collector (`stats/collector.go`) | `StatsMap`, `StatsTotals`, `History` under one lock | `Run`, `appendSnapshot`, `Stop`; `StatsHandler`, `HistoryHandler`, `DashboardHandler` | barrage workers, web server |
| flow generators (`barrage/generator.go`, `netflow`, `ipfix`) | one generator per worker with a sequence counter | `Template`, `Data`, `Options`, `ForWorker`, `Reserve`, `NextSeq` | barrage workers, single |
| validators (`netflow.IsValidNetFlow`, `ipfix.IsValidIPFIX`) | none | walk the sets of a packet | the parsers of record and proxy |
| lifecycle (`lifecycle/lifecycle.go`) | a context, a channel of one signal, whether signals are caught | `New`, `SetupSignalHandler` and its goroutine, `Cancel`, `Wait` | every command but `ipfix` |
| barrage command and web server (`cmd/barrage.go`, `web/web.go`) | one HTTP server | start, listen, serve, fail, shut down with the context | barrage's WaitGroup, collector, lifecycle |
| configuration (`config/`, validators in `cmd/barrage.go` and `web/web.go`) | the settings of one run | load YAML, validate | the commands; the pipelines trust it |
| front ends (`main.go`, `cmd/`), `single` | place, exit code | dispatch, parse, load, validate, set up, run, exit | all of the above |
| address ranges and random values (`utils/`) | none | random address in a CIDR, send | generators |

The five pipelines are independent programs (one per sub-command) of the same
shape: goroutines joined by buffered channels, ended by a context. `record` and
`proxy` share the UDP receive loop; `record`, `proxy` and `replay` run under an
errgroup, whose first error cancels the rest; `barrage` uses a bare WaitGroup
and has no such link between its workers.

### What is hard here, and what correct means

* **record** blocks when it is slow, so nothing valid is dropped on a live
  context; keys are 32 bits, contiguous over every run; a crash, a failed write
  or the end of the key space must not overwrite, lose or reorder a record.
* **proxy** drops when it is slow: no target may hold up another, a drop happens
  only when a buffer is full, nobody sees a packet twice or out of order, and
  the error of any goroutine must end all of them.
* **the receive loop** blocks up to five seconds in a read; the wake-up a
  cancellation sends can be overwritten by the loop's own deadline.
* **replay** closes its channel while workers are busy: everything buffered must
  still be sent, once, and `nil` may be returned only then.
* **barrage** has to close the statistics channel after its last sender, and to
  end at all: its workers' sends have no context case.
* **the generators** announce record layouts in one place and write the records in
  another, fix a set's length before its bytes exist, and number packets that may
  then fail; every stream must be numbered without gaps and readable by itself.
* **the collector** receives cumulative counters and must neither count them
  twice nor lose one, and never show totals and workers that disagree, although
  its handlers write their responses without the lock.
* **the lifecycle** must not lose a signal that comes before its goroutine runs,
  and must go on catching signals until the context has ended.
* **the barrage command** joins workers, collector and web server by one WaitGroup
  and one context; a web server that cannot listen must neither stop nor hold up
  the others, and the command must return only after all of them.
* **the front ends** let settings from flags and YAML through validators in four
  files; behind them wait panics and silent refusals.

The hazards in `PROJECT.json` give each of these the line where it bites.

## 2. Modules

| module | models | how |
|---|---|---|
| `Errgroup` | `golang.org/x/sync/errgroup` (external) | `alive`, `firstErr`, `cancelled`, `parentDone`; `Return`, `Fail`, `ParentCancel` |
| `UDPListener` | `runNetIngest` = `runProxyListener` up to the hand-off | one step per statement that another goroutine can observe: bind, context check, `SetReadDeadline`, read, and the AfterFunc as a step of its own |
| `Record` | record's three goroutines, badger, crashes and restarts | one action per select outcome; the database is a function from keys to packets |
| `RecordLog` | what record promises | an append-only log whose entries grow; `Record` refines it (`ImplementsLog`) |
| `Record_proofs` | theorems about `Record` | see section 5 |
| `Proxy` | proxy's goroutines and its drops | every three-way select is an action with its three outcomes; a worker takes a packet and sends it in two steps |
| `LossyRelay` | what proxy promises a target | a relay that may lose, never invents, repeats or reorders; `Proxy` refines it (`ImplementsRelay`) |
| `Proxy_proofs` | theorems about `Proxy` | see section 5 |
| `Replay` | reader, worker pool, the channel's close, `--loop`, `--updatets` | the database is `1..numRecords`, chosen initially, one record possibly of a version without a timestamp updater |
| `Replay_proofs` | theorems about `Replay` | see section 5 |
| `StatsCollector` | `Collector.Run`, `appendSnapshot`, `Stop` | receive and locked update are two steps, so what a reader sees in between is a state |
| `StatsHandlers` | the three HTTP handlers, beside `StatsCollector` | copying under the lock and writing the response are two steps; one client polls in turn |
| `Barrage` | `StartCtx`, `worker`, `RunCtx`, on top of `StatsCollector` | adds the workers' places, the WaitGroup counter and `RunCtx`'s place |
| `Lifecycle` | `lifecycle.Manager` | the handler's goroutine step by step; `signal.Notify` as a send that drops, the default disposition as `killed`; no `Next` of its own, two modules compose it |
| `BarrageCommand` | `Execute` from `lifecycle.New` on, `RunWebServer` | composes `Lifecycle` and `Barrage` and adds `Execute`'s place, the web server and its listener; refines `Barrage` (`ImplementsBarrage`) with the web server taken out of the WaitGroup |
| `Barrage_proofs` | theorems about `StatsCollector`, `StatsHandlers`, `Barrage` and `BarrageCommand` | see section 5 |
| `Configuration` | `LoadBarrageConfig`, the validators, and apart from them what the pipelines assume | pure operators; `Valid` follows the validators, `Runnable` the lines of the pipelines that rely on them, with products of `time.Duration` that wrap |
| `Commands` | `main` and every `Execute`/`Run` of `cmd/`, `single.Run` | composes `Lifecycle` and `Configuration`; one step per stage, the pipeline is a step that returns, fails or panics; a barrage may lose goroutines before (`BarrageLoses`) |
| `Commands_proofs` | theorems about `Commands` and `Configuration` | see section 5 |
| `IPFIXValidator` | `IsValidIPFIX` and the two record validators | the nested walks as a step machine; a 16-bit word of the packet is chosen when it is read |
| `IPFIXValidator_proofs` | theorems about `IPFIXValidator` | see section 5 |
| `NetFlowValidator` | `IsValidNetFlow`, `countDataRecordsRange` | the same manner of walk; adds the map of record sizes, deferred Data FlowSets and the range of counts |
| `NetFlowValidator_proofs` | theorems about `NetFlowValidator` | see section 5 |
| `FlowLayout` | template fields, record structs, sets with their lengths and padding of `netflow` and `ipfix` | a field is what it carries and its bytes; a set is the Length put into it and the bytes written for it |
| `Exporter` | the generators with their sequence counters, as workers, `single`, `ipfix` and direct callers use them | making a packet, which takes its number, and sending it are two steps; a command is a choice in `Init` |
| `Exporter_proofs` | theorems about `Exporter` | see section 5 |
| `MC*` | instances | constant values are in the `.cfg` files |

A packet is its arrival number; whether it is a valid flow packet (`flows`) is
decided by the environment when it arrives. A channel is a sequence with a
capacity; a send without room is a disabled action, a `default` branch an action
guarded by the lack of room. A `select` is one action per ready case, so every
choice Go may make is explored. Wherever a call may fail (bind, read, write,
send, open) its failure is a disjunct.

Goroutine places (`lpc`, `ppc`, `wpc`, ...) are named after what the goroutine
waits for; the statements between two waits that touch only local state are one
step. Mutants (`DeliverOrDrop`, `NextRecordIDFromLast`, ...) stand before the
definition they change; no specification uses them. Each shows that a property
would notice a plausible bug.

## 3. Runs

| run | shows | bounds |
|---|---|---|
| `record` | an append-only, gap-free, ordered database over every interleaving, failure, crash and restart; `Record` implements `RecordLog`; a cancelled recorder ends; on a live context a valid packet is stored | 4 packets, capacities 2 and 1, 3 keys |
| `proxy` | order, no duplicates, drops only when full, counters, no silent exit; `Proxy` implements `LossyRelay`; no stage is held up by a worker that takes nothing; after a cancellation or any error all leave for good, but for workers whose send does not return | 2 packets, 2 targets, capacity 1 |
| `replay` | nothing lost or repeated within a pass; a clean end of a single pass has sent every record once; the replay ends unless it is to loop | up to 3 records, 2 passes, 2 workers, capacity 2, both values of `--loop` and `--updatets` |
| `collector` | every response adds up, a polling client never sees totals or a worker's counters run backwards, the history is in order; a stopped collector has applied every report | 2 workers, 3 flows each, history 2, capacity 2 |
| `barrage` | the WaitGroup is exact, no report is lost in flight; every packet sent is eventually shown; a cancellation ends in a return or in the state of section 6 | 2 workers, 3 flows each, capacity 2, templates on |
| `barrage_command` | `Execute` returns after workers, collector and web server, with nothing listening; only a signal or that return ends the context; a signal ends the process; the command implements `Barrage` | 2 workers, 2 flows each, 1 signal, web server on and off |
| `commands` | no validated pipeline starts with settings in range that it cannot run; a signal kills only after the context has ended | every subcommand, settings and files up to two changes away from good ones, 2 signals |
| `web_address` | refutes "IP address the web server will listen on (IPv4 or IPv6)" | as `commands` |
| `barrage_shutdown_hangs` | refutes "Cancelling ctx stops all workers cleanly" | as `barrage`, templates off |
| `ipfix_validator` | on every packet the walk reads inside the payload, moves forward, ends, and accepts only messages that header and Sets cover to the byte | payloads of 0 and 15..34 bytes; 16-bit words by class |
| `netflow_validator` | reads as above; a well-formed packet is accepted exactly when some choice of paddings explains the header's record count | payloads of 0 and 19..42 bytes, two template IDs, field lengths 1, 2 and 5, counts up to 4 |
| `exporter` | each stream is numbered without gap or repetition; every packet's lengths and counts are true and its records read back by the templates sent before | 4 packets per sender, 2 workers, modulus 4, every profile |

**Why the bounds are enough.** 1024 slots stand for "may be full or not": with
more packets than slots every send is explored with room, without it, and with
the last slot. `MaxKey` stands for 2^32 - 1; with more packets than keys the key
space runs out in a run and before a restart. `MaxHistory = 2` stands for 300 and
is exceeded by the reports of one worker. Two targets, workers or records
are the least with interaction; three records and packets let one overtake. Flow
counts are a subset of the 5..24 a packet carries, since the collector only adds
them. `MaxPackets`, `MaxFlows`, `MaxRecords` and `MaxPasses` bound what the
environment offers and appear in guards of environment steps or in `Init`.

The validators never hold a packet: each read chooses its word among the
classes the code tells apart (the lengths and counts that matter at that size,
the version, an ID below and at 256, one with the enterprise bit). This is sound
because no byte is read twice, which `ReadsForward` checks. 34 bytes hold two Sets
and a record with an eight-byte specifier, so every bound check is met one byte
below, at, and one byte above its limit. 42 bytes hold a Data FlowSet, a template and
another Data FlowSet of the NetFlow form, or a repeated template before or after one;
fields of 1, 2 and 5 bytes give counts that padding leaves ambiguous and unambiguous.
`MaxFlowCount` stands for 65535 and is reached by the records of one FlowSet.

`Commands` starts from about 5800 invocations: a validator's checks are conjuncts on
one or two settings (an address and its credentials or certificate), so two changes
meet every pair of them. Integers are taken from both sides of each limit. `MaxInt = 524287`,
`MaxCounter = 32767`, `Millisecond = 4` and `Second = 4000` stand for 2^63 - 1, 2^31 - 1, 10^6 and
10^9: a delay or interval is below, at and above the last one whose product fits, above a
whole turn of the integers, where the product is positive again but wrong, and `MaxInt`
itself; workers are taken around the largest counter of a WaitGroup. `MaxSignals = 2`
is the first signal and one that finds the handler leaving or gone; in `barrage_command`
the second could only kill the process, which `commands` covers.

`Modulus` stands for 2^32 and is passed within four packets of either protocol. What
the generators compute is arithmetic on the number of records: a worker's 5 and 23
differ modulo 4, `single` and `ipfix` send 10, and a direct caller asks for no record,
one, and the numbers on both sides of each limit (885 and 886 generic, 1394 and 1395
extended, 3120 and 3121 minimal records in a set, 789 and 790 `ipfix` ones, and 788
beside a template). Only the workers run concurrently; the other commands have one
sender.

No run checks a type invariant: those of all state machines are proved (section 5).

**Deadlock.** `RunCtx` returns, so the models of a single run stop: their
configurations say `CHECK_DEADLOCK FALSE` (as those of the validators, which
return a verdict), and that they stop only when they
should is what the liveness properties are for. `Record` restarts and is checked
for deadlock.

## 4. Fairness

* A goroutine that can step eventually does (weak fairness per goroutine in
  `Record`, `Proxy`, `Replay`): Go's scheduler is preemptive. The goroutine that
  runs the AfterFunc's wake-up is one of them.
* A `select` that finds `ctx.Done()` ready again and again eventually picks it
  (strong fairness of `CollectorExit`, `WorkerExit` in `Barrage`): Go picks
  uniformly among ready cases. Properties of `Record` and `Proxy` do not need it,
  since the bounded input runs out.
* In `BarrageCommand` `Execute`, the handler and the web server are goroutines like
  the others; `srv.Shutdown` ends by its own timeout of five seconds. Nothing is
  assumed of the listener, which may serve for ever or fail, nor of signals.
* Blocked senders of a channel are queued first-in first-out (strong fairness of
  `WorkerReport`).
* The five-second timeout of a read eventually fires. Nothing is assumed of
  packets or socket errors, which may never come. The mutant `ReadWithoutDeadline`
  drops the timeout, and `ShutdownCompletes` of `Record` fails although the wake-up runs: the
  loop's own `SetReadDeadline` overwrites it. The timeout is what ends the read.
* `IPFIXValidator` is one sequential function, so it takes its next step.
* A worker of `Proxy` binds, and leaves its select when it can; nothing is assumed of
  its taking a packet, nor of its `SendPacket`, whose `WriteTo` has no deadline and sees no
  context. `OnlySendsHoldShutdown` and `NeverHeldUp` hold without them. A worker that takes nothing
  also makes two packets enough to find its channel full; behind one that is sending it would
  take three. `Replay`, `Barrage` and `Exporter` treat a UDP send as a step that returns.
* Nothing is assumed about ticks, the network or cancellation.

## 5. Proofs

Every safety invariant, action property and refinement that a passing run checks
is a theorem here, for every value of the constants that their assumptions allow;
so is the type invariant of every state machine. A run checks the property on
a small instance; the strengthening that makes it inductive is in the `_proofs` module.

| module | theorem | states |
|---|---|---|
| `Record_proofs` | `TypeCorrect`, `KeysAreContiguous`, `StopsOnlyForAReason`, `StoredIsAPrefix` | `TypeOK`, `KeysContiguous`, `StopsForAReason`, `StoredIsPrefix` |
| | `RecordsAreNeverOverwritten`, `RecordImplementsLog` | `NeverOverwritten`, `ImplementsLog` |
| `Proxy_proofs` | `TypeCorrect`, `CountsAreConsistent`, `StopsOnlyForAReason`, `BurstIsRelayed` | `TypeOK`, `CountsConsistent`, `StopsForAReason`, `BurstRelayed` |
| | `ProxyImplementsRelay` | `ImplementsRelay` |
| `Replay_proofs` | `TypeCorrect`, `EachRecordOnce`, `ReplayedOnce` | `TypeOK`, `EachRecordOncePerPass`, `ReplayedExactlyOnce` |
| `Barrage_proofs` | `CollectorTypeOK`, `CollectorRepliesAddUp`, `CollectorHistoryMonotone`, `CollectorStopDrains`, `CollectorPollsNeverGoBack` | the properties of run `collector` |
| | `BarrageTypeOK`, `BarrageWaitGroupExact`, `BarrageReportsCurrent`, `BarrageNoSendOnClosed` | the invariants of run `barrage`; nobody sends on the closed channel |
| | `CommandTypeOK`, `CommandEndsAfterEveryone`, `CommandCancelledForAReason`, `CommandImplementsBarrage` | the safety properties of run `barrage_command` |
| `Commands_proofs` | `TypeCorrect`, `NothingInvalidStarts`, `FirstSignalOrderly` | `TypeOK` and the properties of run `commands` |
| | `ValidIsRunnable` | what the validators accept and is in range, the pipelines can run |
| `IPFIXValidator_proofs` | `NeverReadsOutside`, `SetsAreTiled`, `ValidMessagesAreCovered`, `NothingIsReadTwice` | `ReadsInside`, `SetsTile`, `AcceptedIsCovered`, `ReadsForward` |
| `NetFlowValidator_proofs` | `TypeCorrect`, `NeverReadsOutside`, `NothingIsReadTwice`, `AcceptedExactly` | `TypeOK`, `ReadsInside`, `ReadsForward`, `AcceptedIffExplained` |
| | `RangeHasNoGaps` | `countDataRecordsRange` loses no count |
| `Exporter_proofs` | `TypeCorrect`, `StreamsAreNumbered`, `EveryPacketReadable` | `TypeOK`, `Numbered`, `Readable` |

**Assumptions** are the ASSUMEs of the modules: capacities, key space and moduli
are positive, bounds are naturals, as are the limits of integers (`IntegersAssumption`), sets of
words and lengths are sets of naturals.
Beyond these: barrage's workers are finitely many, its channel has room for one
report of each (as `RunCtx` allocates it); proxy has 1 to 10 targets (its limit), told apart by labels, so that an
address listed twice is two targets, as in the code; replay has at
least one worker; and a target or worker is not called like another goroutine of
its errgroup or like `NoErr`, since the model identifies a goroutine by its name.

### Record

`TypeCorrect`, `KeysAreContiguous` and `RecordsAreNeverOverwritten` rest on

    IInv == TypeOK /\ KeysContiguous /\ WriterAtEnd
    WriterAtEnd == wpc = "select" => DOMAIN db = 1..(nextID - 1)

`TypeOK` alone is not inductive: `nextRecordID` returns a number inside the key
space only because the keys have no hole, and they have none only because a
running writer's next key is one past them (`WriterAtEnd`). Opening establishes
`WriterAtEnd` (lemma `LastKeyOfInterval`), storing preserves it, a failed write
ends the writer, and a restart makes it void. `NeverOverwritten` then follows
because the only step that changes the database writes at a free key.
`StopsForAReason` is inductive by itself: every `Return` is behind the context
and every other way out is a `Fail`.

`StoredIsPrefix` looks at the database only; `OInv == IInv /\ Ordered /\ Gapless`
looks at the whole pipeline behind it. `Ordered`: database, data channel, parser,
parse channel and listener hold packets of increasing arrival numbers. `Gapless`:
what has reached a stage has no valid packet missing in front of it, as long as
the stages behind it run; a stage that has ended passes nothing on, so the gap its packet
leaves can no longer be stored around. `RecordImplementsLog` needs nothing more: with contiguous keys the
database is a sequence, and a store appends the head of the data channel.

### Proxy

`IInv` counts each packet once, at every place it can be: `FrontCount` from the
socket to the parser against the arrivals, `TargetCount(t)` from the parser to the
target's socket against the valid packets. A packet the replicator holds counts for the targets it
has still to be offered to (`OwedTo`), and one that a worker has taken counts as in its hand
until `SendPacket` returns (`InHand`), so a step moves a count and adds none.
That gives `CountsConsistent`, and `BurstRelayed`: with at most
`BufCap` arrivals the packets in front of a `select` are fewer than its channel's slots,
so no `default` branch is enabled (`RoomForAll`) and no packet leaves its way (`Complete`).
`OInv` adds the order, in front of the replicator (`FrontOrdered`) and for each
target behind it (`TargetOrdered`); under it each step is one of `LossyRelay` or a stutter.

### Replay

`ReplayedExactlyOnce` speaks of the end. Its invariant is
`IInv == TypeOK /\ ReaderInv /\ GroupInv /\ CountInv`: on a live context a record sent or
in the channel is one handed on (`CountInv`, which counts the record's positions in the
channel); between two passes the reader is past the last record (`ReaderInv`); and
a worker leaves a live replay only when the channel is closed and empty
(`GroupInv`), which is why closing loses nothing.

### Barrage, its collector and its command

Three invariants, each of which contains the one before.

* `CollectorInv`: the totals are the sums of the map and every snapshot adds up
  (`Recorded`); the counters of a worker grow from the map over the report being
  applied and the channel to the worker itself (`InOrder`), which makes
  `HistoryMonotone` inductive. `HandlersInv` adds that what a handler has copied or
  shown is behind the collector (`Shown`): the map and the snapshots only advance, and to
  advance is reflexive and transitive (`AdvancesOrder`), so a reply written late is still behind
  a later one, workers included. And `Drained`: a worker's newest report,
  wherever it is, is what the worker counted.
* `BInv`: the WaitGroup is the number of workers and collector still running plus
  `Others`, here 0; `RunCtx` passes `Wait` only when they have left (`Finished`).
* `CInv`: the same with `Others` the web server, which is started before
  `Wait` (`WebInv`), and a cancelled context that has a signal or `Execute`'s return behind it (`SignalInv`).

For `CommandImplementsBarrage` the web server is subtracted from the WaitGroup;
the lemmas that say what a step does were stated for any `Others`, so both specifications use them.

### Commands

`ValidIsRunnable` is about `Configuration` alone: each conjunct of `Runnable`, taken
from the lines of a pipeline that would panic or do nothing, follows from a check
of the validators or from `InRange`, which no validator checks: a product that fits does not wrap
(`FittingTicks`), so its ticker gets a positive period. `InRangeNeverPanics` is the same
for panics. `NothingStartsInvalid` then needs that nothing changes the settings behind the validator
(`SettingsInv`), and for `single` and `ipfix`, which have none, that a context ends before
their return only by a signal (`SignalInv`): a return without one is one of settings that ran.
`FirstSignalIsOrderly` needs `HandlerInv`: signals are
caught from the set-up until the handler's goroutine stops them, which it does
after cancelling.

### Validators

The inductive invariant of `IPFIXValidator` is `IInv == TypeOK /\ Cursor /\ Walked`. A bound check
in the code compares a counter (`consumed`, `remaining`) with another; that the
slice index built from it is inside the payload follows only because
`setOffset + remaining` is the Set's end throughout its records and the Set's end
is inside the message (`Cursor`). `Walked` says the finished Sets reach up to
`offset`, which is what makes `offset = limit` mean that all is covered.

In `NetFlowValidator` reads rest on `Walk == PlacesOK /\ Cursor`: all field specifiers
a record announces (`fieldAt + 4 * fields`) end before the FlowSet does, which is
why the code's own checks against `limit` inside a set never fire. `TypeCorrect`
needs the lemmas on `countDataRecordsRange`: its extremes exist, and every count
between them is possible (`RangeHasNoGaps`).

`AcceptedExactly` compares two running sums (`minRecords`, `maxRecords`) with
the choices they stand for: a number of records for every Data FlowSet, such that
all of them with the templates make up the header's count. The code adds
ranges in the order in which it can: a Data FlowSet without a template waits and is
added at the end. The invariant (`Accounts`) says that there is a ledger: cumulative
sums `low` and `high` over the things seen in packet order, with nothing for those
that wait, and for each deferred FlowSet its position in that order (`pos`). Two facts carry it through the
steps. Reading on appends an entry (`AddsAppend`) and cannot change the record size of
a FlowSet that had a template; and resolving a deferred FlowSet raises all sums
from its position on (`AddsSettle`). At the end, a choice that explains the count
lies between `low` and `high` (`ExplainedWithin`), and from a count between them a choice is
built: give each FlowSet as many records as the surplus still allows, and the rest
their least (`WithinExplained`), which is where `RangeHasNoGaps` is needed.
Where the code gives up and calls the upper end unbounded (`unresolved`), so does the ledger.

### Exporter

`IInv == TypeOK /\ NumberInv`. `Numbered` speaks of packets sent,
and says nothing of the next one: `WaitingIsNext` adds that a packet made and not sent
carries the number the stream calls for, and `CounterIsNext` that otherwise the
counter stands there. That is why nothing may take a number and then fail.

`Readable` rests on `ContentInv == MadeInv /\ TemplatesFirst`: every packet is one of
the four shapes the generators build, whatever the number of records, and a command's
stream begins with its templates. The rest is about those shapes: padding is less
than a record (`RecordsOutweighPadding`), so the number of records can be read off
the length. The options set holds one record of four bytes (`OptionsSize`), the
size up to which padding could be mistaken for a record, and needs none.

### Sums over sets

`Totals` and the sizes of records are `MapThenSumSet`s. The library states no
theorem of it, so the proofs name the recursive function behind it (`SumFcn`), show that
it exists and does not depend on which element is chosen, by induction over the
subsets of a finite set (`SetInduction`, from a least natural number of the
library's well-founded `<`). The lemmas stand in each proof module that needs them,
because each of these modules extends another component, and the names of components overlap.

### Only model-checked

What is left to TLC is liveness, which is out of the prover's reach: `ShutdownCompletes` and
`EventuallyStored` (record), `OnlySendsHoldShutdown` and `NeverHeldUp` (proxy), `EndsUnlessLooping`
(replay), `ShutdownOrStuck` and `EventuallyShown` (barrage), `SignalEnds` (command)
and `Terminates` (IPFIX validator). The two claims that section 6 states
as properties, and that the code contradicts, are refuted by TLC's counterexamples.

## 6. What was found

**A cancelled barrage can hang.** A worker reports with a bare
`cfg.statsChan <- wStats` (`barrage.go:127`, `:147`). The only receiver leaves on
`ctx.Done()`. When it leaves first and the buffer fills, or is full already, the
worker blocks for ever, its deferred `wg.Done()` never runs, and `RunCtx` stays in
`Wg.Wait()`, against its doc comment (`barrage.go:216`). `ShutdownOrStuck` shows
that this is the only other outcome.

**The web server cannot listen on an IPv6 address.** `RunWebServer` builds
`ip + ":" + port` (`web.go:143`); for `::1` or `::` that has too many colons for
`net.Listen`. The validators accept the address, as `-web-ip`'s help and
`README.md:74` promise, the error is only logged, and the barrage runs on without
its dashboard. `net.JoinHostPort` would add the brackets.

The disagreements that follow are read off the code and off steps of `Commands`, which takes
them all; no run states them.

* *Validated settings can panic.* The validators ask only that a delay is positive.
  `time.Millisecond * time.Duration(delay)` (`barrage.go:99`, `replay.go:50`) wraps for a delay
  above 2^63 / 10^6 to a period that may be negative, and `time.NewTicker` panics; a template
  interval above 2^63 / 10^9 wraps likewise (`barrage.go:107`), and more than 2^31 workers
  overflow the WaitGroup or exceed what `make` allows (`PipelinePanics`). `src/config/validate.go:4`
  promises validation before any goroutine is started. `NothingStartsInvalid` and
  `ValidIsRunnable` show that this is all: within `InRange` nothing behind the validators panics.
* *Exit code 2.* `src/README.md:149` reserves it for unknown subcommands. Flag errors exit with
  it (`ParseFlags`: with `flag.ExitOnError`, the code behind `Parse` that exits with 1 is never
  reached), and so does a panic.
* *Exit code 1 of a barrage.* `src/README.md:142-147` gives it to listen and flow generation
  failures. The goroutines of a barrage log these and leave (`BarrageLoses`), `Execute` returns
  `nil`, and the process exits with 0 (`Leave`).
* *Signals at `ipfix`.* It creates no lifecycle manager, so the first signal kills it in the middle of
  its packets (`Managed`), against `src/README.md:151` and `:483`.

Smaller observations on the front ends: `mgr.Wait` never waits, since nothing is added to the
manager's WaitGroup, and would not return at
a cancellation (`lifecycle.go:71`); `-config` does not supersede `-tls-cert`, `-tls-key` and
`-profile`; a YAML value that is not a string silently becomes the default where a
string is expected, while a number of the wrong type is an error; `-server` takes
no server name, only addresses; `single` and `ipfix` check no setting before they open a socket.

Smaller observations elsewhere, which no run depends on: the comment at
`fieldSpecifierSize` (`ipfix.go:535`) places the enterprise bit in the Element
Length, and the code reads it, correctly, from the Element ID; `barrage` keeps running when
all of its workers have died; a proxy worker sends without a deadline (`packet.go:14`), so a send that
does not return holds up the shutdown of the whole proxy; the send error of one proxy target ends the whole
proxy; the history is one snapshot per report, so 300 of them are ten minutes
only at one report every two seconds; `ipfix`'s `DataFlowSet.Generate` ignores the profile
its caller passes (`ipfix.go:342`) and `TemplateFlowSet.Generate` honours it (`:98`),
so records and template would disagree for a profile that no command passes today;
`IPFIX.estimatedSize` bounds a whole message, NetFlow only bounds each set.

## 7. Not modelled, and why

* External code is modelled from its contract: errgroup, context, Go channels,
  the UDP socket, badger (`Update` is atomic, and durable across the end of a process).
* Random field values, rendering, logging, help texts, HTML: no control to get wrong
  between goroutines; see `PROJECT.json` for each component. The choice of a random
  address (`utils/ip.go`) is a pure function, planned below.
* `BasicAuthMiddleware`, `HealthHandler` and `IndexHandler` answer one request from
  that request and constants; no state is involved.
* Connections of the web server are not told apart: `Shutdown` waits for them at
  most five seconds and its outcome is ignored.
* `BytesSent` of the collector is summed exactly as `FlowsSent` and left out.
* The `continue` after a failing random source in `StartCtx` is dead code with
  `crypto/rand`, which does not return errors.
* The drain of a fired timer in `dbReader` cannot block with the timers of the Go
  version in `go.mod`, so the pause is one step.

## 8. Plan

The models of the plan exist and their checked safety properties are theorems.
What is left, in this order:

1. Facts behind liveness that are safety: a measure that every step of a validator's walk
   decreases; in `Lifecycle`, that a signal sent after the set-up is in the channel,
   at the handler, or has ended the context.
2. `AddressRange`: the random address lies inside its CIDR, for every width.
3. The IPFIX profiles and timestamp updaters that no command reaches, if one does.

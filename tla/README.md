# hopr-utilities: TLA+ models, checks and proofs

This directory holds a formal model of the parts of `hopr-utilities` whose
correctness depends on interleavings, failures or arithmetic at the edges. The
paths below are relative to the repository (`src/...`).

## 1. The system

`hopr-utilities` is a library of infrastructure for HOPR nodes. Its parts share
little state with each other; what makes them hard is the concurrency inside each.

| Component | State | Operations | Hard behaviour | Correct when |
|---|---|---|---|---|
| Thread pool (`src/parallelize/mod.rs`) | `OUTSTANDING`, `QUEUE_LIMIT`, `ENCODE_OUTSTANDING`, `POOL_THREAD_COUNT` | `init_thread_pool`, `spawn_blocking`, `spawn_fifo_blocking`, `spawn_encode_blocking`, `spawn_decode_blocking` | futures dropped by timeouts while their closures are queued or run; counters released by guards on two threads | no slot leaks, the queue limit holds, every call returns |
| Encode/decode arbiter (`src/parallelize/cpu/arbitration.rs`) | `DECODE_OUTSTANDING`, `RUNNING`, the policy (three atomics), `ARBITRATION_CONFIGURED`, an event-listener `Event` | `admit_decode`, `apply`, `with_arbitration`, `with_arbitration_once`, guards | admission by compare-exchange over a stale snapshot; lost wake-ups; live reconfiguration | the cap is hard, parked admitters are woken, reconfiguration reaches them |
| Sinks and forwarding (`src/network_types/crossfire_sink.rs`, `timeout.rs`) | one slot per sink, a timer, a held item | `poll_ready`, `start_send`, `poll_flush`, `poll_close`, `ForwardWithTimeout::poll` | wake-ups between a bounded channel and several tasks; a timeout racing a free slot | order kept, only what timed out is lost, forwarding ends |
| Duplex copy (`src/network_types/utils.rs`) | two copy buffers, transfer states | `transfer_one_direction`, `copy_duplex_abortable_with_datagram` | partial reads and writes, end of file or abort on one side during work on the other, flushing | a prefix is delivered, datagrams are not merged, the transfer ends |
| Statistics (`src/statistics/`) | a ring of slices; a window and a running sum; a count and an average; weighted items | record, read; push, clear, average; update; pick, shuffle | out-of-order and early records, saturation, overflow, draws on a boundary | reads equal the definition |
| Emulated chain (`src/testing/blokli/emulator.rs`) | balances, allowances, accounts, channels, counters | one per parsed chain action, then the fee | failures after part of the effect | no tokens created, none lost but in two known ways, no ticket index paid twice within an epoch |
| Test connector (`src/testing/blokli/connector.rs`, `faults.rs`) | caches of accounts and channels, event broadcast, nonces, faults, watermarks | `connect`, ingestion, `open_channel`, `fund_channel`, `close_channel`, `register_safe`, `withdraw`, `redeem_ticket` | a cache that lags behind the chain, concurrent calls, dropped futures | the cache converges, events leave nothing out, watermarks do not under-report |
| Abortable tasks (`src/runtime.rs`) | maps of handles and nested maps; a stream with an abort flag | `insert`, `abort_one`, `abort_all`, `extend_from`, `flat_map_extend_from`, drop; `DropAbortable::poll_next` | handles displaced, moved and dropped; an abort between a check and a registration | no task runs away, none is aborted with others, blocked senders are released |
| Diagnostics (`src/runtime.rs`) | four counters and the time of the last warning, all atomics | `wrap`, polls, completion, drop, `should_warn` | concurrent children, completion followed by drop | counters balance, warnings are spaced |
| UDP stream (`src/network_types/udp.rs`) | sockets, the counterparty, two bounded queues, one task per socket and direction | `build`, the tasks, `poll_read`, `poll_write`, `poll_flush`, `poll_shutdown`, drop | tasks racing for the counterparty, full queues, failing sockets, shutdown while tasks wait | one counterparty, nothing repeated or reordered, what is taken or queued arrives, everything ends |
| Packet capture (`src/network_types/capture.rs`) | two end flags, a channel, a writer task | `poll_read`, `poll_write`, `poll_close`, drop | two directions ending in either order | the file is complete |
| Adapters, address types, platform | little or none | | | not modelled, section 8 |

Interactions: the pool's calls run the arbiter's admission before they submit, and
its closures hold the arbiter's guards, so the two are one composed model. The
forwarding future drives a timeout sink around a channel sink. The connector
submits transactions to the emulator through an external client and learns of them
through that client's feed.

## 2. Modules

| Module | Models | Used by |
|---|---|---|
| `AdmissionPolicy` | the pure decisions: clamping, occupancy threshold, cap, flood test | `ArbiterSetup`, `PoolArbiter` |
| `EventListener` | external crate: FIFO listeners, `notify(n)`, `notify(n.additional())`, hand-over of a dropped listener's notification | `PoolArbiter` |
| `ArbiterSetup` | `init_thread_pool`, `apply`, `with_arbitration`, `with_arbitration_once`, one step per atomic access | `PoolArbiter`, `MCArbiterSetup` |
| `PoolArbiter` | the pool composed with the arbiter: every call's future and every worker | `MCPoolArbiter` |
| `LossyRelay` | abstract: what forwarding promises, per forwarder | refined by `ForwardChannel` |
| `ForwardChannel` | `ForwardWithTimeout` over `TimeoutSink` over `CrossfireSink`, several forwarders into one channel | `MCForwardChannel` |
| `CopyDuplex` | the duplex copy behind its four entry points: `api` is the one that was called, and decides the datagram mode and who can abort | `MCCopyDuplex` |
| `UdpStream` | `UdpStreamBuilder::build`, the tasks, and the stream its owner polls | `MCUdpStream` |
| `WindowedRatio`, `MovingAverage`, `ExponentialAverage`, `WeightedChoice` | the statistics, each with its reference definition | `MCComponents` |
| `AbortableList`, `DropAbortable`, `Diagnostics` | `runtime.rs` | `MCComponents` |
| `PcapCapture` | `PcapIO` and its writer task | `MCComponents` |
| `ChainEmulator` | `update_state` as a function of state and transaction | `ChainConnector` |
| `InFlight` | the watermarks of `ChainFaults`, one step per atomic access | `ChainConnector` |
| `ChainConnector` | the connector composed with both and with other nodes | `MCChainConnector` |
| `*Proofs` | theorems of the modules they extend; `StatisticsProofs` covers the four statistics, `RuntimeProofs` the abortable list and the diagnostics | |

Definitions keep the names of the code where TLA+ allows; `PROJECT.json` maps each
to its lines. An operator whose comment says *Mutant* is a deliberately wrong
variant of the definition below it: replacing the definition by it must break the
property named in `PROJECT.json`.

### How state and steps correspond

- **Pool.** `pc[c]` is the place of a call's future, `wpc[w]` that of a worker in a
  closure, `loc[c]` what the future read and still uses. One step is one access to a
  shared atomic, or to the event, or to the pool's queue. The guards `SlotGuard`,
  `TaggedGuard` and `RunningGuard` are the program points between their
  constructors and their drops. Calls in `MayDrop` run under a caller's timeout and
  can be dropped at any await. A weak compare-exchange may fail spuriously where
  `WeakCas` says so.
- **Forwarding.** A task is polled only when woken. Every channel, timer and stream
  operation of a poll is a step. The channel is external: a full channel registers
  the sender's waker, a receive wakes the longest-waiting sender, and dropping a
  woken send future passes the wake-up on.
- **Duplex copy.** A byte is its position in what the peer sent, so that "prefix" is a
  statement about positions; `Message` says which datagram it belongs to. The
  cooperative-budget code of `tokio_unstable` builds is left out.
- **UDP stream.** A datagram is its sender and its number. A task is cut at each await
  and each access to the shared counterparty; the tasks of one address are numbered as
  `build` numbers its sockets. The kernel spreads peers over the bound sockets by a
  fixed but arbitrary hash. The queues are flume's: a pending send keeps its item and
  gets the next free slot. Datagrams cut at the buffer size and the number of
  `poll_read` calls per datagram are left out.
- **Abortable tasks.** A list is a function from keys to members. `IndexMap::insert` keeps
  the position of a replaced key, so the order of aborts is that of the first insertion
  (the comment at `runtime.rs:486` speaks of appending); the abort calls of one list are
  independent, so the model leaves their order out. What a list holds through its nested
  lists is the least set closed under membership (`Reach`).
- **Diagnostics.** One step per atomic operation; `elapsed` is read before `should_warn`.
- **Packet capture.** Packets are numbers. A full channel drops the copy, as `try_send` does.
- **Statistics.** The exponential average is an exact fraction and weights are integers, of
  which every draw below the total is tried. The ghosts `noted` and `newest` remember every record; a ratio is kept
  as its two integers. The window of `WindowedRatio` has a reference of its own, the last
  `BUCKETS` slices up to the time read at, which does not use the code's lower bound.
  Pushing a sample adds it before it subtracts the oldest (`simple.rs:149`): where the sum
  exceeds the type, `MovingAverage` wraps at its `Modulus`, as integers do in a release
  build, or panics there, as overflow checks and `Duration` do; `checked` says which. A
  caller that catches the panic keeps a window and a sum that still agree.
- **Chain.** A transaction is a record; `UpdateState` gives the state that is left and
  whether it is `Ok`. Key ids, keys and multiaddresses are left out: accounts and
  channels are named by nodes. What the external client does with the writes of
  a failed transaction is not visible in the repository, so both keeping and
  discarding them are allowed. The feed carries one update per changed channel, in
  order. The task that ingests it caches an update and broadcasts its event in two steps,
  with `unsent` holding the event in between. A subscriber's snapshot passes the cache entry by entry and its receiver is
  activated afterwards; the ghost `missed` holds the channels of which an event was
  sent in between. A test may change the injected faults at any time: each read of a fault is a
  free choice. The five-second limit of `await_own_view` may pass at any time.

## 3. Runs

| Run | Expectation | Shows |
|---|---|---|
| `PoolFromStart` | pass | from the start of the process. Scene *setup*: two nodes, an override and two initializers interleaved store by store: `with_arbitration_once` is first-wins; one that begins after an override returned is refused. Scene *tasks*: with timeouts, rejections, skipped and orphaned tasks every counter equals the guards behind it and the limit holds |
| `SetupClobber` | violation | a `with_arbitration_once` that claimed the flag first overwrites an override |
| `PoolThrottled` | pass | over a backlog. Scene *five*: decodes competing under a cap cannot pass on one snapshot. Scene *one*: while an admitter is parked un-notified, somebody still owes a notification, although callers time out |
| `PoolReturns` | pass | with arbitration switched off meanwhile, nobody stays parked, and every call returns |
| `PoolStranded` | violation | an admitter parks under percentages read before a loosening whose notification it missed |
| `Forward` | pass | the forwarding stack implements `LossyRelay`; timers are per item; streams are drained; forwarding ends |
| `Duplex` | pass | prefixes, datagram boundaries, nothing lost at end of file, termination, flushing, through each of the four entry points |
| `Udp` | pass | one counterparty; nothing repeated or overtaken; `poll_write` tells no lies; what a task took is told to the reader, what is queued is sent; shutdown and drop end every task |
| `UdpUnread` | violation | with more sending than receiving sockets, a peer's datagrams can go to a socket that nobody reads |
| `Components` | pass | one component per behaviour: live slices survive late records, reads equal the definition, the running sum does not drift, the exponential average starts as the mean, picks are proportional to weights; no task runs away or is aborted with others, blocked senders are released, the diagnostics' counters balance and warnings are spaced, the capture completes |
| `Chain` | pass | ledger, cache, events and watermarks of the connector under concurrent calls |
| `ChainConfirm` | violation | a funding is confirmed by somebody else's increase of the same channel |

### Bounds, and why they suffice

- `PoolFromStart`: in *tasks*, two decodes, one encode, one acknowledgement, two workers,
  limit 2. Two racing callers at the limit and one task per guard kind cover every pair
  of interleaved releases; the proofs cover any number.
- The other pool runs begin with a backlog: three decodes and an encode are under way
  and a fourth decode is the first that can be throttled at all
  (`DECODE_FLOOD_FACTOR` is 2). Reaching that state from the start costs more steps
  than the question: it is a reachable state, in which the first three were
  admitted while no encode was outstanding. Scene *five* of `PoolThrottled` has five
  workers so that the cap exceeds one, and its constraint `Saturated` stops where nothing
  is throttled any more. Scene *one* has two late admitters that may time out, the least
  in which a hand-over has somebody to go to.
- `Forward`: three items and one item through a channel of capacity 1, so that an item
  can be in the stream, in hand, in the sink and in the channel at once.
- `Duplex`: a message of two bytes and one of one byte, a buffer of three, one stall per
  writer, an abort of each direction that can be aborted. Two messages are the least
  that can be merged. When both sides can abort, the writers do not stall.
- `Udp`: two peers, two sockets, queues of one slot. In a behaviour the owner only reads,
  with three datagrams or with failing binds, socket errors and empty datagrams, or
  writes three buffers: the two directions meet in the counterparty only. Three buffers
  are one in a task's hands, one in the queue and one waiting for room.
- `Components`: two buckets of two ticks up to tick 9, so that each slot is reused and
  times before the epoch occur; counts saturate at 2; samples of three bits (`Modulus` 8) overflow; up
  to three items with weights from -1 to 2; a factor of 3 and five updates; two tasks
  (one behind each kind of handle), three lists and two keys, so that a list can be
  nested twice and both displaced and merged; two children and five ticks, of which
  two separate warnings; a channel of one slot with two senders; a capture of three
  packets through a channel of two.
- `Chain`: a connector with two concurrent calls, a counterparty with two
  transactions, and two starting states (counterparty unknown, its safe deployed but never
  paid, so that its tickets can have nowhere to go; channel open with a ticket redeemed).
  Stakes are 1. The subscriber subscribes while no call is under way and an update or its
  event waits. Between caching an update and broadcasting it only the subscriber
  steps, because the broadcast commutes with all other actions. `MaxCalls` and `MaxPeerTxs` cap the counters.
  Symmetry of the two call slots is sound because the run has no liveness property.

`CHECK_DEADLOCK FALSE` appears where the system may stop: a forwarding whose stream
went silent, a finished transfer, a connector whose calls are used up.

### Fairness

- Pool: weak fairness of "some future, worker or configuration under way steps". The
  runtime polls woken futures and the workers run queued closures. A timeout need
  not happen and nobody need start a reconfiguration.
- Forwarding: weak fairness of each task and each timer. The receiver may stall for
  ever; `ForwardingEnds` assumes in its statement that it does not.
- Duplex copy: weak fairness of the task, and a stalled writer becomes writable again
  (at most `MaxStalls` times). Peers need not send or close.
- UDP stream: weak fairness of `build`, of every task and of the owner's `poll_read`. The
  owner need not write, flush or close, and peers need not send. `UdpUnread` has the
  same fairness, so its peer's datagram is lost to the socket, not to idleness.
- Abortable stream and capture: weak fairness of the polling task, of a blocked sender
  that is woken and of the capture's writer task.

## 4. Findings

1. `PoolStranded`, `src/parallelize/cpu/arbitration.rs:188`. The second admission attempt
   reuses percentages loaded before the listener was registered, so that a loosened cap
   does not take effect immediately as the comment on `apply` says.
2. `SetupClobber`, `src/parallelize/cpu/arbitration.rs:155`. A `with_arbitration_once` that won
   the flag applies its policy after an override that ran in between.
3. `ChainConfirm`, `src/testing/blokli/connector.rs:866`. `fund_channel` waits for the cached
   balance plus its amount; another increase that was not yet in the cache satisfies
   the wait before the call's own transaction is visible.
4. `UdpUnread`, `src/network_types/udp.rs:309`. `build` binds as many sockets as the larger of
   the two parallelisms, and starts receiving tasks on the first `num_rx_socks` only;
   "always ready to receive data" (line 285) fails when there are fewer of them.

Observations without a run:

- A failed `init_thread_pool` leaves `pool_thread_count` at the requested size
  (`src/parallelize/mod.rs:337`).
- An encode whose caller timed out stops counting in `ENCODE_OUTSTANDING` while its task
  still occupies a worker (`mod.rs:408`).
- The occupancy threshold is rounded down (`arbitration.rs:254`), and
  `encode_pool_has_headroom` is strict at exactly half (`mod.rs:34`).
- Callers about to be rejected count in `OUTSTANDING` until their guards drop, so a call
  can be refused although a slot is free (`mod.rs:286`).
- `copy_duplex` discards what is buffered in a direction when the other side ends it.
- `close_channel` picks its transaction from the cached status, and
  `InitializeChannelClosure` does not look at the status: a channel the counterparty
  closed meanwhile becomes `PendingToClose` again (`emulator.rs:360`). `EpochsOrderTickets`
  shows that this makes no index of the epoch payable again.
- `RedeemTicket` carries no epoch (`emulator.rs:392-395`): once a channel was closed and
  reopened, which resets its index (`emulator.rs:310`), a ticket of the earlier epoch is
  paid again. `EpochsOrderTickets` is therefore a statement about each epoch only.
- Tokens are lost, of the whole supply, in two ways and, by `TokensConserved`, in no other:
  a `FundChannel` refused for its allowance has already debited the safe (`emulator.rs:276`),
  if the client keeps the writes of failed transactions; and a redemption pays out nothing
  when the redeemer has no channel back and its safe no entry of balance
  (`emulator.rs:441-504`).
- `ExponentialMovingAverage<0>` compiles: `_ASSERT_FACTOR_GT_ZERO` is an associated constant
  that nothing refers to, so it is never evaluated (`exponential.rs:16`), and the first
  update divides by 0. What is checked and proved assumes `Factor > 0` (`EmaAssumption`).
- A redemption on the chain that the cache has not seen keeps `fund_channel`'s wait from
  ever being satisfied; it reports success after the limit (`connector.rs:413`).
- The fee is looked at after every effect was written (`emulator.rs:521`).
- `poll_close` of a forwarding is not bounded by the timeout (`timeout.rs:179`).
- `register_safe` checks before it submits, so two concurrent calls can register a node at
  two safes (`connector.rs:654`).
- A subscriber never hears of what was ingested between its snapshot and the activation of
  its receiver (`connector.rs:1046-1066`); `LastEventIsCurrent` shows that nothing else is lost.
- UDP: `build` binds again for every further address, which the reuse flags let succeed; a
  zero-length datagram ends its receiving task in every mode; a sending task that takes
  a datagram before the counterparty is known drops it and ends; shutdown drops what
  is queued; after a disconnect `poll_flush` or `poll_shutdown` takes the error, and the
  next `poll_write` then reports the abandoned buffer as written.
- `ConcurrentDiagnostics::wrap` counts a child as in flight before it calls the closure that
  makes it: if that panics, `in_flight` stays raised.
- `PcapIO::poll_write` records a packet for every attempt, pending ones included, and
  `poll_read` takes a read into an empty buffer for the end of the stream.
- `into_shuffled` puts items without weight last (`weighted.rs:7`) unless the key of a tiny
  weight underflows to 0, where the stable sort keeps the original order.

## 5. Proofs

Everything below is checked by TLAPS for every value of the constants that satisfies
the assumptions.

- **`ArbiterSetupProofs`**, from `SetupAssumption`. `SetupIInv` adds to the type invariant that
  the call inside `apply` is a node or an override, that the flag is up once either
  is through, and that without an override the claimant is unique and the
  stores it has made are its own. First-wins is not inductive without the last part:
  it says nothing of the moment between claim and stores. `OnceIsFirstWins` and
  `LateOnceRefused` follow. The module also proves `CapIsAlwaysFair` of the admission
  policy: whenever decode is capped, the cap is the largest that leaves encode its
  reserved share (`LeavesReserve`, the reference definition), or 1. It rests on one fact
  about the ceiling of a percentage.
- **`PoolArbiterProofs`**, from `PoolAssumption` (finite sets, a natural limit). The invariant is
  `IInv == TypeOK /\ SettersInv /\ CountersExact /\ QueueBounded /\ AdmissionInv`.
  Type correctness needs `CountersExact`, because a counter is a natural number only if
  every decrement meets a guard. `QueueBounded` needs it to turn the counter each caller
  compared with the limit into a number of tasks. `AdmissionInv` ties what an admitter
  read to where it is, for `DecodeCapIsHard` and `DisableReachesWaiters`. The counting
  argument is one lemma, `CountMove`: a step moves one thread between program points
  and changes the cardinality of a set of them by at most one, in a known direction.
  `PoolImplementsSetup` shows that the composition is a refinement of `ArbiterSetup`, so
  the theorems about `SetupSpec` hold of the pool. `WakeupIsOwed` adds `OwedInv`: every
  waiting listener is in the event's list, and while an admitter is *settled* (parked, or
  with its listener registered and a nonzero decode count read) some decode that is not
  settled is under way. Settled admitters cannot vouch for each other, which is why they are
  set apart from the moment they read the counter and not only once they are parked.
  That a settled one exists at all means a decode was outstanding: `decode_admit_cap` never
  returns 0 (`CapIsPositive`).
- **`StatisticsProofs`**, from `RatioAssumption`, `AverageAssumption`, `EmaAssumption` and
  `WeightedAssumption`.
  - `LiveSlicesAreExact`: `RingInv` says that a slot holds the newest slice recorded among
    those that map to it, with exactly its counts, and that a slot nobody claimed is empty.
    The modular lemma `SameSlotFarApart` (two slices of one slot are at least `BUCKETS`
    apart) turns this into the property.
  - `ReadsAreExactAlways`: the slots the code reads are those of the last `BUCKETS` slices
    (`WindowIsLastSlices`), also near the epoch, where its subtraction saturates. The code adds up the slots, saturating, in the order of the
    ring; the reference adds up the slices of the window. A saturating total ignores the
    order and the empty entries (`TotalInsert`, `TotalIgnoresZeros`), so that an induction
    over the slices of the window adds one slice and its slot at a time.
  - `SumNeverDrifts`: the running sum is the sum of the window, wrapped. Adding the new
    sample and then subtracting the oldest each wrap at most once, and a panic leaves both as
    they were.
  - `EmaStaysWithinSamples`, for a positive factor: inductive but for the start, where numerator and sum are 0. Lemmas
    on fractions, for the mean and for either bound, keep the nonlinear arithmetic apart
    from the step.
  - `PicksAreProportionalAlways`: the draws that pick an item are the interval between two
    cumulative sums, whose length is the item's weight.
- **`ForwardChannelProofs`**, from `ForwardAssumption`. `ForwardingIsALossyRelay` is the
  refinement of `LossyRelay`: the abstract queue of a forwarder is its items in the channel,
  then the one its sink holds, then the one in hand (`Transit`). Every action maps to a
  stutter or to one abstract step, by a lemma each: taking an item appends to that
  sequence, a timeout drops its last entry, a failure of the sink cuts it, a receive takes
  its first. The mapping needs an invariant on where items may be: in hand only while
  the sink is asked about them, and a timer only while an item is in hand, its own. That
  last part is also `EveryItemHasItsOwnTimer`.
- **`CopyDuplexProofs`**, from `DuplexAssumption`. The invariant says that written bytes and
  buffered bytes are consecutive numbers ending with the last byte read, that a buffer is
  filled only when empty, and, for datagrams, that it holds bytes of one message and all
  written before it is flushed. Each step does one of six things to a direction
  (`Effect`), so the invariant is shown of those. `WritersGetAPrefix`,
  `DatagramBordersAreFlushed` and `EndOfFileIsComplete` follow.
- **`UdpStreamProofs`**, from `UdpAssumption`. The stations of a datagram (socket, task, queue,
  reader) are ordered as wholes: everything of one peer through one socket at a later
  station was sent before everything at an earlier one. Without the order between
  stations the order within the reader's data is not inductive. The same for buffers
  on their way out, where the accepted, queued, held and sent ones are disjoint.
  `StreamHasOneCounterparty`, `NothingIsRepeatedOrOvertaken`, `WriteReportsAreTrue`.
- **`RuntimeProofs`**, from the finiteness of the children (diagnostics) and `ListAssumption`
  (the kinds of tasks, the lists and the empty entry are different things).
  - `CountersCountEveryFutureOnce` counts program points as in the pool.
    `WarningsKeepTheirDistance` needs that a child at the exchange read a time at least
    `WarnEvery` after the value it compares with.
  - `NoTaskRunsAway` and `OnlyTheRemovedAreAborted`: the invariant says that handles form
    a forest, that is, every task and every nested list is at one place at most and a list
    with an owner is at none. Without it an operation on one list could change what
    another one reaches, and neither property is inductive. Each operation is a
    replacement of entries, and the lemmas say what this does to `Reach`.
- **`ChainConnectorProofs`**, from `EmulatorAssumption`, `CallsAssumption` and `TxsAssumption`: finitely
  many nodes and calls, initial states and transactions of their types (`IsChain`,
  `Txs`), no channel from a node to itself.
  - `TicketsAreOrdered`: every transaction, also one that fails half-way, leaves a chain
    in which each channel's epoch, or index within it, moved on (`EffectResult`, one lemma
    per transaction).
  - `CacheMirrorsChain`: the last update of a channel waiting in the feed carries what the
    chain says, and if none waits the cache says it (`MirrorInv`). The drained feed is the
    case in which none waits for any channel.
  - `SubscribersStayCurrent`: an update without an event is one that tells a subscriber
    nothing new (`SilentUpdates`), and while an event is about to be sent the subscriber is
    behind in that event's channel only and the event carries what the cache says; before
    its activation a subscriber has heard only of channels its snapshot passed.
  - `WatermarksCoverWrites`: for *every set* of writes counted together, the watermark covers
    it or one of its members still carries a count that does. The last of them to enter saw
    all the others; no statement about the current guards alone is inductive.
  - `SupplyIsConserved`: every transaction, also one that fails half-way, leaves the tokens
    of safes, nodes and channels together as they were, but for the two losses named in
    section 4. The total of a purse is counted unit by unit, as the
    cardinality of a set of pairs, so that what one entry gains the total gains
    (`TotalChanges`); one lemma per transaction says where its amounts come from.

What the proofs changed in the model: in `CopyDuplex` one read now keeps all its bytes
within one datagram; `OnceInOrder` promises the order of sending for each sending task and
not for the stream, since `build` binds `num_tx_socks` sockets for every address (`udp.rs:320`),
where the doc speaks of trying addresses "until one succeeds"; `WakeupOwed` names a decode as the
one that owes, where it used to accept any worker. Other changes are of form only. Maps are
written with `Put` and queue filters with `Keep` instead of `@@` and `SelectSeq`; the sums of
the statistics are recursive functions instead of folds, and that of the emulator is a
cardinality; nesting is a least closed set instead of a recursion over lists: the provers
cannot unfold the former ones.

Only model-checked: the ten liveness properties with their fairness, which are out of the
prover's reach (`EveryCallReturns`, `StreamIsDrained`, `ForwardingEnds`, `TransferEnds`,
`WrittenIsFlushed`, `TakenIsTold`, `QueuedIsSent`, `ClosedEnds`, `AbortReleasesSenders`,
`CaptureCompletes`). They include all that is said of `DropAbortable` and `PcapCapture`. Every
other property of a passing run is stated by a theorem. The induction theorems of the
library take an operator, which the provers cannot instantiate. `SetInduction` replaces them
by a statement about a set of naturals, shown with a least counterexample (`WFMin`), and
`RecursionExists` shows with it that a recursion up to a number has a solution: all that is
proved of recursive functions rests on these two.

Each module's type invariant is checked too: those of `ForwardChannel`, `CopyDuplex`,
`UdpStream`, `WindowedRatio` and `ChainConnector` as conjuncts of `OwnTimer`, `OutIsPrefix`,
`ReportsAreTrue`, `LiveSlicesExact` and `DrainedFeedMirrorsChain`.

## 6. Hazards

`PROJECT.json` lists the hazards of the code at their lines with the properties that
would notice them.

## 7. Plan

Done: pool and arbiter, forwarding with its abstract specification, duplex copy, UDP stream,
runtime, capture, statistics, emulator and connector; proofs of every safety property.
Left, in this order:

1. Withheld events and the overflow of the broadcast in `ChainConnector`; registration of
   one node at two safes.
2. An abstract specification of `UdpStream` (two lossy bounded queues to one counterparty).

## 8. Not modelled

Prometheus metrics and tracing; `DuplexIO`, `AsyncReadStreamer` and `AsyncWriteSink`, which
forward single calls and keep no state; `SocketAddrStr`, platform and address helpers
(stateless or pure I/O); floating-point rounding (the fallback of `pick_index` exists for
it and is unreachable in exact arithmetic) and the distribution of random keys; the
cooperative budget of `tokio_unstable` builds; parsing and signing of transactions;
benches, tests, nix and CI files.

# A formal model of jack2

`src/` is the Rust crate `jack2`: a binding of the JACK audio server's C client
library. This directory holds TLA+ modules that model the crate and one of its
examples, TLC configurations that check them on small instances, and TLAPS
proofs for all instances. Line numbers are those of the files under `src/src/`
(`scope.rs`: `src/examples/`).

## 1. Inventory

| Component | State | Operations | Interacts with | Module |
|---|---|---|---|---|
| Port registry and hand-off (`client.rs` 268-445, `process.rs` 401-483, `callbacks.rs` 376-391, 708-771) | map of owned ports, three copies of it behind an atomic triple buffer, `Rc` counts, `pending_port_gc`, the collector task | `register_ports`, `unregister_ports`, collector tick, the callbacks of a period, drop | server (ports), process thread (front slot), executor (collector), the caller's iterator | `PortSync`, `PortHost`, `PortView`, `TripleBuffer` |
| Client lifecycle and callback table (`client.rs` 818-1093, 727-738, `callbacks.rs`) | which value owns the client, the server's callback entries, `ProcessData` and `NotificationData` on the heap, the timebase | `activate`, `deactivate`, `register_sync_callback`, `acquire_timebase`, ..., drop | server, the two handlers | `Activation` |
| Notification pipeline (`callbacks.rs` 426-560, `client.rs` 842-922, 1039-1061) | unbounded channel, handler task, oneshot | server callbacks, task, `deactivate`'s wait | server thread, executor | `Notifications`, `Mailbox` |
| Client construction, library loading (`client.rs` 130-210, `sys.rs`) | two once-cells, one `Once` | `build`, `weak_library`, `library` | every thread of the program | `ClientBuild`, `LibraryOnce` |
| Buffers of a port (`process.rs` 115-237) | `buffer_lock` of a port, guards, shared views | `audio_in_buffer`, `audio_out_buffer`, `midi_in_buffer`, `midi_out_buffer` | process callback | `PortBuffers` |
| MIDI input (`process.rs` 240-395) | `index`, `len` of an iterator | `next`, `next_back`, `size_hint`, drop | the views of `PortBuffers` | `MidiIter` |
| Port lists, properties, foreign strings (`port.rs` 303-337, `properties.rs`, `lib.rs` 120-240) | allocations of the server and the values that own them | calls that return them, `to_vec`, drops | server's allocator | `ForeignMemory` |
| Scope example (`scope.rs`) | ring, relay thread with a park token, triple buffer of samples, `quit` | process callback, relay, add/remove port, render, shutdown | server, main loop | `ScopeExample` |
| Runtime adapters (`tokio.rs`, `glib.rs`) | none | `spawn_local`, `interval` | executor | fairness; faults of `PortHost` |
| Port handles (`port.rs`), transport (`transport.rs`), metadata, identifiers, times and errors (`lib.rs`), sine example, `build.rs` | none or a plain struct | accessors, setters, conversions | server | see section 6 |

Threads: the *main thread* runs every call on the client, and between the
calls the executor polls the collector and the notification task; the *process
thread* of the server runs process, sync and timebase callbacks; the *server's
notification thread* runs the others; building a client, and dropping foreign
values, may happen on any thread. The scope example adds its relay thread.

Behaviours that are hard, and what makes each component correct:

* **Ports.** A slot of the buffer changes its role between any two steps of the
  main thread, and the reference counts are not atomic. Correct means: the main
  thread never touches the slot a callback reads; a group of ports appears and
  disappears in one step; no publication is lost; a port is unregistered only
  after nobody can look it up, and eventually it is; there is at most one
  collector, and nothing survives the client. The user's iterator may panic half
  way or make calls of its own, the executor may lose the collector, and the
  process handler may end the cycles; what the client owns stays valid.
* **Lifecycle.** Installation is a dozen calls into the server, each of which
  may be refused. Correct means: the server never holds a pointer to freed data
  while it may use it, it calls the handlers of the current activation and no
  other, the timebase is given up before its data goes.
* **Notifications.** They cross threads, and the client may be deactivated or
  dropped while some are queued. Correct means: handled in order, none lost,
  the handler has one owner, the wait in `deactivate` ends.
* **Construction.** Threads race for the first use of the library. Correct
  means: loaded once, the same answer for all, log functions before the first
  client, and nobody waits for ever for a thread that panicked.
* **Buffers and events.** Guards can be leaked and events refused. Correct
  means: a lock is held as long as its guard and no longer, an iterator stays
  within the buffer, delivers each event once and stays ended.
* **Foreign memory.** Each allocation has one owner and is freed once.
* **Scope.** No message waits for a relay that sleeps, fresh samples are shown
  although the ring may refuse the message, sample slices stay within vectors
  that three threads size.

The hazards this list stands for, each at its line with the properties that
cover it, are in `PROJECT.json`.

## 2. Modules

| Module | Content |
|---|---|
| `TripleBuffer` | the control word of the external crate `atb`: roles `front`, `pending`, `back`, flag `dirty` |
| `PortSync` | ports, buffers, counts, collector, process callback, teardown; properties; inductive invariant |
| `PortHost` | `PortSync` with whole periods, iterators that panic or make calls and a collector that can be lost |
| `PortView` | what `PortSync` implements: tables that change group-wise, a view kept for a cycle, reclaiming of unreachable ports |
| `Activation` | lifecycle and callback table |
| `Notifications` | channel, task, wait |
| `Mailbox` | what `Notifications` implements: a sequence sent, a beginning of it delivered, the handler back after the last |
| `MidiIter` | the double-ended iterator over the events of one buffer |
| `PortBuffers` | output locks, guards, views; extends `MidiIter`, whose iterator borrows a view |
| `ClientBuild` | the cells of `sys.rs` and the `Once` of `build` under racing threads |
| `LibraryOnce` | what `ClientBuild` implements: loading is decided once, each call answers by it |
| `ForeignMemory` | allocations of the server and their owners |
| `ScopeExample` | the example's threads, extends `TripleBuffer` with the process thread as writer |
| `MCPortSync`, `MCPortHost`, `MCActivation` | instances for TLC: symmetry of the uuids, three of the ten notification setters |
| `*_proofs` | TLAPS proofs, eight modules |

Definitions marked `fault` are deliberate errors. No specification uses them:
each one is substituted for the definition after it to show that a property
notices.

### PortSync and the code

`ports` is the key set of `Client.ports`; `buf[s]` the key set of the map in
slot `s`; `rc[p]` the strong count of the port's `Rc`; `registered` what the
server holds for this client. Cloning a map (`Assign`) counts up, dropping one
counts down, and the count that reaches 0 runs `PortPtr::drop`, which
unregisters the port. Names, flags and port data are left out: no step depends
on them. A uuid may be handed out again once it is unregistered.

`register_ports` is `RegisterCall`, one `RegisterPort` per item the server
accepts (an item it refuses changes nothing, so the group may be any subset),
then the write to the back slot in two steps, `RegisterLock` and
`RegisterWrite`, and `RegisterSwap`. The two-step write makes "the main thread
holds this slot" a state, so that an overlap with a callback would be one too.
`unregister_ports` is `UnregisterCall`, `UnregisterWrite`, `UnregisterSwap`; the
collector is `GcTick`, `GcClearBack`, `GcClearPending`, and `GcOrphan` after the
client has gone. A call with no ports returns at once and is no step. The
process thread is `BeginCycle`, then `EndCycle` or `BreakCycle`:
`front_buffer()`, and its guard's drop with the result of the handler. It can
take any step between those of the main thread. `cycling` says that the server
goes on calling it: from an activation with a process handler until the
deactivation, the close, or a `ControlFlow::Break`, which makes the callback
return -1 (`callbacks.rs` 387-390). After a break the client is still an
`ActiveClient` (`phase = "active"`) and calls on it go on as before.

The main thread is one thread, so calls and collector ticks exclude each other:
the executor gets control only at `pc = "idle"`. `deactivate` leads to
`"deactivated"`, not back to `"inactive"`, because it returns a `Client`, which
cannot be activated. Of `activate` only what matters here is in `PortSync`
(active or not, with or without a process handler); the rest is `Activation`.

`TripleBuffer` is external. From the way it is used: `front_buffer()` exchanges
front and pending if the flag is set, `swap()` exchanges back and pending and
sets it, `pending_mut()` is `Some` iff it is not set. If the crate did
otherwise, the properties would not carry over.

### PortHost and the code

Three facts outside of the crate's control are added. A *period* runs up to
three callbacks, each of which takes the front slot on its own (`callbacks.rs`
381, 718, 757): `PeriodBegin`, `CallbackBegin(k)`, `PeriodEnd`, with `seen`
the ports the period could look up and `moved` true once a later callback
picked up a newer map; only the process callback can break (`ProcessBreaks`),
and the period is then the last. The *iterator* handed to `register_ports` and
`unregister_ports` runs between their steps. It may panic (`RegisterPanics`,
`UnregisterPanics(S)`): the ports registered or removed so far stay so and
nothing is published. That of `register_ports` runs while nothing is borrowed
(`client.rs` 388-390 borrow the map for one insertion), so it may make calls
on the client and let the executor poll the collector: `IteratorCalls` goes
back to `pc = "idle"` with one more call in `outer`, `IteratorGoesOn` returns
to the loop of that call. It borrows the client, which therefore cannot be
activated, deactivated or dropped meanwhile. That of `unregister_ports` runs
under the mutable borrow of 409-412, where a call panics: `UnregisterPanics`.
The *executor* may panic when asked for the collector (`SpawnFails`:
`pending_port_gc` is set just before) or drop it later (`CollectorLost`).
`Faults` says which of these may happen, `MaxNested` how deep calls nest.
Deactivation and close return only when the period is over. All other steps
are those of `PortSync`.

### Activation and the code

`cb[k]` is the data pointer the server holds for callback `k`: `null`, `live`
(the box of the activation tried or in force) or `freed`. `Plan` is the order of
the setter calls in `activate` (829-887) and in the `set_`/`unset_` functions of
`callbacks.rs`; `Install` and `InstallRefused` are one call succeeding or
failing, `JackActivate` the call whose error is dropped (888-890), `GiveBack`
the error path (892-904). Other clients may take and release the timebase at
any moment. The server is assumed to run callbacks only between a successful
`jack_activate` and `jack_deactivate` or `jack_client_close`, and these two to
return only when the callback in progress has: `src/` relies on both. A
handler that breaks ends its cycles but not the other callbacks, so
`serverActive` stays true: the properties then ask for more than is needed.

### Notifications and the code

`queue` is the mpsc channel, `task` the future spawned in `activate` (911-919),
`handlerAt` the owner of the handler. `Deactivate` covers the call and
`drop(data)`, after which the future waits (`AwaitReady`, or `AwaitPanics`:
`rx.await.unwrap()` when the task died). `TaskKilled` is a panic of the handler
or the end of the executor. `Drop` is the drop of the `ActiveClient` or of the
future. A failed `deactivate` changes nothing here.

### ClientBuild and the code

`weak` and `lib` are the cells `LIBRARY` of `weak_library()` and `library()`
(`sys.rs` 34-64), `log` the `Once` of `build` (`client.rs` 144-165); `weakBy`,
`libBy`, `logBy` the thread inside. Loading gives the library (`ok`), a library
that lacks the log functions (`partial`: `build` then panics inside of the
`Once` and poisons it) or an error, which the first cell caches and on which
`library()` panics, leaving its own cell empty. A thread at a cell that is being
filled has no step, which is how it waits.

### PortBuffers, MidiIter and the code

`locked` is the `buffer_lock` of the output ports (`process.rs` 181-193,
222-237), `guards` the `RefMut`s alive, `forgotten` those passed to
`mem::forget`, `shared` slices and `MidiInput`s that borrow an input. A request
with the wrong direction or type, or of a locked port, panics; that meets an
`extern "C"` frame and ends the process, `aborted`. A callback cannot end with
borrows alive: the types see to it. `MidiIter` is `next` (331-337), `next_back`
(346-353) and `size_hint` (339-342, with the subtraction modulo `Width`);
`times[e]` is a history of how often event `e` was handed out, `bad` the events
`jack_midi_event_get` refuses. `ends` fixes which of the two methods the caller
will use; `len` is compared with 0 in `next_back`, so the two ends may cross.

### ForeignMemory and the code

`live` is what the server allocated and was not asked to free; the other
variables say which value of the crate owns it: a `JackStr` of the call in
progress, a `PortList`, a `PropertyDescription`, a `PropertyDescriptionList`
or one half dropped. `ClientName` is the address of the string the server
lends to `name()`, which a `JackStr` frees like any other (`NameCall`,
`StringsDrop`); `wrong` collects what was freed though it was no allocation of
the caller's. What a real allocator makes of that is undefined; the model goes
on unharmed, so that the other calls can be judged. A list of names that is
not null is read past its end (`ReadName`, `ReadNull`), which ends the
process: `"crashed"`. `StringsCall` is `property()` and
`client_name_by_uuid()`, `UuidCall` the users of `Uuid::from_raw`, whose
`unwrap` may panic before the string is freed (`lib.rs` 159-171). A
description counts as one allocation, since `jack_free_description` frees its
parts together.

### ScopeExample and the code

One port. The process callback is `Callback` (copy and swap), `Push` (refused
when the ring is full) and `Unpark`; the relay loop is `RelayChecks`,
`RelayPops`, `RelayParks`, `RelayWakes`, with the token of `thread::park` as
`token`; the main thread `AddPort`, `RemovePort`, `Receive`, `Render`,
`BufferSize`, `Drop`, `Join`. Samples are abstracted to how many of them a slot
holds (`nframes`) and how long its vector is (`len`).

## 3. Runs

| Run | Bounds | Shows |
|---|---|---|
| `ports_safety` | 3 interchangeable ports | inductive invariant, the safety properties, `PortSync` implements `PortView` |
| `ports_host` | 2 interchangeable ports, all faults, 1 nested call | owned ports stay registered, calls and collections repair what a panic left, a period keeps its data |
| `ports_host_reclaim` | 1 port, all faults, calls nested 2 deep | garbage is reclaimed, or the cycles have ended or the collector was lost |
| `activation_safety` | 3 notification setters | inductive invariant; own handlers only; the leftovers that can exist; timebase |
| `notifications` | 2 kinds, 4 notifications | inductive invariant with the owner of the handler, order; channel, task and oneshot implement `Mailbox`; the wait ends, all are handled |
| `callback_buffers` | 4 ports, one of each kind, 3 events, one view per input | locks and leaks; iterator: bounds, once each, none left out, hint, fused |
| `library_and_build` | 3 threads, 2 calls each | cells and `Once` implement `LibraryOnce`; hooks first; no circle of waiting; every call returns |
| `foreign_memory` | 4 allocations, lists of at most 1 name | one owner for each, until it is freed |
| `scope_relay` | ring of 2, periods of 1 or 2 frames, 3 callbacks | slices in bounds, no sleeping relay, fresh data announced and shown, shutdown of an awake relay |

Why the bounds are enough. Two ports make one that stays and one that goes, at
once or in turn; a third lets three slots differ in all ways. Counts,
collectors and calls are not bounded: the state space is finite without. The
properties speak of one port at a time, and the proofs do not depend on the
number. Notification setters are alike: the first, a middle and the last place
of refusal are present. `MaxSent` lets two be queued, one handled, one sent
later. Three events are enough for a front end, a back end and one between or
none; `Width` only has to exceed `MaxCount`. Three threads make one inside a
cell, one waiting and one that comes later; two calls let a thread come back
after its panic. Four allocations hold a list with an array and two
descriptions, or one description next to a list, while a string is in flight. A
ring of two can be empty, partly filled and full within three callbacks, and a
period can exceed the vector made for the other one (`MinLen` 1). One nested
call leaves a group half registered while another call and the collector run;
two of them return in the order in which they were made. With the faults of
`ports_host` two ports give a group that is split, or one port in a group and
one that is collected. `ReclaimedOncePublished` speaks of one port, and
`ports_host_reclaim` has one: calls that concern other ports act on it through
the buffers, the flag and the collector, as a `register_ports` whose items are
all refused and an `unregister_ports` of a port that is gone already do.

Symmetry is used in `ports_safety` and `ports_host`, which have no liveness
property.

Deadlock is checked wherever a module has a `Terminated` (or `Aborted`) step as
the only thing left to do. It is switched off in three runs that really may
stop: `library_and_build` (all calls made), `foreign_memory` (the process has
crashed, or panics have leaked every address of the bound), and `scope_relay`
(the client is gone, or all callbacks of the bound have happened).

Runs that end in a violation, each stating what the documentation says:

* `ports_reclaim_after_cycle`: unregister a port during a cycle, deactivate
  before the next one, or let the process handler break. The newest map is
  never picked up, the old one is never cleared, the port stays registered
  until the client is dropped (lib.rs:57-60 promises otherwise) and the
  collector wakes up for ever.
* `activation_freed_callback`: an activation with `SYNC` is refused after the
  sync callback was set; the client that comes back is activated without a
  process handler; the server still holds the old pointer. (The same with
  `LATENCY` and no notification handler.) `LeftoversOnlyWithoutHandler` shows
  that these two are the only cases.
* `ports_host_period`: the sync callback of a period takes a map with a port;
  the port is unregistered; the process callback of the same period takes the
  newer map, the collector clears the old ones, and the data is gone before the
  period is over, against lib.rs:57-60 if the "process cycle" is the period.
  `PeriodKeepsData` is what is left of it.

### What passing properties leave open

Some properties hold only under a condition that names a weakness of the code.
The weaknesses are described above or in section 5; the properties say what
holds all the same. `PeriodKeepsData` needs `~moved`: when the sync and the
process callback of one period pick up different maps, data the first one saw
may go before the period ends (`ports_host_period`). `ReclaimedOncePublished`
excepts a port that the callbacks' map still shows when the cycles have ended,
by a deactivation or by a `Break`, and a collector that was lost:
`pending_port_gc` then stays set and no later call starts another.
`OnceUntilCrossed` and `HintExact` need `Meeting`: iterating from both ends
hands events out twice, and `size_hint` wraps. `Complete` is about events left
out, not about those handed out twice. `Complete` excepts a buffer with a
refused event at an end: `None` then also stands for the error.
`CollectionReturns` allows what the callbacks' map still holds after a panic
that left a map unpublished. `OnlyLeaksSurvive` allows what was forgotten: the
next request of that port panics. `OneOwnerEach` counts what a panic in
`Uuid::from_raw` leaked. `AwakeRelayIsJoined` needs a relay that is awake:
dropping `ClientState` with the relay parked joins a thread nobody unparks.
`TimebaseOwned` does not say that a client whose `deactivate` failed keeps its
timebase: it does not (`client.rs` 1024-1034).

### Fairness

`PortSync`: a call that has begun runs to its end (weak fairness of its steps:
they run on one thread and do not wait). The collector is polled after its
interval if the executor gets the thread infinitely often; calls disable it
again and again, hence strong fairness of `GcTick`. A client is cycled by the
server as long as `cycling` holds, that is until a deactivation or a `Break`
of its handler, and callbacks return, as JACK requires: weak fairness of
`BeginCycle` and `EndCycle`. A `Break` is never forced and never excluded.
`PortHost` has the same for periods, each with a process callback; no fault is
fair. An iterator has finitely many items and makes finitely many calls:
strong fairness of `RegisterLock` and of `IteratorGoesOn` at each depth, since
other steps disable them in between. Whether it lets the executor run is up to
it, so `GcTick` is fair only while no iterator runs calls (`outer = 0`). No
call of the user is fair, `activate` and `deactivate` included.
`Notifications`: a woken task, and the future that waits for it, are polled.
`ClientBuild`: a thread that can go on does; the operating system schedules
them. `ScopeExample`: a callback that began pushes and unparks, the relay runs
when it can, the main loop serves its channel and its draw queue and the join
returns once the thread has ended; no further callback, no spurious wake-up
and no unpark is forced.

## 4. Proofs

All theorems hold for every value of the constants within the named
assumptions: bounds are natural numbers, `MaxNested` included, distinguished
values (`Nobody`, `Null`, `ClientName`) are none of the set they are added to,
`MaxCount < Width`, inputs and MIDI ports are ports, the ring has at least one
place. `Ports` and `Msg` are unconstrained. Every property of a passing run
that is not a liveness property is stated by a theorem. Some theorems state
properties that no run lists because another property of that run says more:
`SingleCollector` (`IInv`), `HandlerOwned` and `PrefixDelivered` (conjuncts of
`PipeInv`), `CompleteOnReturn` (`ImplementsMailbox`), `SameAnswer` and
`CacheFinal` (`ImplementsLibraryOnce`), `NothingLeft` (`OneOwnerEach`), and
the type invariants. `OnlyNameIsWrong` is proved only; the run has
`OneOwnerEach`, from which it follows. `LoadedOnce` is proved only: it says
that the library is not even loaded twice with the same result.

* `PortSync_proofs`: `Spec => []IInv`. None of the properties is inductive:
  that a callback sees registered ports depends on counts being exact, this on
  who holds which slot, and that the last slot may be cleared on what `dirty`
  says of the others. `IInv` says: the three roles are distinct
  (`RolesDistinct`); the slot the main thread holds is `back`, or the pending
  one when it is clean (`SlotBorrowed`); each count is the number of maps that
  hold the port (`RcExact`) and the server holds what is counted
  (`ServerExact`); the latest map agrees with `Client.ports` as far as the call
  in progress has got (`TableCurrent`); with no collection pending every map is
  a subset of it (`AllCollected`); plus the collector flag and the phase. One
  lemma per action; `AssignExact` deals with the counts of the four actions
  that write a slot. The refinement `Spec => ImplementsPortView` is at the end:
  a swap is the abstract publication or removal, a write to a slot is a
  reclaiming, all other steps of a call are invisible.
* `PortHost_proofs`: with faults `TableCurrent` and `AllCollected` fail, so
  `HostInd` keeps the half of `IInv` that says who holds what (`Counts`,
  `Borrowing`; a nested call begins where nothing is held, so the nesting adds
  nothing to them) and adds `PeriodExact`: in a period whose callbacks shared
  one map, what was seen is in the front slot. `OwnPortsRegistered`,
  `PeriodKeepsData` and the action properties `CallRestores` and
  `CollectionReturns` follow. Four properties of `PortSync` are proved again
  with faults (`NoDataRace`, `CycleSeesRegistered`, `NoLeakAfterDrop`,
  `ViewStable`): they need no more than `Counts` and `Borrowing`. The others
  do fail with faults, but `FaultFree` shows that without them `HostSpec =>
  Spec`: no calls are nested (`NotNested`), and a period's steps are cycles or
  invisible, so that the refinement of `PortView` and
  `NoGarbageWithoutCollector` carry over (`FaultFreeTables`).
* `Activation_proofs`: `ActInv` relates callback entries to boxes. An entry is
  `live` only with its box (`LiveOwned`); while installing, what the plan has
  passed is set as wanted (`InstalledSoFar`); an active client has all of it
  (`ActiveExact`); the timebase entry has its own clause since two paths
  outside of the plan change it (`TimebaseExact`). `TypeOK` alone says nothing
  of that; `ActInv`, which the run checks too, is what is inductive.
  `PlanShape` and `PlanComplete` state what the concatenated plan contains.
* `Notifications_proofs`: order, ownership and completeness, with associativity
  of concatenation as the only fact about sequences. A task that dies takes the
  queue with it, so that order alone does not say what was delivered:
  `PrefixDelivered`, a conjunct of `PipeInv`, does. The refinement
  `Spec => ImplementsMailbox` rests on it: the message the task takes is the
  next one of `sent`.
* `ClientBuild_proofs`: `CellInv` says which thread is inside which cell and
  what a filled cell implies of the others; single load, hooks, agreement of
  the answers and finality of the cache follow for any number of threads.
  `NobodyStuck` follows the chain of waiting: a thread at `lib` waits for one
  that is at `weak` or inside, that one for a thread that loads. `CanStep` is
  written out, since `ENABLED` cannot be reasoned about here. For the
  refinement (`LibraryRefinement`), `Load` is `Decide` when the call goes on
  and `Answer` when it ends there; the steps between cells are invisible.
* `PortBuffers_proofs`: `IterInv` counts each event by the ends that passed
  it, also after they crossed; `HintExact` follows by the cardinality of an
  interval. `Complete` needs a history as well: `EndedInv` says how an answer
  of `None` came about. The lemma `IteratorSteps` (the steps of `PortBuffers`
  are those of the iterator or leave it alone) carries the theorems over to
  the callbacks; `LockInv` gives `OnlyLeaksSurvive`.
* `ForeignMemory_proofs`: `OneOwnerEach` with what each kind of call holds
  (`CallExact`) is inductive; `OnlyNameIsWrong` needs it, as a drop frees what
  its value owns, or the string lent to `name()`.
* `ScopeExample_proofs`: slots in range and vectors at least as long as what
  they hold (`SizesInv`); messages, token and callback (`RelayInv`); ranges,
  the number of messages and what announces fresh samples (`MessagesInv`), on
  which the liveness property `FreshDataIsRendered` rests.

Only model-checked: the liveness properties (`ReclaimedOncePublished`,
`DeactivateEnds`, `EverySentIsHandled`, `EveryCallReturns`,
`FreshDataIsRendered`, `AwakeRelayIsJoined`), out of the prover's reach, and
the violations.

## 5. Defects seen in the code that have no run

Each is certain, pure, or needs one order of a few steps, so that there is
little to explore. Those that are part of a model are named with the action:

* `client.rs` 727-738: `Client::drop` closes the client first; its fields, and
  with them the ports, are dropped after, so that `PortPtr::drop`
  (`process.rs` 461-470) unregisters through the closed handle (`DropPorts` and
  `DropBuffers` come after `CloseClient`).
* `client.rs` 888-890: `map` where `and_then` was meant: the error of
  `jack_activate` is dropped and an `ActiveClient` returned (`JackActivate`).
* `client.rs` 388-390: an iterator given to `register_ports` that calls
  `register_ports` or `unregister_ports` itself makes them publish the first
  part of its group, against lib.rs:49-51 (`IteratorCalls`). Without such calls
  groups are atomic (`ImplementsPortView`, and `FaultFreeTables` in section 4).
* `client.rs` 610-614: `name()` frees the string it was lent, the server's own
  name of the client (`NameCall`).
* `process.rs` 347: `next_back` stops at 0 and not where the front end is:
  `next` takes the only event and `next_back` takes it again (`NextBack`);
  `size_hint` then wraps (`SizeHint`).
* `scope.rs` 96-97: `ClientState::drop` sets the flag and joins, but nobody
  unparks the relay: if it sleeps, or has just tested the flag, the join waits
  for ever (`Drop`, `Join`).

* `process.rs` 64: the period in microseconds is multiplied by a million where
  it should be divided.
* `process.rs` 236: the pointer to the MIDI buffer is transmuted into a
  reference to a struct that holds the pointer, one indirection too few.
* `port.rs` 319: `to_vec` tests the pointer into the array, never null, and
  reads the closing null as a name; `ReadNull` includes that read, at which the
  process ends. The drop of a list that is not null is therefore never reached
  and has no action.
* `client.rs` 456-461, 657-659: a pattern passed by value is dropped inside
  `map`, before the server reads the pointer made from it.
* `client.rs` 912: `spawn_local` is called when the client is already active. If
  the executor panics (tokio does outside of a `LocalSet`), unwinding drops
  the boxes of the handlers, which are locals, before `self`, which closes the
  client: until then the server may call into freed data. `PortHost` has the
  other call of `spawn_local` (`SpawnFails`).
* `client.rs` 1044: `deactivate` returns a `Client`, although the documentation
  (999-1000) says that an `InactiveClient` comes back; it can not be activated
  again.

## 6. Not modelled

* `transport.rs`: setters of a plain struct and single calls into the server;
  the crate keeps no state between them and their order does not matter to it.
* Accessors of port handles, connections, latency queries, renames: one call
  into the server each, without state in the crate. `OwnPortsRegistered` is the
  fact they rest on.
* Conversions of times, flags and error codes; `metadata.rs`, which holds
  constants; the FFI declarations generated by `build.rs`.
* `sine.rs`: one closure with a phase, on top of what `PortSync` describes.
* Widgets and drawing of the scope example, and its second and further ports:
  each has a triple buffer of its own.
* Panics by `unwrap` on the triple buffer's locks: the lock is held within one
  step's scope and `SlotBorrowed` shows that no two overlap on the main thread.

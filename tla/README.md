# A TLA+ verification of bionic-vulkan-bridge

bionic-vulkan-bridge lets a glibc Linux game render with Android's Bionic
Vulkan driver.  A Vulkan ICD inside the game (the *client*) forwards calls to
a native Bionic process (the *service*), which owns the real Vulkan objects;
an Android Activity owns the window, copies the game's finished images to it
and paces presentation.  The three processes share sockets, file descriptors
and pages of memory in which they talk through C11 atomics and futexes.

This directory holds TLA+ modules translated from the C source, the TLC
configurations that check them, and TLAPS proofs.  `PROJECT.json` maps every
definition to the lines it models and lists runs, mutants, findings, hazards
and theorems.  Paths below are relative to the repository.

## 1. The system

### Components

| Component | Source | State | Operations |
|---|---|---|---|
| WSI frame ring | `src/wsi_frame_ring.c` | per slot a state and a sequence, producer and consumer sequence, two statuses, in one shared page | acquire, present, wait_present, release, fail_producer, fail_consumer |
| Virtual swapchain | `src/vulkan_global.c` 9152-10202 | images, barriers, fences and the ring of a swapchain | create, acquire, present, destroy |
| Activity frame consumer | `android/visible-host/native_main.c` | transport, consumed sequence, resumed/window flags, imported images | import, consumer thread, clear, lifecycle callbacks |
| Descriptor transaction ring | `src/descriptor_transaction_ring.c` | request/completion sequence, two wait states, two statuses, slots; lease banks | call, wait_request, complete, fail, lease publish/claim/disable |
| Descriptor worker | `src/bridge_service.c` 2712-2960 | last sequence, stop flag, journal generation and sequence | worker loop, start, stop |
| Handle table | `src/handle.c` | open-addressing table of wire id, parent, native handle | insert, lookup, remove |
| Descriptor journal and leases | `src/global_dispatch.c` 771-1004, 5398-5770; `src/bridge_service.c` 2199-2710 | pending records, journal sequence, poisoned flag; lease plans and their batches | append, flush, replay, allocate, reset |
| Client connection and dispatch | `src/global_dispatch.c` | socket, mode, request ids, proxies of every Vulkan object | connect, exchange, one function per Vulkan command |
| Command streams | `src/global_dispatch.c` 1710-1788, `src/bridge_service.c` 3815-4414, `src/command_batch.c` | stream slots leased to command buffers, recorded batches | begin, record, end, submit, replay |
| Mapped-memory mirror | `src/global_dispatch.c` 8209-8794, `src/vulkan_global.c` 8135-8615 | shadow, memfd mirror with a baseline, or exported memory; generations | map, unmap, flush, invalidate, synchronise at submit |
| Service connection loop | `src/bridge_service.c` 4416-5076 | one context per connection, accept loop, limits | accept, request dispatch, teardown |
| Native object ownership | `src/vulkan_global.c` | native objects with parents, per connection | create, destroy, cascade |
| Lifecycle events | `src/lifecycle.c`, `src/bridge_service.c` 422-542 | sequence and status of the Activity, a copy per connection | send, acknowledge, apply event |
| Activity renderer and callbacks | `android/visible-host/native_main.c` | renderer request with its generation, worker, resumed/window flags, device mutex | callbacks, build, publish, tear down, heartbeat |
| Frame sync region | `src/frame_sync.c` | producer and consumer sequence with statuses | publish, wait, fail |
| Visible ingress, relay, transport | `src/visible_ingress.c`, `src/shared_region_relay.c`, `src/transport.c` | pending descriptors and their claims | send, receive, relay |
| Wire codecs | `src/protocol.c`, `src/vulkan_*_wire.c` | none | encode, decode, validate |

### How the parts interact

* The client holds one mutex (`bvb_global_client.mutex`) around every
  exchange.  Requests are synchronous on a Unix socket; descriptor-set
  allocation may instead use the shared descriptor ring or claim a lease from a
  bank in the same page, and template updates are collected in a journal page.
* The service runs one thread per connection, plus one descriptor worker per
  connection.  Both take the connection's context mutex for each request.
* The service gives the swapchain's images and the control page of the WSI
  frame ring to the Activity through the visible ingress.  From then on the
  two meet only in that page.
* Android's callbacks in the Activity (resume, pause, window created or
  destroyed) gate its consumer thread, ask the renderer worker for a renderer
  and report events to the service, which refuses swapchains without a window.
* Commands are recorded into slots of a shared region and read by the service
  when a submission names them; mapped memory is shared or compared at the same
  moment.

### What is hard

Lock-free hand-over between processes, futex sleeps against wakes, failure
published from either side at any time, calls that time out while their answer
is on the way, sequence numbers at their 32-bit limit, slots and tables at
capacity, allocation batches and updates whose order must survive three
different channels, and teardown while the other side is in the middle of a
call.  `PROJECT.json` lists each such hazard with its line and the properties
aimed at it.

### What makes each part correct

* *Frame ring*: frames are shown once and in order; an image is never owned by
  two parties; two correct sides never report a protocol error; nobody sleeps
  on something that has already happened.
* *Descriptor ring*: a call returns the answer to its own request; requests are
  executed in order and at most once, also after a timeout; calls and the stop
  of the worker end.
* *Handle table*: it is a map, whatever the collisions and removals.
* *Journal and leases*: updates take effect before any later operation, at most
  once; a set is handed out once and never survives a reset of its pool.
* *Command streams*: a slot has one owner, and what is replayed is what was
  recorded.
* *Memory mirror*: no store of the host is forgotten, no byte of the GPU undone,
  and the two sides never disagree about a mapping.
* *Object ownership*: proxies, table, metadata and native objects agree, and
  children die before their parents, whatever fails half way.
* *Activity*: the consumer never touches a renderer that is gone, a late result
  never stands for a newer request, and the service believes what is true.

## 2. The modules

| Module | Models | Kind |
|---|---|---|
| `FrameQueue` | what the image ring promises | abstract specification |
| `WsiFrameRing` | `wsi_frame_ring.c` with its producer and its consumer | detailed, refines `FrameQueue` |
| `WsiFrameRingProofs` | theorems about `WsiFrameRing` | proofs |
| `SequenceWait` | `wait_sequence`: spin, announce, recheck, futex | part, instantiated twice |
| `DescriptorRing` | call, worker and stop over `descriptor_transaction_ring.c` | composition |
| `DescriptorRingProofs` | theorems about `DescriptorRing` | proofs |
| `DescriptorPools` | what an application may expect of its descriptor sets | abstract specification |
| `DescriptorSets` | journal, leases and live batches of the shared descriptor mode | detailed, refines `DescriptorPools` |
| `MCDescriptorSets` | signatures and symmetry for TLC | model values |
| `DescriptorSetsProofs` | theorems about `DescriptorSets` | proofs |
| `HandleMap` | what the handle table promises | abstract specification |
| `HandleTable` | `handle.c` | detailed, refines `HandleMap` |
| `MCHandleTable` | ids and hash for TLC | model values |
| `HandleTableProofs` | theorems about `HandleTable` | proofs |
| `ServiceObjects` | the `bvb_vulkan_global_context_*` functions over table, metadata and native objects | operators on the context |
| `BridgeService` | the `answer_*` functions of `bridge_service.c`; extends `ServiceObjects` | operators on the context |
| `Bridge` | the client's Vulkan entry points with the service's answers; extends `BridgeService` | composition of client and service |
| `MCBridge` | what small applications hold | model values |
| `BridgeProofs` | theorems about `Bridge` with all of `ServiceObjects` and `BridgeService` | proofs |
| `CommandStream` | recording in shared slots, submission, validation, replay | composition of client and service |
| `MCCommandStream` | what applications record, and symmetry | model values |
| `CommandStreamProofs` | theorems about `CommandStream` | proofs |
| `MemoryMirror` | one mapped allocation on both sides, host stores and GPU writes | composition of client, service and GPU |
| `MemoryMirrorProofs` | theorems about `MemoryMirror` | proofs |
| `ActivityHost` | callbacks, renderer worker, consumer, lifecycle events and the service's belief | composition of threads and service |
| `ActivityHostProofs` | theorems about `ActivityHost` | proofs |

### WsiFrameRing

The variables of the first group are the words of the shared page under their
own names.  `ppc` and `cpc` say where the service thread and the consumer
thread are; between two labels lies exactly one access to a word the other side
may change.  A `futex_wait` is the kernel's comparison followed by a sleep, a
`futex_wake` moves a sleeper.  `p_*` and `c_*` are locals.  `held` is what the
application may draw into, and `queue` is history: the slots stamped and not
yet released, in order.

The producer's actions are `acquire_ring_slot` around
`bvb_wsi_frame_ring_acquire` (three kinds of timeout), the ownership barriers of
`acquire_swapchain_image` and `present` (which may fail and then fail the whole
ring), `bvb_wsi_frame_ring_present`, and destruction.  The application may
present any image of the ring, also one it does not hold: the code leaves that
to the slot's compare-and-exchange.  The consumer's actions are
`game_frame_consumer_main`: its gate on the Activity's flags, `wait_present`
with the two scans, the copy, `release`, and the clearing of the transport.
Stores are in program order: every word is written with release and read with
acquire order, and no argument here needs a store to be ordered before a later
load of another word.

### SequenceWait and DescriptorRing

`SequenceWait` is the loop both sides use to wait for a number: test the word,
test for failure, spin, announce `SLEEPING`, recheck, futex, and clear the
announcement.  `DescriptorRing` instantiates it for the caller (waiting for its
completion) and for the worker (waiting for the next request).  A publisher's
load of the other side's announcement may overtake its own store of the
sequence, as release/acquire allows (`publish_late`); `c_overtook` and
`w_overtook` remember it.  Requests are opaque, the response to a request is
that request; `unserved` and `in_order` are history.  The caller is the only one
at a time (client mutex), a failed call fails the ring and poisons the client,
and the connection thread may stop the worker at any moment (`stop`, fail_service, join).

### DescriptorSets

The state behind the ring: the client's journal and proxies, the service's
table of native sets, the plans of its worker and the lease banks both have
mapped.  A call is one step, because the client's mutex is held around it, the
answer is awaited in it and the service works under the context mutex; how the
two meet in the ring is `DescriptorRing`'s matter, and a call that gets no
answer poisons the client, after which no call reaches anything.

`UpdateDescriptorSetWithTemplate` appends to the journal and flushes it first
when it is full.  `Exchange` is what every request does first: flush.
`vkAllocateDescriptorSets` is `ClaimLeases` (only with an empty journal, from
the first bank whose next records match, without asking the service) or
`RingCall`, which carries the journal along, counts it even when it is empty,
and runs `descriptor_lease_allocate_live_batch`: `ExactCall`, `ObservingCall`
(the first two calls of a signature), `PassingCall` (leases left that do not
fit) and `BatchCall` (a larger allocation, halved while the pool refuses it,
whose extras are published).  Reset and destroy disable the banks and make the
plans cold or forget them.  `Poison` and `ServiceEnds` are the failures.

Content is one value per set.  `proxies` also carries, as history, the layout
and the content the application asked for; `used`, `submitted` and `result` are
history too.  The driver's pool is external: a number of sets, which may refuse
for fragmentation (`Fragments`) or for another reason.  Sets are never freed one
by one: the bridge does not offer `vkFreeDescriptorSets`.

### HandleTable

One action per call, atomic as under the context mutex.  The probe loop is
described by where it stops (`StopsAt`) and which tombstone it remembers
(`ReusesAt`), so that no recursion is needed.  Results are part of the state:
the refinement of `HandleMap` covers what a call returns as well as what it
stores.  The hash is a constant function about which only its range is assumed.

### ServiceObjects, BridgeService and Bridge

`ServiceObjects` has one operator per `bvb_vulkan_global_context_*` function,
under its name.  It takes the context (a record: table of id and parent, native
objects, metadata, mirrors, swapchain images) and returns the set of outcomes
among which the driver chooses: a new context, a status and an id.  A creation
that fails after the native object was made (table or metadata full) destroys it
again as the code does; `destroy_device` and `destroy_instance` run the
cascades in the code's order, and `early` remembers an object destroyed before a
native child.  `BridgeService` adds the conditions of the `answer_*` functions,
`Bridge` the client: each `vk*` action checks its proxies, makes one `Exchange`
(answered, lost before or lost after the service acted) and changes the proxies
on success.  The whole exchange is one step, because the client mutex is held
through it and the context mutex through the answer.  Handle values are a type and a
serial; the table here is the map that `HandleTable` is proved to implement.
Create infos decide only between success and refusal.

A loop of the code over objects of one kind (the images of a swapchain, one pass
of a teardown, the devices of an instance) is one operator on a set of ids:
none of them is the parent of another, so the order among them cannot be seen.
The order between kinds is kept: `TornDown` is a recursive function over
`TeardownOrder`.

### CommandStream

A recording call is one step or several: where the code releases the stream
mutex (to ask the registry, or before it appends) another call may come between.
`thread[b]` is where such a call is, and `StillOwned` the comparison of slot and
sequence afterwards, which some calls make and others do not.  The submission is
`vkQueueSubmit2` (collect and lock), the service's snapshot, validation of all
streams, consumption of the sequence numbers, replay with a driver that may fail
at any stream, and the client's reaction to the status.  A record is a kind and
the object it names.  An application is *careful* (it uses a command buffer from
one thread at a time and submits what it has ended) or *careless*;
`RunsWhatWasRecorded` speaks of the careful ones, the rest of all.

### MemoryMirror

One allocation with a few bytes.  The application stores to the mapped bytes and
submitted work writes native bytes at any moment, in the middle of a call too.
Three calls therefore take several steps.  The upload of a coherent mirror, at a
submit and at the unmap, compares byte by byte (`upload_host_diverged_range`) and
copies a run of differing bytes to the native memory (`upload_native`) and, read
again, to the baseline (`upload_baseline`).  A flush copies its range from the
mirror to the native memory (`flush_memory_mirror`) and again from the mirror to
the baseline (`flush_baseline`).  An invalidate copies its range from the native
memory to the mirror (`invalidate_memory_mirror`) and again from the native
memory to the baseline (`invalidate_baseline`).  `late`, `hostWrote` and
`gpuWrote` are history, and so are the bytes changed between two such reads: by
the host (`torn`) or by the GPU (`stale`).  The three modes of
`BVB_MAPPED_MEMORY`, coherent and other memory, exportable and other memory are
initial choices; every answer may be lost.  The application does not store to a
mapping while it unmaps it, nor to a byte the GPU is writing.

### ActivityHost

Callbacks come one after the other on the main thread, in an order Android may
use; each sets the flags at once and leaves its remaining work (`main`: report
an event, schedule a renderer) to be done in steps.  The worker's round is take,
lock, build, publish, report; the consumer's is gate, lock and look again, wait
and copy.  The worker thread may fail to start, which only `on_window_created`
reports; the other failure of `schedule_renderer`, the 2^64th request, is left
out.  An event is awaited under the lifecycle mutex; when its
acknowledgement does not come the reporting ends, and the record may still be
handled later.  `client` is a game's connection with the copy of the status it
got at accept.  `mode` is the launch: a retained renderer for a game, a local
heartbeat, or a visible ingress.

## 3. The runs

| Run | Checks | Instance |
|---|---|---|
| `wsi_ring` | `TypeOK`, `ReadsOldestFrame`, `NoProtocolError`, `NoImageLost`, `ConsumerNotStranded`, `ImplementsFrameQueue` | 2 slots, 3 sequence numbers, 4.1 million states |
| `wsi_live` | `PublishedIsShown` | 2 slots, 2 sequence numbers, fair threads |
| `wsi_failure_lost_wake` | `FailureWakesAcquire`, violated | 2 slots |
| `descriptor_ring` | `TypeOK`, `AnswersOwnRequest`, `ExecutesInOrder`, `NoBrokenRing`, `NoLostHandoff`, `WaitsEnd` | 2 requests, 2 slots, 3 sequence numbers, fair threads, 510 561 states |
| `descriptor_journal` | `InSync`, `JournalAccepted`, `ImplementsPools` | 2 pools, 2 contents (both symmetric), 2 records, 4 sets, 5 journal sequences, 1 bank |
| `descriptor_leases` | `LeasesAreLive`, `PoolSpaceAccounted`, `ImplementsPools` | 1 pool of 7 sets, 2 nested signatures, 9 sets, batches of at most 4, 2 epochs |
| `handle_table` | `EntriesReachable`, `CountIsOccupancy`, `ImplementsMap` | 4 entries, 4 ids with colliding and wrapping hashes, 2 ids no table accepts |
| `bridge_objects` | `ClientMirrors`, `TableIsExact`, `DiesInOrder`, `RequestsAccepted` | 9 application shapes, a table of 9 entries, 1 template slot, 2 swapchain slots, 2 images each, 93 016 states |
| `command_stream` | `SlotsAccounted`, `RunsWhatWasRecorded`, `DirectStaysInRecording`, `NoDoubleReplay`, `ReplaysOnlyValid` | 2 buffers (symmetric), 1 object, 2 slots of 5 records, 2 streams in a submission, 1 generation entry, 3 sequences, 7 applications, 937 450 states |
| `memory_mirror` | `SidesAgree`, `ImagesStayStrict`, `NoChangeForgotten`, `SubmitSeesHostWrites`, `GpuBytesKept` | 2 bytes of 2 values, 3 modes, 2 mappings, 4.15 million states |
| `memory_mirror_torn` | `UnchangedBytesKept`, violated | 1 byte, shared mode, 1 mapping |
| `activity_host` | `ConsumerKeepsRing`, `ReadyIsCurrent`, `StatusIsTruthful`, `TeardownHappens` | 6 callbacks, fair threads, 1.0 million states |

In the modules without a run of `TypeOK` by itself, it is a conjunct of the
first invariant about the two sides (`TableIsExact`, `SlotsAccounted`,
`SidesAgree`, `ReadyIsCurrent`, `LeasesAreLive`); for `HandleTable` it is proved
(`TableInvariant`).

*Bounds.*  Two slots are the least the ring accepts; a slot is used a second
time with three frames, and the fourth present meets the limit that stands for
`UINT32_MAX`.  What more slots or frames could add is covered by the proofs,
which hold for every slot count and limit.  Three descriptor calls use the first
of two slots twice and then meet the limit.  Four sets in two pools with a journal of two records fill the journal, flush it
by every kind of call and wrap its sequence; one bank for two signatures leaves
one of them without a plan.  Nine sets let a signature be observed, batched,
drained and batched again in twice the size, or reset and learned anew.
Four table entries with four ids
make the table full of entries, full of tombstones and wrapping.
Nine objects exhaust the table in some shapes and not in others, and two devices
or two instances meet; each shape holds the types that appear together in some
call, so that every entry point succeeds and fails somewhere.  Two buffers with
one generation entry make the table of sequence numbers overflow, and five
records fill a slot; two buffers never find both slots leased to others, and a
careless call begins only before the first recording, so these two cases are left
to the theorems `SlotsAlwaysAccounted` and `DirectAlwaysStays`.  Two bytes let one
run be copied while the other is stored to, and two mappings separate the
generations.  Six callbacks are enough to
create, lose and replace a window under a running worker, and to pause and
resume.

*Fairness.*  `WsiFrameRing` asks weak fairness of the service thread's steps
within a call and of the consumer thread's steps: runnable threads run.  The
consumer's gate is one of these steps; it is left because the callbacks
broadcast the condition it waits on.  The application owes no further call,
Android owes no callback, and the deadline of an acquire gets no fairness, since
it is 2^32 ms away when the application asked for an unbounded wait.
`DescriptorRing` asks weak fairness of the steps within a call, of the worker
and of the stopping thread.  A sleep may end by its deadline or by a signal, and
a sleeper that nobody wakes ends that way; no particular deadline has to pass
before the other side has answered.  In `ActivityHost` the main thread, the
worker, the consumer and the service's loop run; Android owes no callback, a
game need not come, and a mutex that is free again and again may be missed every
time, so `TeardownHappens` holds only because the callbacks close the consumer's
gate.

*Deadlock* is checked in `WsiFrameRing` and `HandleTable`.  In the others the
system may stop: a poisoned client, a closed connection, a destroyed Activity, or
the bound on recordings, mappings and callbacks.

*Mutants.*  Every property of a passing run has a mutated definition (marked
`Mutant:` and placed before the definition it changes) which violates it under
the run's own configuration.

## 4. What is proved

For every slot count of two or more and every sequence limit
(`WsiFrameRingProofs`):

* `RingInvariant`: `Spec => []RingInv`.  None of the properties is inductive
  alone: that the second scan cannot miss its frame depends on where the frame
  is in the queue, that on the slot words, and those on what either side is
  about to do.  `RingInv` therefore says that the slot words spell out the
  queue (`QueueInSlots`: the i-th frame is `PRESENTED` and numbered
  `Freed + i`), with the offsets while a stamp or a release is half done, and
  what each side knows at each label (`ProducerKnows`, `ConsumerKnows`; for the
  second scan, that it has not yet passed the oldest frame).
  That no image is lost (`NoImageLost`) needs in addition who owns an
  `ACQUIRED` slot (`ImagesOwned`).
* `TypeCorrect`, `ReadsOldest`, `NoProtocolErrors`, `NoImageIsLost` and
  `ConsumerIsWoken` follow from it, and `RefinesFrameQueue` shows that each step is a step of
  `FrameQueue` or a stutter: the stamp is the abstract present, the successful
  compare-and-exchange of `acquire` and `release` are its acquire and its finish.

For every capacity, every hash function and every set of ids
(`HandleTableProofs`):

* `TableInvariant`: types, `EntriesReachable` and `CountIsOccupancy` together
  are inductive.  The heart is that neither a tombstone nor a reused tombstone
  creates an `EMPTY` entry on anyone's probe path.
* `AlwaysReachable`, `AlwaysCounted`, and `RefinesMap`: `Spec => Map!Spec`.

For every number of slots, every set of requests and every sequence limit
(`DescriptorRingProofs`):

* `TransactionInvariant`: `Spec => []TransactionInv`.  That an answer is the
  caller's own cannot be seen from the slot alone: a slot is used again, and a
  late completion of an abandoned call would look the same.  The invariant says
  that the two sequences differ by at most one (`SequencesAgree`), what the
  slot of the request in progress holds while each side is at each label
  (`RequestInSlot`), that every other slot is free (`OthersAvailable`), and what
  a waiter has announced, loaded and concluded (`WaitsKnow`).
* `TypeCorrect`, `AlwaysOwnAnswer`, `AlwaysInOrder`, `NeverBroken` and
  `HandoffNeverLost` follow.  The last one keeps its exception (a load that
  overtook a store) in the statement.

For every set of bytes and values, every mode and every number of mappings
(`MemoryMirrorProofs`):

* `MirrorInvariant`: `Spec => []MirrorInv`.  The comparison of an upload is sound
  because the baseline is the native memory except for the bytes being copied, for
  bytes the GPU wrote and for torn ones (`BaselineIsNative`), because a byte that
  differs from the baseline was written by the host, or by the GPU in the middle
  of an invalidate (`DivergedWasWritten`), and because what a submit's scan has
  passed is equal (`SubmitUploads`).  `CallKnows` says what is half done while a
  call is in progress.
* `MappingsAgree`, `ImagesAlwaysStrict`, `ChangesReachNative`, and the two
  action properties `SubmitFindsHostWrites` and `GpuBytesAlwaysKept`.  The last
  three keep their exceptions in the statement: a host store between the two reads
  of an upload or a flush, a GPU write between the two reads of an invalidate.

For every number of callbacks (`ActivityHostProofs`):

* `HostInvariant`: `Spec => []HostInv`.  A round of the worker stands for the
  request it took and no newer one (`RoundsKnown`), only the newest record is
  awaited (`LastIsAwaited`), and a transport exists only in a renderer and goes
  with it (`TransportKnown`).
* `ConsumerAlwaysKeepsRing` and `ReadyAlwaysCurrent`.
* `StatusAlwaysTruthful`, from a second invariant, `BeliefInv`.  What a callback
  still has to do determines what Android has done (`DutiesKnown`).  Until the
  service acknowledges CREATED no other record is acceptable to it, and afterwards at
  most one record is on its way (`SessionKnown`); what the service will believe
  once it has handled that record (`Belief`) is what is so, except for what the main
  thread or the worker still owes it (`ResumedKnown`, `WindowKnown`, `ReadyKnown`).

For every number of command buffers, objects, slots, records, table entries,
sequences and streams in a submission, and for every application
(`CommandStreamProofs`):

* `StreamInvariant`: `Spec => []StreamInv`.  A slot belongs to one live buffer
  (`LeasesKnown`); a submission names its buffers as they are until it returns
  (`SubmitKnown`); the generation table remembers every stream whose replay
  began unless the buffer is gone for good (`BegunKnown`), which is what makes a
  second replay impossible although the table is bounded and its entries are
  released; and under a careful application slot, recording and native buffer
  agree (`CarefulKnown`).
* `SlotsAlwaysAccounted`, `DirectAlwaysStays`, `NeverReplayedTwice`,
  `AlwaysRunsWhatWasRecorded` and the action property `OnlyValidReplays`.
* The service fills a shadow of its generation table stream by stream before it
  replays anything.  In the model that is a recursive function of the number of
  streams taken, and the proof needs what it computes.  Its existence and
  its values are proved by induction over the streams (`SetInduction`, from the
  least member that `WFMin` of `WellFoundedInduction` gives), with the set of
  good numbers in the place of a predicate, which the provers cannot
  instantiate.

For any number of pools, layouts, signatures, sets, banks and records and any
limits of sequence, epoch and table (`DescriptorSetsProofs`):

* `SetsInvariant`: `Spec => []SetsInv`.  `InSync`, `JournalAccepted` and
  `LeasesAreLive` hold each other up: a claim asks the service nothing, so it
  keeps the two sides in step only because the lease is a blank live set; it is
  that only because no journal record names a set without a proxy
  (`JournalKnown`), because the offers of all banks are distinct and new
  (`OffersKnown`, which has to hold after the service has gone too, since the
  client can still claim), and because a bank that is ready belongs to a
  published plan of its own pool (`BanksKnown`), so that the end of a pool
  finds every bank of it.  `SerialsKnown` says that every id anywhere is below the
  next serial, which makes new sets new; `SpaceKnown` is `PoolSpaceAccounted`.
* `AlwaysInSync`, `AlwaysAccepted`, `LeasesAlwaysLive` (with the types) and
  `SpaceAlwaysAccounted` follow.
* `RefinesPools`: `Spec => ImplementsPools`.  Both kinds of update are the
  abstract update, a claim and a call of the ring (failed, exact or batched) the
  abstract allocation, whose ids are counted with a bijection; a submission
  finds what the application left because of `InSync`.
* The cutting down of a batch is a recursive function; that it exists and stays
  between what was asked for and the size it started from is
  proved by the same induction over a set (`TriesExist`, `BatchTriedFacts`).

For every application, every capacity of the table, every number of slots and of
swapchain images (`BridgeProofs`):

* `BridgeInvariant`: `Spec => []BridgeInv`.  On the service's side: the table is
  a finite forest in which every entry has a live parent of the right type and
  nothing lost is left (`TableKnown`); native objects and records are those of
  the table, each with the parent the table gives it (`NativesKnown`); a
  swapchain's images are its own and belong to its device (`ChainsKnown`).
  Between the sides: a proxy names a live object with the parent the table has,
  or something a lost device took; whatever the service owns is a proxy or the
  image of a listed swapchain (`ListsKnown`, `ClientChainsKnown`); and a device
  was made from a listed physical device (`PhysicalsListed`), without which
  `vkDestroyInstance` would leave proxies of devices the service has torn down.
  After the connection only `Leftover` is kept.
* None of the four properties is inductive alone.  That a teardown kills in order
  needs the forest; that the client removes exactly the proxies of what the
  cascade removed needs the forest and the two sets of lists; that a request is
  accepted needs the lists.
* The proof has one lemma per call or group of like calls.  Removals share one
  argument: a set of ids that contains every child of its members can go, on both
  sides (`Without`, `Closed`, `WithoutKnown`); creations share another
  (`Grown`).  The passes of a teardown are followed one by one.
* `ClientMirrorsHolds`, `TableIsExactHolds` (with the types), `DiesInOrderHolds`
  and `RequestsAcceptedHolds` follow.  `DiesInOrderHolds` says of the end of a
  `--once` connection only what is so: devices and swapchain images are destroyed
  over live children there, and nothing else is.
* The theorems speak of the model's application: it destroys the views of a
  swapchain's images before the swapchain, and its swapchains and mappings before
  the instance, as Vulkan requires; and one device at most is lost in a behaviour.

Writing the proofs changed the models in three places.  Two definitions were a
`CASE` with overlapping guards, which chooses an arbitrary branch where two
apply (TLC takes the first); they are now the `IF` chains the code has
(`CallFinish` in `DescriptorRing`, `Checked` in `CommandStream`).  And the
number of streams in a submission is a constant, `MaxCommands`
(`BVB_VULKAN_MAX_COMMAND_BUFFERS_PER_SUBMIT`).  The cascades of
`ServiceObjects`, once folds over sets of objects, are operators on the sets.
Every inductive invariant was
checked by TLC on the instance of its run before it was proved.

The assumptions are the ones named in the modules (slot count, limits, range of
the hash, the shape of the constants); TLC evaluates them in every run.

Only model-checked:

* the liveness properties `PublishedIsShown`, `WaitsEnd` and `TeardownHappens`:
  the prover has neither fairness nor ENABLED;
* the two properties that are violated, which TLC shows by a behaviour.

## 5. What the runs found

Two runs show the code doing other than its documentation says:

* `wsi_failure_lost_wake`, `wsi_frame_ring.c:261`: `publish_failure` wakes the
  futexes but changes neither word.  An acquire between its status test and the
  kernel's comparison goes to sleep on an unchanged word and learns of the
  failure only at its deadline.
* `memory_mirror_torn`, `vulkan_global.c:8544`: an invalidate reads the native
  bytes twice, for the mirror and for the baseline.  A byte the GPU writes in
  between is old in the mirror and new in the baseline; the next upload takes it
  for a host change and writes the old value back.  `docs/ARCHITECTURE.md:466-467`
  says unchanged mirror bytes cannot overwrite GPU-produced ones.

Behaviours the models contain, and a reader of the code should know of:

* `wsi_frame_ring.c:154`: acquire scans first and loads `consumer_sequence`
  afterwards.  A release between the two is not noticed, and acquire sleeps
  although a slot is `AVAILABLE`, until the next release or its deadline.  The
  consumer's `wait_present` has the second scan against just this.
* `descriptor_transaction_ring.c:159`: the announcement/recheck hand-over needs
  a store-load order that release/acquire does not give; a waiter may sleep on
  work already published.  `docs/ARCHITECTURE.md:564-566` says the order closes
  this window.  `NoLostHandoff` shows that it is the only way to lose a wake.
* `descriptor_transaction_ring.c:369`: a failure wakes but moves no word, as in
  the frame ring; `docs/ARCHITECTURE.md:566-568` says it wakes both waiters.
  `WaitsEnd` shows that the waits end nevertheless.
* `bridge_service.c:2617`: a batch is made smaller only when the *pool* is too
  small for it.  When the handle table is (4096 objects per connection), the
  request fails with `VK_ERROR_TOO_MANY_OBJECTS` although it has room itself;
  `docs/ARCHITECTURE.md:610-611` says the exact request then runs normally.
  Extras nobody has claimed take pool space too, as `docs/ARCHITECTURE.md:616-618`
  says; `PoolSpaceAccounted` bounds this to leases that can still be claimed.
* `vulkan_global.c:8237-8240` and `8548-8551`: an upload reads a differing run of
  the mirror twice, and a flush its range, once for the native bytes and once for
  the baseline.  A byte stored between the two enters the baseline only and is not
  uploaded until it changes again (`docs/ARCHITECTURE.md:461-467` describes one
  read).
* `vulkan_global.c:672-710`: `bvb_vulkan_global_context_destroy`, which runs when
  the connection of a `--once` service ends, destroys devices and swapchain images
  without looking for what was made from them; `tests/fake_vulkan.c:1094` aborts on
  a device that still has images or views.  `destroy_device`, which the
  application's requests reach, takes the children first.
* `vulkan_global.c:9061`: a driver without `vkQueueSubmit2` makes the submission fail
  with `-ENOSYS` after its streams were replayed and their numbers consumed; the
  client keeps the slots, and a retry is refused as stale.
* `vulkan_global.c:9152`: destroying a swapchain does not look for views of its
  images; `docs/EXPERIMENT_LOG.md:2604-2606` leaves that order to the
  application.
* `bridge_service.c:4936`: a connection has the Activity's status as it was at
  accept, for ever: a game that connects before the window is refused a
  swapchain although the Activity is ready by then (compare
  `docs/decisions/0005` lines 23-25).
* `native_main.c:4924`: `on_pause` clears `activity_window_present` and
  `on_resume` does not set it, so the consumer stays at its gate until a new
  window comes, while the service says resumed, with a window and ready.
* `native_main.c:4886`: in the heartbeat and retained modes the worker may report
  for a window that is gone; the service then believes in it.
* `global_dispatch.c:11485`: `vkWaitSemaphores` and `vkWaitForFences` hold the
  client mutex through their exchange, so the `vkSignalSemaphore` that would end
  the wait cannot start (`docs/EXPERIMENT_LOG.md:2474-2475`).
* `global_dispatch.c:359`: a failed exchange leaves the socket open and later calls
  use it again.  The socket blocks and has no timeout, so an exchange fails only on
  a broken or closed socket, where the later ones fail too; the model's `link` stays
  down.
* `global_dispatch.c:8904`: `submit_single_render_record` appends without
  comparing the sequence again, so two threads on one buffer may put a record
  into the next recording; `global_dispatch.c:11655`: `vkQueueSubmit` asks nothing
  of a stream that is recording or poisoned and runs what the native buffer held.
  Vulkan forbids the application both.

## 6. The plan

Every module of the plan is written and checked: the frame ring, the descriptor
ring, the handle table, journal and leases, objects and connection, command
streams, mapped memory and the Activity.  Proved: the frame ring, the handle
table, the descriptor ring, journal and leases, the memory mirror, the command
streams, the Activity, and client and service with all their objects.  Every
invariant and every action property of a passing run is stated by a theorem; what
remains is liveness.  Further work would start from what section 7 leaves out:
the visible ingress and its relay of descriptors first.

## 7. Not modelled

Vulkan itself is external: an object is created, used and destroyed, and a call
may fail.  The frame sync region belongs to a self-test that moves one frame at a
time.  Visible ingress, region relay and transport pass descriptors and framed
bytes over sockets; an exchange appears by its outcomes (answered, lost before,
lost after).  Wire codecs have no state: byte layouts of messages and command
records are abstracted to the values they carry.  The probes, self-tests and
capability tables are straight-line code that queries the driver and prints, and
the triangle demo and visible batches are earlier milestones of paths modelled
elsewhere.  Header validation of the shared pages is left out: the headers never
change after initialisation.  Threads of the application meet in `CommandStream`
and `MemoryMirror`; in `Bridge` a call is one step, so a call that blocks inside
its exchange is not seen there.

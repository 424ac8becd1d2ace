# acs-virt: specification and proofs

A TLA+ development of the virtio-mmio system of this repository: block and
console devices that live in a daemon outside the guest that uses them.  It
models the parts that share state (rings, register windows, interrupt lines, a
DMA pool), checks them with TLC on small instances, and proves the most
important invariants with TLAPS for all values of the constants.
`PROJECT.json` lists components, runs, mutated forms, the correspondence of
definitions and source lines, findings, hazards and theorems.

## The system

Two topologies of virtual machines connect a frontend guest (an ordinary Linux with
virtio drivers) to a daemon (`virtio-blkd`, `virtio-consoled`).

* **axi-socket.**  The daemon runs on the host.  QEMU's `axi` device forwards
  every register access of the guest over a Unix socket and blocks the vCPU,
  under QEMU's global lock, until the daemon ends it.  In the meantime it serves
  the daemon's DMA and interrupt messages.
* **axi-linux-uio.**  The daemon runs in a second guest.  The register file is a
  page shared by both QEMUs.  The frontend's QEMU stores a write in it, sends
  FRONTEND_NOTIFY over a control socket and waits for a NOTIFY_ACK, for at most
  `notify_delay_us`.  The backend's QEMU pulses an interrupt, the kernel driver
  `chiplets_uio` wakes the daemon, and the daemon scans the window for registers
  that differ from its shadow copy.  Policy `all` notifies for every access;
  `barrier` leaves reads and queue addresses out and makes kicks asynchronous.

A third fabric, **linux-devmem**, is for platforms where the registers are plain
shared memory and nobody tells the daemon of a write: it polls.

In the frontend guest the driver `axi_mmio` restricts DMA to an aperture: a pool
of pages with a bitmap, from which it serves coherent allocations and bounces
all other buffers.  Devices with the same aperture share one pool.

| Part | Source | Operations that change state | Modelled in |
| --- | --- | --- | --- |
| virtio core | `virtio.c` | reset, next_avail, add_used, read_desc | BlkSocket, VirtioMmio, ChainWalk |
| virtio-mmio | `virtio-mmio.c` | register write, reset | VirtioMmio, UioSetup; interrupt registers in UioKick, BlkSocket, DevMem |
| block daemon | `drivers/virtio-blkd.c` | notify_queue, mmio_write, connect; process_chain, image I/O | BlkSocket, UioKick; ChainWalk |
| console daemon | `drivers/virtio-consoled.c` | notify_queue, mmio_write; process_tx_chain | UioKick, UioSetup; ChainWalk |
| socket fabric | `fabrics/qemu_socket.c` | accept loop, serve_connection, DMA, IRQ | SocketWire, BlkSocket |
| UIO fabric | `fabrics/linux_uio.c` | scan, refresh, flush, interrupt wait | UioKick, UioSetup |
| devmem fabric | `fabrics/linux_devmem.c` | polling scan, refresh, IRQ | DevMem |
| frontend kernel driver | `kernel/axi_mmio.c` | DMA operations; pool get/put, probe | AxiDma; AxiPool |
| backend kernel driver | `kernel/chiplets_uio.c` | irq, irqcontrol | UioKick |
| QEMU devices | `patches/qemu/` | accesses, message service, notify, ACK wait, control socket, IRQ lines | SocketWire, BlkSocket, UioKick, UioSetup |
| launchers, uio-membench | `scripts/`, `tools/` | processes and files | not modelled (I/O) |

The guest's virtio drivers (probe, remove, submission, interrupt handler) are
Linux, outside the repository.  They are modelled from the way the devices here
are used and marked external.

## Modules

**AxiDma** (`kernel/axi_mmio.c`, DMA operations).  State: the bitmap, the bounce
list, page contents, and for each client the call it is in.  Each section under
`dma_lock` is one step, and each copy, which the code makes without the lock, is
one of its own, so that the calls of several clients interleave as the code
allows.  Every error path is there: exhaustion, undoing a half-mapped
scatterlist, and a `memremap` that fails in map, unmap or sync.  The code ignores
the result of the last two; the model then forgets what the buffer should hold
(`Forget`), and nothing else.  The client side follows the DMA API's ownership
rules.  Proofs in `AxiDmaProofs`.

**AxiPool** (same file, pool lifetime).  Probes look a pool up under the global
lock, allocate one without it, look again, list theirs or discard it; the last
reference unlists and later destroys it.  Proofs in `AxiPoolProofs`.

**SocketWire** (`fabrics/qemu_socket.c` and QEMU's `axi` device) has the socket
protocol message by message.  During a register write the roles change: the
device's handler sends DMA and interrupt messages, and QEMU serves them until the
acknowledgement, for which the protocol uses the kind ERROR, as it does for the
end of a DMA_WRITE.  The streams are sequences of headers and payloads.  The
daemon may crash between any two of them; a DMA may fail, upon which QEMU closes
its end while the daemon is still in the handler; a write to a connection that is
gone ends the daemon by SIGPIPE; and a new connection waits in the listen queue
until the daemon is done with the old one.  Proofs in `SocketWireProofs`.

**RegisterBus** is what SocketWire promises: an access is carried out at most once,
while the guest waits for it, and never by a device that has missed one before; an
access that returns was carried out; memory and interrupt line change only inside
a write.  BlkSocket takes this for granted: its register accesses are single steps.

**BlkSocket** (block daemon over the socket).  Ring fields are single DMA
messages; threads submit and kick, the interrupt handler reads the status,
acknowledges and drains, the daemon polls the ring, executes, publishes.  The
connection may break and the daemon may die between any two steps; the next
access reconnects to a freshly reset device.  The driver's set-up of the device is one
step.  Proofs in `BlkSocketProofs`.

**BlkService** is what BlkSocket promises: requests are executed one at a time,
in order, at most once, and completed in that order; a device that has lost its
connection does nothing until it is reset.  BlkSocket implements it under the
mapping at its end (`ImplementsService`).

**ChainWalk** (`process_chain` with the block backend, `process_tx_chain`) is the
execution that is one step in BlkSocket: the walk over the descriptor table, the
choice between mapped guest memory and `io_buf`, the growth of `io_buf`, `pread`
and `pwrite` that are interrupted or come short, DMA that fails, the status byte
and the used length.  Data is modelled byte by byte, with bytes that say where
they come from, so that a stale or misplaced one is noticed.  A reference
definition (`Segments`, `Place`, `Total`, `Verdict`) says what a request should do
without walking.  The status byte has a variable of its own (`answer`), apart from the
descriptors' memory: `process_chain` writes it to the last descriptor without looking
at that descriptor's write flag, and so does the model.  Proofs in `ChainWalkProofs`.

**UioKick** (data path over UIO).  Kicks, the scan with its byte-wise loads, the
mask and the pending edge of the UIO interrupt, the deferred interrupt control
word, the messages back, the ACK wait with its deadline, and the guest's
edge-triggered interrupt.  Ring contents are counts, since BlkSocket has the
rings.  Proofs in `UioKickProofs`.

**VirtioMmio** has the register semantics of a device as operators on a record.
**UioSetup** extends it with the set-up path over UIO: the driver's script of
accesses (probe, remove, probe again), the window, the daemon's shadow, and
guest reboots at any access of the script, which neither the window nor the daemon
notices.  The history variable `leftover` records that the window had registers of an
unfinished feature negotiation in it when a session began (`Negotiating`).  Proofs in
`UioSetupProofs`.

UioKick and UioSetup split the registers between them: a scan in UioKick has
INTERRUPT_ACK and QUEUE_NOTIFY, one in UioSetup the others.  The driver uses the
first only when it is done with the second.

**DevMem** (`fabrics/linux_devmem.c`).  The polling scan with byte-wise loads and
stores, its shadow, the idle value that it stores over a QUEUE_NOTIFY, the interrupt
register, and the refresh at the end of the scan.  With nothing between guest and
daemon some kicks and interrupts can be lost; the history variable `mishaps`
records each way in which this happens (`overwritten`: the idle value was stored
over a newer kick; `early`: the handler ran before the refresh; `cancelled`: an
INTERRUPT_ACK was seen after a completion it did not mean; `stopped`: a DMA
failed and `fabric_run` returned), and the properties say that nothing is lost
in any other way.  The instance has an interrupt register configured.  Proofs in
`DevMemProofs`.

The `MC*` modules give TLC its instances.  Definitions whose comment starts with
"Mutated form" are the same code with a plausible mistake; they are used
nowhere, and replacing the original by one makes TLC report the property that
`PROJECT.json` names beside it.

## Runs

| Run | Instance | Shows |
| --- | --- | --- |
| dma | 2 clients, 2 pages, scatterlists of 2, sizes 1 and 3, 3 directions | live allocations are disjoint, bitmap and bounce list are exact, CPU and device see each other's data; `DataInv` |
| pools | 4 devices, 2 apertures, 4 pools | reference counts exact, one pool per aperture, no use after release, no leak; `IndInv` |
| blk_socket | 2 threads, 2 slots, indices mod 4, 2 failures | order, at-most-once, no stranded completion, no lost kick, silence after a lost connection, completion, refinement of BlkService |
| chains | up to 5 descriptors, loops, wrong directions, bad sectors, every failure | every byte in its place, true status byte, transfers within image and buffer, used length equal to what the device wrote (except after a failed read), termination |
| wire | 2 values, 3 operations in a handler, 2 crashes | both ends in step (`InStep`, `WireInv`), every access returns, refinement of RegisterBus |
| uio_sync | console: 3 threads on two queues, one unserved; policy all, prompt daemon | window and line follow the device; one QUEUE_NOTIFY cell suffices for both queues; every completion is announced, every request completed |
| uio_timeouts | transmit queue, any wait may expire | `NoLostKick`, `WakeableWhenAsleep` and the inductive `KickInv` |
| uio_setup | console, both policies, re-probe, 2 reboots anywhere in the script, prompt daemon | no probe fails, every probe ends, and the device has the status and the queues the driver wrote, and the features unless `leftover` |
| devmem | 2 threads, 3 requests | the queue is served with its addresses; losses only by a recorded mishap |
| uio_dropped (violated) | block device, any wait may expire | an acknowledgement and a kick in one scan lose the interrupt edge |
| uio_coalesced (violated) | block device, policy barrier | after an ACK taken by a synchronous wait, kicks are held back for ever |
| uio_setup_late (violated) | daemon slower than the deadline | a queue becomes ready without its addresses |

The three violated runs are the findings: each states what a document or a comment
of the repository says, and TLC's trace shows the code doing otherwise.

* *uio_dropped.*  The scan handles INTERRUPT_ACK (lower) and QUEUE_NOTIFY (raise)
  and writes only the last level.  The line is high already, the guest's
  interrupt is edge triggered, so nothing happens.  The completions wait for the
  next kick that produces an edge.
* *uio_coalesced.*  `axi_wait_for_notify_ack` consumes an ACK without clearing
  `async_notify_pending`.
* *uio_setup_late.*  Set-up writes raise or lower no interrupt, and only that makes
  an ACK.  The frontend's wait for them always ends with its deadline.

Three smaller disagreements have no run of their own.  The properties that come near
them name them as exceptions, and `PROJECT.json` has them as hazards.

* *Used length.*  `virtio.h:195` and `virtio.c:92` call the length given to
  `virtio_add_used` the number of bytes written by the device.  `process_chain`
  (`virtio-blkd.c:446`) goes on counting segments after an I/O error, so a read that
  failed reports more than was written; and `process_tx_chain` of the console reports
  the bytes it has read, having written none.  `UsedLenExact` states what the comments
  say for all other block requests, and the length is exact there.
* *Reboot during feature negotiation.*  Change detection (`linux_uio.c:378`) drops a
  write of the value that the shadow already holds.  If the guest is rebooted between
  the two halves of feature negotiation, the window and the shadow keep a selector of 1
  (or the last word), while the next driver's STATUS of 0 resets the device's selectors.
  The next driver's write of 1 is then not dispatched.  It reads the low word of the
  features twice, or its words go to one bank.  `ProbeDelivered` excepts the feature
  banks of this one session (`leftover`), and only those: status and queues are
  delivered, and the session after it is right again.  The script does not have the
  check of VERSION_1 that Linux makes of the words it reads, which ends such a probe on
  the block device and not on the console, whose low word does have a bit 0.
  `NeverFails` is about what the script does expect.
* *Uninitialised buffer.*  `main` of the block daemon leaves `io_buf` and its size
  uninitialised before `blkd_virtio_init` keeps them; ChainWalk starts from a known size.

### Bounds

Two submitting threads are enough for a kick to fall into another's service and
for the interrupt handler to race a completion.  A queue of two with indices
modulo four makes rings full, empty and wrapped; the code's 256 and 2^16 have the
same divisibility, which `ConstantsAssumption` states.  Twenty retries are one:
a retry is only another look at the ring.  Two failures allow a second
failure during recovery from the first.

Two pages for two clients exhaust the pool all the time, and size 3 with a page
size of 2 needs both of them.  One content besides `Unset` shows a page that was
overwritten or never filled; the theorems have any number of contents, pages and
clients, and sizes of zero.

In chains, a sector of two bytes and an image of four put segments before, across
and beyond the end of the image.  Sectors 7 and 8 are on either side of the overflow
of the byte offset, which counts modulo 16.  Five descriptors make three data
segments, so that a failure may come before, in and after one, and a loop.  Buffers
of both sizes make the first segment fit or grow `io_buf`.

In wire, three operations allow a DMA of each direction and an interrupt in one
handler; two crashes, one while the daemon recovers from the other.  The theorems
have no bound.

MaxNotifies and MaxReplies bound the sockets, which TLC must not fill for ever.
A guest that waits for its accesses one at a time has at most two notifications
on the way that matter: one wakes the daemon and one waits behind the mask, and
further pulses merge with it.  In uio_timeouts these bounds can stop a sender
that the real socket would not, so that run does not check for deadlock.  Nor do
chains, where a walk ends, and devmem, where a daemon whose DMA failed has stopped.
In the other runs deadlock is checked and there is none.

Feature values are 1 and 3, so that a word in the wrong bank shows.  Two reboots
suffice for a second one during the re-probe that follows the first, in particular one
that interrupts the negotiation of a session that began with `leftover` registers.

### Fairness

The daemon, the backend's interrupt path, QEMU's main loop, a thread with a kick
to make and the interrupt handler go on when they can (weak fairness): they are
processes, kernel threads or vCPUs that nothing but the modelled waits can hold
up.  In wire these are QEMU's side of an access and a daemon that runs: nobody is
obliged to start one that has crashed.  In devmem the daemon polls.  Nobody is
obliged to submit, to reboot or to fail.  `Prompt` is an assumption on timing, not
on fairness: `notify_delay_us` outlasts the work that the daemon has to do for an
access.  Passing runs that need it say so, and the runs without it (uio_timeouts,
and the violated ones but uio_coalesced) show what is left without it.

## Proofs

All theorems hold for any constants that meet the named assumptions of the
modules: any set of clients, threads, devices or values, any sizes and any bounds.

* `AxiDmaProofs`: `TypeAlways`, `AllocationsDisjointAlways`, `BitmapExactAlways`,
  `BouncesExactAlways`.  None of these is inductive alone: that a page is freed
  only by its owner depends on the record that the owner found, which depends on
  the list having exactly one record per bounced mapping, which depends on
  allocations being disjoint.  `IndInv` adds to them the shape of each client's
  local state at each location (`Shape`), addresses within the pool (`InRange`),
  that the record a call holds is its own (`RecMatches`) and that buffers
  passed through unbounced lie in the pool (`InPoolInside`).  The module starts with
  the facts about allocation and release steps and the type invariant, reduces a step
  of a client to what it does to the shared state and shows the steps that leave it
  alone; then it takes one group of actions after the other.  Then
  `DataIntactAlways`, that contents survive.  `DataInv` (`DataInvAlways`) adds to `IndInv`
  where the data of each entry is at each location: in the buffer until a call has
  copied it to the pool and again after the copy back (`KeptInBuf`), in the pages in
  between (`KeptInPool`), in both for some locations and directions.  A copy changes
  only pages that its caller owns, and those are disjoint from everybody else's
  (`DataStep`), so a step has to be looked at for its caller only.
* `AxiPoolProofs`: `RefsExactAlways`, `HeldAliveAlways`,
  `OnePoolPerApertureAlways`, `NoPoolLeakedAlways`.  `IndInv` (`IndInvAlways`) adds that
  listed pools exist and have different apertures, and that the pool of a probe
  that has not listed it yet is known to nobody else.
* `SocketWireProofs`: `InStepAlways`, and `ImplementsBusAlways`, that the messages
  implement the atomic accesses of RegisterBus.  `WireInv` says, for each pair of
  places of QEMU and the daemon, exactly what is on its way in both directions; for
  interrupt messages, which are not acknowledged, it says that any number of them
  comes before the message that is waited for (`Trails`).  It distinguishes the
  connection that both ends share, one in the listen queue (`BacklogInv`) and one
  that QEMU has given up while the daemon is in the DMA that failed (`OrphanInv`).
  For the refinement, the daemon that carries an access out shares its connection
  with QEMU and has missed nothing since its reset.
* `BlkSocketProofs`: `NoLostKickAlways`, `NoStrandedCompletionAlways` and
  `SilentAfterLossAlways`, for any number of threads and any ring size.  `ServiceInv`
  says that a QUEUE_NOTIFY is served exactly while its thread waits (`WriteInv`), that
  the device the driver has set up lasts as long as the connection and one in its
  place is not ready (`DeviceInv`), and that every completion not taken yet is
  announced by an interrupt with its status bit, by a handler, or by the service
  under way (`Announced`).  `CompletionsInOrderAlways`, `ExecutedAtMostOnceAlways` and
  `ImplementsServiceAlways`, that the rings implement BlkService, rest on `RingInv`:
  which submission each cell of the available and the used ring holds, by the
  free-running index modulo the ring size (`QueueInv`, `UsedInv`), what a thread has
  written before it publishes (`PublishInv`), what the daemon holds at each place of
  its loop (`WorkInv`), and that what was executed is what is completed and at most
  the request under way (`ExecInv`).  The two moduli, of the index and of the ring, meet in a few lemmas on
  remainders.
* `UioKickProofs`: `TypeAlways`; `WakeableAlways`, from `WakeInv` (an edge is held
  back only by a mask, and a mask is always followed by an event to read or an
  unmasking); and `NoLostKickAlways`, for any number of threads on one queue
  whenever kicks are not coalesced (`Uncoalesced`), whatever waits expire.
  `KickInv` adds what the daemon has loaded at each place of the scan
  (`ValueInv`), and that a kick which overtakes a started load has left a wake-up
  (`LoadInv`): the interrupt is enabled before the scan, so such a kick is
  found by the next one.  `KickInvAlways` and `ServedWhenQuietAlways` come with it.
  `WindowConsistentAlways` needs no assumption: the level that the daemon has put off,
  or the last one it has sent, is the device's (`LevelInv`).  When moreover no wait ever
  expires and every access is notified (`Synchronous`), `TakenWhenQuietAlways` says that
  no completion is left behind, and `SynchronousKicks` that no kick is lost and no
  load is torn; `SyncInv` follows the one access under way from the guest's write
  through the daemon's scan to the acknowledgement.
* `UioSetupProofs`: `NeverFailsAlways`, `ReadyConfiguredAlways` and
  `ProbeDeliveredAlways`, for any number of queues, any queue size and any number of
  reboots, at any access of the script, when `notify_delay_us` outlasts the daemon's work (`Prompt`; without it
  uio_setup_late violates the second).  The script is first turned into a table of
  accesses by number (`Table`).  `SetupInv` (`SetupInvAlways`) then says what the
  window holds when the driver has reached an access (`WindowAt`), that the one
  wake-up of an access is in one place (`OneWakeup`), that a shadow differs from the
  window only for a register that this access writes and the scan has not come to
  (`Synced`), and what the device has by the place of the scan (`FollowsAt`,
  `QueuesAt`).  A write that equals its shadow is not dispatched, so it also has to
  be shown that the device has that value already (`Unchanged`).  For the feature
  banks it need not have: DRIVER_FEATURES is one cell for both, and if the banks
  were equal the second write would change nothing in the window and never reach the
  device.  `ProbeDeliveredAlways` assumes therefore that they differ
  (`DistinctBanks`), as those of both daemons do (`get_features`: device bits below
  bit 32; VERSION_1 and ACCESS_PLATFORM above it).  After a reboot in the middle of
  feature negotiation the invariant still says everything about status and queues; of
  the selectors it says that the device has the shadow's or, since its reset, 0, and of
  the banks nothing until the next session (`leftover`, an argument of `WindowAt`,
  `FollowsAt` and `BanksAt`).
* `DevMemProofs`: `ServedConfiguredAlways`, that whatever the loads tear a queue is
  served only with the addresses the driver gave it, from `ConfigInv` (what of the
  driver's set-up has reached the aperture, the shadow and the device); and
  `TakenWhenQuietAlways`, from `TakeInv` (every completion not yet taken is
  announced somewhere between the device and the handler, or a mishap has happened).
* `ChainWalkProofs`: `TransferInBoundsAlways`, `UsedLenExactAlways`,
  `DataInPlaceAlways`, `StatusTruthfulAlways`, for every descriptor table, every queue,
  sector and image size and every width of the counters.  The reference definitions
  are recursive functions of a number.  What they compute follows by induction stated
  for a set (`SetInduction`), from the well-foundedness of the naturals: `Recursion`,
  `Follows`, then how `Nth` and `Before` go on, that a chain with an end visits no
  descriptor twice (`ChainInjective`), and that sums grow (`SumGrows`).  On this rest
  the layers of the invariant: where the walk is (`ControlInv`, `WalkInv`) and that
  there is room (`StoreInv`); that as long as the status is good every segment passed
  was valid (`StatusInv`), which is why no offset has wrapped; where the bytes are
  (`BufferInv`, `MemInv`, `ImageInv`, and `TxInv` for the console); and which segments
  are done and what a good status means (`DoneInv`, `TruthInv`).  `UsedLenExactAlways`
  combines the length of the walk (`UsedLenSum`) with the last two: what is reported is
  what has been written.

Model-checked only: liveness, which is out of the prover's reach under fairness, and
the violated runs.  Every other property of a run has its theorem.

## Not modelled

* Composition of ChainWalk with BlkSocket: a chain is one step of BlkSocket that
  succeeds or fails, which is what ChainWalk shows of it.  The image is not shared
  with anybody else in the code.
* Torn loads of registers other than QUEUE_NOTIFY over UIO.  For QUEUE_NOTIFY they are
  modelled, and excluded by the history variable `torn` in `NoLostKick`, since the
  code does not prevent them.  DevMem has them for every register it models.
* In BlkSocket, a crash or a lost connection in the middle of the driver's register by
  register set-up, which is one step there.
* In UioKick, the loss of the control socket, and the end of the daemon after a callback
  that failed.
* The write flag of the descriptor that takes the status byte of a block request, which
  the code does not look at.
* Feature negotiation over devmem, where the driver would have to wait for the daemon's
  refresh and has no means to.
* The uninitialised `io_buf` of the block daemon, and queue sizes of 0 and 65536.
* The end of a cyclic chain on the console's transmit queue: the code's walk has none,
  and `Terminates` excepts it.
* Address checks of DMA requests, integer encodings of messages, partial-width
  register reads, the configuration space.
* Memory ordering between guests on different hosts' CPUs; all memory is
  sequentially consistent.
* Start-up (mapping of resources, parsing of options, launchers), configuration
  (ACPI and device tree), `uio-membench`.

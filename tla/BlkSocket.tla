------------------------------ MODULE BlkSocket ------------------------------
(***************************************************************************)
(* One virtqueue of a backend daemon over the axi socket fabric: the guest *)
(* driver submits requests from several threads and takes completions in   *)
(* its interrupt handler; QEMU's axi device forwards every register access *)
(* to the daemon over a Unix socket and waits for its end; the daemon      *)
(* (drivers/virtio-blkd.c, fabrics/qemu_socket.c, virtio.c) works through  *)
(* the rings with one DMA message per ring field.                          *)
(*                                                                         *)
(* A register access holds QEMU's global lock from its start to its end,   *)
(* so accesses are serial; guest memory is shared with all threads at any  *)
(* moment.  The connection may break, and the daemon may crash and be      *)
(* started again, between any two messages.                                *)
(***************************************************************************)
EXTENDS Integers, Sequences, FiniteSets

CONSTANTS
  Threads,     \* guest threads that submit requests
  QueueNum,    \* queue->num, 256 in the code
  IdxMod,      \* ring indices count modulo this, 2^16 in the code
  Retries,     \* polls of an empty ring before notify_queue returns, 20 in the code
  MaxFailures, \* bound: broken connections and crashes
  None         \* no thread

ASSUME ConstantsAssumption ==
  /\ QueueNum \in Nat \ {0}
  /\ IdxMod \in Nat
  /\ IdxMod > QueueNum
  /\ IdxMod % QueueNum = 0
  /\ Retries \in Nat
  /\ MaxFailures \in Nat
  /\ None \notin Threads

VARIABLES
  \* Guest memory.
  availIdx, availRing, usedIdx, usedRing,
  \* Guest driver.
  running,   \* has it set the queue up?
  inflight,  \* heads it has given to the device
  lastUsed,  \* vq->last_used_idx
  pc,        \* where each submitting thread is
  want,      \* the head a thread is about to publish
  isr,       \* where the interrupt handler is
  isrStatus, \* the INTERRUPT_STATUS it read
  \* QEMU.
  sockfd,    \* s->sockfd >= 0
  mmio,      \* the thread whose QUEUE_NOTIFY write is being served
  line, irq, \* level of the interrupt line, and a rising edge not yet taken
  \* Daemon.
  ready, last_avail_idx, interrupt_status,
  dpc,       \* where it is
  head, retries, used_any, used_idx,  \* locals of notify_queue and add_used
  \* History.
  order,     \* heads published and not yet taken back, oldest first
  execs,     \* how often each of them was executed
  lost,      \* was a connection lost since the driver set the queue up?
  fails      \* failures so far

memVars    == <<availIdx, availRing, usedIdx, usedRing>>
driverVars == <<running, inflight, lastUsed, pc, want>>
isrVars    == <<isr, isrStatus>>
qemuVars   == <<sockfd, mmio, line, irq>>
devVars    == <<ready, last_avail_idx, interrupt_status>>
loopVars   == <<dpc, head, retries, used_any, used_idx>>
history    == <<order, execs, lost, fails>>
vars == <<memVars, driverVars, isrVars, qemuVars, devVars, loopVars, history>>

Heads   == 0 .. QueueNum - 1
Indices == 0 .. IdxMod - 1

\* Locations of the daemon inside blkd_virtio_notify_queue.
Notifying == {"avail", "ring", "chain", "used", "id", "len", "idx"}

\* uint16_t arithmetic and ring slots.
Inc(i)  == (i + 1) % IdxMod
Slot(i) == i % QueueNum

Init ==
  /\ availIdx = 0 /\ usedIdx = 0
  /\ availRing = [s \in Heads |-> 0]
  /\ usedRing = [s \in Heads |-> [id |-> 0, len |-> 0]]
  /\ running = FALSE /\ inflight = {} /\ lastUsed = 0
  /\ pc = [t \in Threads |-> "idle"]
  /\ want = [t \in Threads |-> 0]
  /\ isr = "idle" /\ isrStatus = FALSE
  /\ sockfd = FALSE /\ mmio = None /\ line = FALSE /\ irq = FALSE
  /\ ready = FALSE /\ last_avail_idx = 0 /\ interrupt_status = FALSE
  /\ dpc = "accept" /\ head = 0 /\ retries = 0 /\ used_any = FALSE /\ used_idx = 0
  /\ order = <<>> /\ execs = [h \in Heads |-> 0] /\ lost = FALSE /\ fails = 0

-----------------------------------------------------------------------------
(* Connection.                                                             *)

\* Mutated form: the queue stays ready.
virtio_device_reset_ready ==
  /\ ready' = ready
  /\ last_avail_idx' = 0
  /\ interrupt_status' = FALSE

virtio_device_reset ==
  /\ ready' = FALSE
  /\ last_avail_idx' = 0
  /\ interrupt_status' = FALSE

\* The connection is up and no other access is being served.
Served == sockfd /\ dpc = "serve" /\ mmio = None

\* Some access finds no connection: axi_connect, from axi_send_header, meets the
\* accept of run_device.  serve_connection starts with ops->connect, which initialises the device.
axi_connect ==
  /\ mmio = None
  /\ ~sockfd /\ dpc = "accept"
  /\ sockfd' = TRUE
  /\ dpc' = "serve"
  /\ virtio_device_reset
  /\ UNCHANGED <<memVars, driverVars, isrVars, mmio, line, irq,
                 head, retries, used_any, used_idx, history>>

\* An access that finds no daemon, or a socket whose peer is gone, closes the
\* socket; a write is dropped, a read returns 0.
Dropped == mmio = None /\ dpc \in {"accept", "down"} /\ (sockfd \/ dpc = "down")

\* An access other than the ones below, dropped.
axi_close ==
  /\ Dropped /\ sockfd
  /\ sockfd' = FALSE
  /\ UNCHANGED <<memVars, driverVars, isrVars, mmio, line, irq, devVars, loopVars,
                 history>>

\* The daemon is back in its accept loop; QEMU, waiting for the end of an access,
\* reads the end of the stream, closes the socket and lets the access return.
Disconnect(l) ==
  /\ dpc' = l
  /\ head' = 0 /\ retries' = 0 /\ used_any' = FALSE /\ used_idx' = 0
  /\ sockfd' = IF mmio = None THEN sockfd ELSE FALSE
  /\ mmio' = None
  /\ pc' = IF mmio = None THEN pc ELSE [pc EXCEPT ![mmio] = "idle"]
  /\ lost' = running
  /\ fails' = fails + 1
  /\ UNCHANGED <<memVars, running, inflight, lastUsed, want, isrVars, line, irq,
                 devVars, order, execs>>

\* A DMA message fails, or the chain is malformed: notify_queue returns false and
\* serve_connection gives the connection up.
notify_fails ==
  /\ fails < MaxFailures
  /\ dpc \in Notifying
  /\ Disconnect("accept")

\* The daemon dies, wherever it is, and is started again.
DaemonCrash ==
  /\ fails < MaxFailures /\ running
  /\ dpc # "down"
  /\ Disconnect("down")

DaemonStart ==
  /\ dpc = "down"
  /\ dpc' = "accept"
  /\ virtio_device_reset
  /\ UNCHANGED <<memVars, driverVars, isrVars, qemuVars, head, retries, used_any,
                 used_idx, history>>

-----------------------------------------------------------------------------
(* The guest driver (Linux virtio_mmio and virtio_blk).                    *)

\* Probe: STATUS is written 0, the queue registers are written, then QUEUE_READY
\* and the final STATUS.  The rings are zeroed first.
driver_setup ==
  /\ ~running /\ Served
  /\ running' = TRUE
  /\ availIdx' = 0 /\ usedIdx' = 0 /\ lastUsed' = 0
  /\ ready' = TRUE /\ last_avail_idx' = 0 /\ interrupt_status' = FALSE
  /\ line' = FALSE
  /\ lost' = FALSE
  /\ UNCHANGED <<availRing, usedRing, inflight, pc, want, isrVars, sockfd, mmio, irq,
                 loopVars, order, execs, fails>>

\* Removal: the driver is quiet, writes STATUS 0, gives its requests up and frees
\* the rings (their next use starts from zero).
driver_remove ==
  /\ running /\ Served
  /\ \A t \in Threads : pc[t] = "idle"
  /\ isr = "idle"
  /\ running' = FALSE
  /\ inflight' = {}
  /\ availIdx' = 0 /\ usedIdx' = 0 /\ lastUsed' = 0
  /\ virtio_device_reset
  /\ line' = FALSE
  /\ order' = <<>>
  /\ execs' = [h \in Heads |-> 0]
  /\ UNCHANGED <<availRing, usedRing, pc, want, isrVars, sockfd, mmio, irq, loopVars,
                 lost, fails>>

\* virtqueue_add under the queue's lock: a free descriptor, the ring slot, and
\* after a barrier the index.
driver_add(t, h) ==
  /\ running
  /\ pc[t] = "idle" /\ \A u \in Threads : pc[u] # "publish"
  /\ h \notin inflight
  /\ inflight' = inflight \cup {h}
  /\ availRing' = [availRing EXCEPT ![Slot(availIdx)] = h]
  /\ want' = [want EXCEPT ![t] = h]
  /\ pc' = [pc EXCEPT ![t] = "publish"]
  /\ UNCHANGED <<availIdx, usedIdx, usedRing, running, lastUsed, isrVars, qemuVars,
                 devVars, loopVars, history>>

driver_publish(t) ==
  /\ pc[t] = "publish"
  /\ availIdx' = Inc(availIdx)
  /\ order' = Append(order, want[t])
  /\ want' = [want EXCEPT ![t] = 0]
  /\ pc' = [pc EXCEPT ![t] = "kick"]
  /\ UNCHANGED <<availRing, usedIdx, usedRing, running, inflight, lastUsed, isrVars,
                 qemuVars, devVars, loopVars, execs, lost, fails>>

\* The QUEUE_NOTIFY write: the daemon never suppresses it.
driver_kick(t) ==
  /\ pc[t] = "kick"
  /\ \/ /\ Served
        /\ mmio' = t
        /\ pc' = [pc EXCEPT ![t] = "wait"]
        /\ UNCHANGED sockfd
     \/ /\ Dropped
        /\ sockfd' = FALSE
        /\ pc' = [pc EXCEPT ![t] = "idle"]
        /\ UNCHANGED mmio
  /\ UNCHANGED <<memVars, running, inflight, lastUsed, want, isrVars, line, irq,
                 devVars, loopVars, history>>

\* The interrupt is edge triggered: taking it consumes the edge.
isr_enter ==
  /\ irq /\ isr = "idle" /\ running
  /\ irq' = FALSE
  /\ isr' = "status"
  /\ UNCHANGED <<memVars, driverVars, isrStatus, sockfd, mmio, line, devVars, loopVars,
                 history>>

\* Read of INTERRUPT_STATUS.
isr_status ==
  /\ isr = "status"
  /\ \/ Served /\ isrStatus' = interrupt_status /\ UNCHANGED sockfd
     \/ Dropped /\ isrStatus' = FALSE /\ sockfd' = FALSE
  /\ isr' = "ack"
  /\ UNCHANGED <<memVars, driverVars, mmio, line, irq, devVars, loopVars, history>>

\* Write of INTERRUPT_ACK: virtio_mmio_write clears the bits, blkd_mmio_write lowers
\* the line.  Then vring_interrupt, if the VRING bit was set.
isr_ack ==
  /\ isr = "ack"
  /\ \/ /\ Served
        /\ interrupt_status' = (interrupt_status /\ ~isrStatus)
        /\ line' = FALSE
        /\ UNCHANGED sockfd
     \/ /\ Dropped
        /\ sockfd' = FALSE
        /\ UNCHANGED <<interrupt_status, line>>
  /\ isr' = IF isrStatus THEN "drain" ELSE "idle"
  /\ isrStatus' = FALSE
  /\ UNCHANGED <<memVars, driverVars, mmio, irq, ready, last_avail_idx, loopVars,
                 history>>

\* virtqueue_get_buf, under the queue's lock, until the ring is empty.
isr_take ==
  /\ isr = "drain" /\ lastUsed # usedIdx
  /\ \A t \in Threads : pc[t] # "publish"
  /\ LET h == usedRing[Slot(lastUsed)].id IN
       /\ inflight' = inflight \ {h}
       /\ execs' = [execs EXCEPT ![h] = 0]
  /\ lastUsed' = Inc(lastUsed)
  /\ order' = IF order = <<>> THEN order ELSE Tail(order)
  /\ UNCHANGED <<memVars, running, pc, want, isrVars, qemuVars, devVars, loopVars,
                 lost, fails>>

isr_done ==
  /\ isr = "drain" /\ lastUsed = usedIdx
  /\ isr' = "idle"
  /\ UNCHANGED <<memVars, driverVars, isrStatus, qemuVars, devVars, loopVars, history>>

-----------------------------------------------------------------------------
(* The daemon: blkd_mmio_write of QUEUE_NOTIFY and blkd_virtio_notify_queue.  *)

\* fabric_raise_irq lowers the line and asserts it: always a rising edge.
fabric_raise_irq == line' = TRUE /\ irq' = TRUE
fabric_lower_irq == line' = FALSE /\ UNCHANGED irq

blkd_ack_notify == IF interrupt_status THEN fabric_raise_irq ELSE fabric_lower_irq

\* The acknowledgement of the write: the thread goes on.
EndWrite ==
  /\ dpc' = "serve"
  /\ head' = 0 /\ retries' = 0 /\ used_any' = FALSE /\ used_idx' = 0
  /\ mmio' = None
  /\ pc' = [pc EXCEPT ![mmio] = "idle"]

\* axi_service_backend has served a DMA message: the access goes on, the daemon is at l.
Continue(l) == dpc' = l /\ UNCHANGED <<mmio, pc, line, irq>>

notify_queue ==
  /\ dpc = "serve" /\ mmio # None
  /\ \/ /\ ready
        /\ Continue("avail")
        /\ UNCHANGED <<head, retries, used_any, used_idx>>
     \/ /\ ~ready
        /\ blkd_ack_notify
        /\ EndWrite
  /\ UNCHANGED <<memVars, running, inflight, lastUsed, want, isrVars, sockfd, devVars,
                 history>>

\* Mutated form: ring positions are compared instead of indices.
RingEmpty_slots == Slot(availIdx) = Slot(last_avail_idx)

RingEmpty == availIdx = last_avail_idx

\* virtio_next_avail reads the index; usleep and another attempt if there is
\* nothing.
next_avail ==
  /\ dpc = "avail"
  /\ \/ ~RingEmpty /\ Continue("ring") /\ UNCHANGED retries
     \/ RingEmpty /\ retries < Retries /\ retries' = retries + 1 /\ Continue("avail")
  /\ UNCHANGED <<memVars, running, inflight, lastUsed, want, isrVars, sockfd, devVars,
                 head, used_any, used_idx, history>>

\* Mutated form: VIRTIO_INTERRUPT_VRING is not set.
SetVring_lost == UNCHANGED interrupt_status

SetVring == interrupt_status' = TRUE

\* Nothing came: interrupt the driver for what was completed.
notify_done ==
  /\ dpc = "avail" /\ RingEmpty /\ retries = Retries
  /\ IF used_any THEN SetVring /\ fabric_raise_irq
                 ELSE UNCHANGED interrupt_status /\ blkd_ack_notify
  /\ EndWrite
  /\ UNCHANGED <<memVars, running, inflight, lastUsed, want, isrVars, sockfd, ready,
                 last_avail_idx, history>>

\* The second read of virtio_next_avail.
next_avail_head ==
  /\ dpc = "ring"
  /\ head' = availRing[Slot(last_avail_idx)]
  /\ Continue("chain")
  /\ UNCHANGED <<memVars, running, inflight, lastUsed, want, isrVars, sockfd, devVars,
                 retries, used_any, used_idx, history>>

\* process_chain: the request takes effect.
process_chain ==
  /\ dpc = "chain"
  /\ execs' = [execs EXCEPT ![head] = IF @ < 2 THEN @ + 1 ELSE @]
  /\ Continue("used")
  /\ UNCHANGED <<memVars, running, inflight, lastUsed, want, isrVars, sockfd, devVars,
                 head, retries, used_any, used_idx, order, lost, fails>>

\* Mutated form: the element goes to the slot after its own.
UsedSlot_next(i) == Slot(i + 1)

UsedSlot(i) == Slot(i)

\* virtio_add_used: read the index, write id, length and the next index.
add_used_read ==
  /\ dpc = "used"
  /\ used_idx' = usedIdx
  /\ Continue("id")
  /\ UNCHANGED <<memVars, running, inflight, lastUsed, want, isrVars, sockfd, devVars,
                 head, retries, used_any, history>>

add_used_elem ==
  /\ \/ /\ dpc = "id"
        /\ usedRing' = [usedRing EXCEPT ![UsedSlot(used_idx)].id = head]
        /\ Continue("len")
     \/ /\ dpc = "len"
        /\ usedRing' = [usedRing EXCEPT ![UsedSlot(used_idx)].len = head]
        /\ Continue("idx")
  /\ UNCHANGED <<availIdx, availRing, usedIdx, running, inflight, lastUsed, want,
                 isrVars, sockfd, devVars, head, retries, used_any, used_idx, history>>

\* Mutated form: last_avail_idx is not advanced.
Advance_lost == UNCHANGED last_avail_idx

Advance == last_avail_idx' = Inc(last_avail_idx)

\* The last write of virtio_add_used, and the next turn of the loop.
add_used_publish ==
  /\ dpc = "idx"
  /\ usedIdx' = Inc(used_idx)
  /\ Advance
  /\ used_any' = TRUE
  /\ retries' = 0 /\ head' = 0 /\ used_idx' = 0
  /\ Continue("avail")
  /\ UNCHANGED <<availIdx, availRing, usedRing, running, inflight, lastUsed, want,
                 isrVars, sockfd, ready, interrupt_status, history>>

-----------------------------------------------------------------------------
Submit == \E t \in Threads : (\E h \in Heads : driver_add(t, h)) \/ driver_publish(t)
Kick == \E t \in Threads : driver_kick(t)
Interrupt == isr_enter \/ isr_status \/ isr_ack \/ isr_take \/ isr_done
Daemon ==
  \/ notify_queue \/ next_avail \/ notify_done \/ next_avail_head \/ process_chain
  \/ add_used_read \/ add_used_elem \/ add_used_publish
Failure == notify_fails \/ DaemonCrash \/ DaemonStart

Next ==
  \/ axi_connect \/ axi_close \/ driver_setup \/ driver_remove
  \/ Submit \/ Kick \/ Interrupt \/ Daemon \/ Failure

Spec == Init /\ [][Next]_vars

\* The daemon runs, a thread that holds the queue's lock or has a kick to make goes
\* on, and the interrupt handler is run and goes on.  Nobody has to submit.
Fairness ==
  /\ WF_vars(Daemon)
  /\ WF_vars(Interrupt)
  /\ \A t \in Threads : WF_vars(driver_publish(t))
  /\ WF_vars(Kick)

FairSpec == Spec /\ Fairness

-----------------------------------------------------------------------------
(* Properties.                                                             *)

\* Number of published completions that the driver has not taken.
Untaken == (usedIdx - lastUsed) % IdxMod

\* The completions in the used ring are those of the oldest outstanding
\* requests, in order of submission, each executed exactly once, and each element
\* that virtio_add_used has published is whole (id and length of one request).
\* This is over index wrap-around, and over broken connections, crashes and
\* reconnections in the middle of virtio_add_used.
CompletionsInOrder ==
  /\ Untaken <= Len(order)
  /\ \A k \in 1 .. Untaken :
       LET e == usedRing[Slot(lastUsed + k - 1)] IN
       e.id = order[k] /\ e.len = order[k] /\ execs[e.id] = 1

\* No request is executed twice: not when the loop of notify_queue polls a ring
\* that the driver is filling, and not after a reconnection, which resets
\* last_avail_idx while the rings in guest memory are as they were.
ExecutedAtMostOnce == \A h \in Heads : execs[h] <= 1

\* While the connection lasts, a completion that the driver has not taken is never
\* stranded: once the daemon is idle, an interrupt is on its way, or the interrupt
\* handler is at a point from which it will drain the ring.  The race is between
\* the handler's read of INTERRUPT_STATUS, its INTERRUPT_ACK, and other threads'
\* kicks that complete more requests in between.
NoStrandedCompletion ==
  running /\ ~lost /\ mmio = None /\ Untaken > 0 =>
    \/ irq
    \/ isr = "status" /\ interrupt_status
    \/ isr = "ack" /\ isrStatus
    \/ isr = "drain"

\* While the connection lasts, a request that the idle daemon has not seen has
\* its kick still to come: the loop of notify_queue never returns with an entry
\* left behind whose kick is already over.
NoLostKick ==
  running /\ ~lost /\ mmio = None /\ availIdx # last_avail_idx =>
    \E t \in Threads : pc[t] = "kick"

\* After a lost connection the device, which was initialised again without the
\* driver's knowledge, writes nothing into the rings until the driver has set it up.
SilentAfterLoss == [][lost /\ lost' /\ running' => UNCHANGED <<usedIdx, usedRing>>]_vars

\* Every request is completed and taken back, if the connection lasts.
EventuallyCompleted ==
  \A h \in Heads : h \in inflight ~> h \notin inflight \/ lost

\* The abstract service.  A request is in its queue from the index update that
\* publishes it until the driver has taken its completion.
Executed == {h \in Heads : execs[h] > 0}

Service == INSTANCE BlkService WITH
  queue <- order,
  nExec <- Cardinality(Executed),
  nDone <- Untaken,
  alive <- running /\ ~lost

ImplementsService == Service!Spec
=============================================================================

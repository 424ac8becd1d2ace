------------------------------- MODULE UioKick -------------------------------
(***************************************************************************)
(* The data path of the axi-linux-uio topology: kicks, completions and     *)
(* interrupts between a guest driver and a daemon in another guest.        *)
(*                                                                         *)
(* The frontend QEMU stores register writes into a shared window and sends *)
(* FRONTEND_NOTIFY over a control socket; the backend QEMU pulses an       *)
(* interrupt; the backend kernel's UIO driver wakes the daemon, which      *)
(* scans the window, serves the queue, refreshes the window and writes the *)
(* interrupt control word; the backend QEMU turns that into an IRQ message *)
(* and a NOTIFY_ACK, on which the frontend's access may be waiting.        *)
(*                                                                         *)
(* An access of a frontend vCPU holds QEMU's global lock, and so does the  *)
(* main loop that reads the control socket.  The wait for an ACK ends at   *)
(* notify_delay_us, whatever the daemon is doing.  The queues are set up;  *)
(* virtqueue contents are reduced to counts.                               *)
(***************************************************************************)
EXTENDS Integers, Sequences

CONSTANTS
  Threads,      \* guest threads that submit requests
  QueueOf,      \* the queue of each of them
  Served,       \* queues whose entries the daemon completes
  Polled,       \* queues whose completions the submitter polls for
  Barrier,      \* notify-policy is barrier, not all
  NotifyAck,    \* notify-ack is on
  Prompt,       \* notify_delay_us outlasts everything the daemon has to do
  MaxRequests,  \* bound: requests outstanding on one queue
  MaxNotifies,  \* bound: FRONTEND_NOTIFY messages in the socket
  MaxReplies,   \* bound: messages to the frontend in the socket
  None          \* nobody

Queues == {QueueOf[t] : t \in Threads}
Isr == "isr"

ASSUME ConstantsAssumption ==
  /\ Queues \subseteq {0, 1} /\ Served \subseteq Queues /\ Polled \subseteq Queues
  /\ {Barrier, NotifyAck, Prompt} \subseteq BOOLEAN /\ (Prompt => NotifyAck)
  /\ {MaxRequests, MaxNotifies, MaxReplies} \subseteq Nat \ {0}
  /\ None \notin Threads \cup {Isr} /\ Isr \notin Threads

VARIABLES
  \* Frontend guest.
  avail,      \* entries published on each queue and not yet taken by the daemon
  used,       \* completions published and not yet taken by the driver
  pc,         \* where each thread is
  isr,        \* where the interrupt handler is
  isrStatus,  \* the INTERRUPT_STATUS it read
  \* Frontend QEMU.
  waiting,    \* whose access is in axi_uio_notify_backend, holding the lock
  pending,    \* s->async_notify_pending
  line, irq,  \* level of the interrupt line, and a rising edge not yet taken
  \* The shared window.
  notifyReg,  \* QUEUE_NOTIFY, in two parts
  statusReg,  \* INTERRUPT_STATUS
  ackReg,     \* INTERRUPT_ACK
  \* Control socket.
  toBack,     \* number of FRONTEND_NOTIFY messages
  toFront,    \* messages to the frontend
  \* Backend kernel.
  irqEnabled, irqPending, uioEvent,
  \* Daemon.
  dpc, value, used_any, interrupt_status, pending_irq_level,
  \* History.
  torn        \* has the daemon dispatched a value nobody wrote?

guestVars  == <<avail, used, pc, isr, isrStatus>>
frontVars  == <<waiting, pending, line, irq>>
regVars    == <<notifyReg, statusReg, ackReg>>
linkVars   == <<toBack, toFront>>
kernelVars == <<irqEnabled, irqPending, uioEvent>>
daemonVars == <<dpc, value, used_any, interrupt_status, pending_irq_level, torn>>
vars == <<guestVars, frontVars, regVars, linkVars, kernelVars, daemonVars>>

\* The daemon loads and stores a 32-bit register byte by byte: the low byte and the
\* others, which are alike in all values written.
Parts == {"lo", "hi"}
Word(q) == [lo |-> q, hi |-> 0]
UIO_NOTIFY_IDLE == [lo |-> 255, hi |-> 255]
Unread == [lo |-> -1, hi |-> -1]

Init ==
  /\ avail = [q \in Queues |-> 0] /\ used = [q \in Queues |-> 0]
  /\ pc = [t \in Threads |-> "idle"] /\ isr = "idle" /\ isrStatus = FALSE
  /\ waiting = None /\ pending = FALSE /\ line = FALSE /\ irq = FALSE
  /\ notifyReg = UIO_NOTIFY_IDLE /\ statusReg = FALSE /\ ackReg = FALSE
  /\ toBack = 0 /\ toFront = <<>>
  /\ irqEnabled = TRUE /\ irqPending = FALSE /\ uioEvent = FALSE
  /\ dpc = "read" /\ value = Unread /\ used_any = FALSE
  /\ interrupt_status = FALSE /\ pending_irq_level = "none"
  /\ torn = FALSE

-----------------------------------------------------------------------------
(* Control socket and frontend QEMU.                                       *)

\* The daemon is blocked and nothing is on its way to it or from it.
Settled ==
  /\ toBack = 0 /\ toFront = <<>>
  /\ ~uioEvent /\ ~irqPending /\ dpc = "read"

axi_control_send == toBack < MaxNotifies /\ toBack' = toBack + 1

\* Mutated form: wait for an ACK without asking for one.
axi_uio_notify_backend_mute(w) == waiting' = w /\ UNCHANGED <<toBack, pending>>

\* axi_uio_notify_backend: send, then hold the lock until the ACK or the deadline.
axi_uio_notify_backend(w) == axi_control_send /\ waiting' = w /\ UNCHANGED pending

\* axi_uio_notify_backend_async.
axi_uio_notify_backend_async ==
  /\ IF NotifyAck /\ pending THEN UNCHANGED <<toBack, pending>>
                             ELSE axi_control_send /\ pending' = NotifyAck
  /\ UNCHANGED waiting

qemu_set_irq(level) == line' = level /\ irq' = (irq \/ (level /\ ~line))

\* The access that was waiting returns to its vCPU.
EndAccess ==
  /\ waiting' = None
  /\ pc' = IF waiting = Isr THEN pc ELSE [pc EXCEPT ![waiting] = "idle"]
  /\ isrStatus' = IF waiting = Isr /\ isr = "statuswait" THEN statusReg ELSE isrStatus
  /\ isr' = CASE waiting # Isr -> isr
              [] waiting = Isr /\ isr = "statuswait" -> "ack"
              [] waiting = Isr /\ isr = "ackwait" -> IF isrStatus THEN "drain" ELSE "idle"

\* The loop of axi_wait_for_notify_ack takes a message; an ACK ends it.
wait_for_notify_ack ==
  /\ waiting # None /\ NotifyAck /\ toFront # <<>>
  /\ toFront' = Tail(toFront)
  /\ IF Head(toFront) = "ACK"
       THEN EndAccess /\ UNCHANGED <<line, irq>>
       ELSE qemu_set_irq(Head(toFront) = "ASSERT") /\ UNCHANGED <<waiting, pc, isr, isrStatus>>
  /\ UNCHANGED <<avail, used, pending, regVars, toBack, kernelVars, daemonVars>>

\* The deadline, or the end of the fixed delay if notify-ack is off.
notify_deadline ==
  /\ waiting # None
  /\ Prompt => Settled
  /\ EndAccess
  /\ UNCHANGED <<avail, used, pending, line, irq, regVars, linkVars, kernelVars, daemonVars>>

\* The main loop reads a message when no access holds the lock.
axi_control_read ==
  /\ waiting = None /\ toFront # <<>>
  /\ toFront' = Tail(toFront)
  /\ IF Head(toFront) = "ACK"
       THEN pending' = FALSE /\ UNCHANGED <<line, irq>>
       ELSE qemu_set_irq(Head(toFront) = "ASSERT") /\ UNCHANGED pending
  /\ UNCHANGED <<guestVars, waiting, regVars, toBack, kernelVars, daemonVars>>

-----------------------------------------------------------------------------
(* Frontend guest.                                                         *)

\* An entry is published; the kick follows.
submit(t) ==
  LET q == QueueOf[t] IN
  /\ pc[t] = "idle"
  /\ avail[q] + used[q] < MaxRequests
  /\ avail' = [avail EXCEPT ![q] = @ + 1]
  /\ pc' = [pc EXCEPT ![t] = "kick"]
  /\ UNCHANGED <<used, isr, isrStatus, frontVars, regVars, linkVars, kernelVars, daemonVars>>

\* axi_uio_write of QUEUE_NOTIFY.
kick(t) ==
  /\ pc[t] = "kick" /\ waiting = None
  /\ notifyReg' = Word(QueueOf[t])
  /\ IF Barrier
       THEN axi_uio_notify_backend_async /\ pc' = [pc EXCEPT ![t] = "idle"]
       ELSE axi_uio_notify_backend(t) /\ pc' = [pc EXCEPT ![t] = "wait"]
  /\ UNCHANGED <<avail, used, isr, isrStatus, line, irq, statusReg, ackReg, toFront,
                 kernelVars, daemonVars>>

isr_enter ==
  /\ irq /\ isr = "idle"
  /\ irq' = FALSE
  /\ isr' = "status"
  /\ UNCHANGED <<avail, used, pc, isrStatus, waiting, pending, line, regVars, linkVars,
                 kernelVars, daemonVars>>

\* axi_uio_read of INTERRUPT_STATUS: under barrier the backend is not told.
isr_status ==
  /\ isr = "status" /\ waiting = None
  /\ IF Barrier
       THEN /\ isrStatus' = statusReg /\ isr' = "ack"
            /\ UNCHANGED <<toBack, waiting, pending>>
       ELSE axi_uio_notify_backend(Isr) /\ isr' = "statuswait" /\ UNCHANGED isrStatus
  /\ UNCHANGED <<avail, used, pc, line, irq, regVars, toFront, kernelVars, daemonVars>>

\* axi_uio_write of INTERRUPT_ACK.
isr_ack ==
  /\ isr = "ack" /\ waiting = None
  /\ ackReg' = isrStatus
  /\ axi_uio_notify_backend(Isr)
  /\ isr' = "ackwait"
  /\ UNCHANGED <<avail, used, pc, isrStatus, line, irq, notifyReg, statusReg, toFront,
                 kernelVars, daemonVars>>

\* vring_interrupt: take every completion.
isr_drain ==
  /\ isr = "drain"
  /\ used' = [q \in Queues |-> IF q \in Polled THEN used[q] ELSE 0]
  /\ isr' = "idle" /\ isrStatus' = FALSE
  /\ UNCHANGED <<avail, pc, frontVars, regVars, linkVars, kernelVars, daemonVars>>

\* A submitter that polls takes its completion without an interrupt.
poll_used(t) ==
  LET q == QueueOf[t] IN
  /\ q \in Polled /\ used[q] > 0 /\ pc[t] = "idle"
  /\ used' = [used EXCEPT ![q] = @ - 1]
  /\ UNCHANGED <<avail, pc, isr, isrStatus, frontVars, regVars, linkVars, kernelVars,
                 daemonVars>>

-----------------------------------------------------------------------------
(* Backend QEMU and kernel.                                                *)

\* chiplets_uio_irq: wake the reader and mask the interrupt.
chiplets_uio_irq == uioEvent' = TRUE /\ irqEnabled' = FALSE

\* FRONTEND_NOTIFY at the backend: a pulse.  An edge that finds the interrupt
\* disabled is kept pending by the kernel.
axi_notify_pulse ==
  /\ toBack > 0
  /\ toBack' = toBack - 1
  /\ IF irqEnabled THEN chiplets_uio_irq /\ UNCHANGED irqPending
                   ELSE irqPending' = TRUE /\ UNCHANGED <<uioEvent, irqEnabled>>
  /\ UNCHANGED <<guestVars, frontVars, regVars, toFront, daemonVars>>

-----------------------------------------------------------------------------
(* Daemon: fabric_run of linux_uio.c.                                      *)

\* wait_for_uio_interrupt: read.
uio_read ==
  /\ dpc = "read" /\ uioEvent
  /\ uioEvent' = FALSE
  /\ dpc' = "enable"
  /\ UNCHANGED <<guestVars, frontVars, regVars, linkVars, irqEnabled, irqPending, value,
                 used_any, interrupt_status, pending_irq_level, torn>>

\* Mutated form: the interrupt stays masked.
irqcontrol_masked == UNCHANGED <<irqEnabled, irqPending, uioEvent>>

\* chiplets_uio_irqcontrol: a pending edge is delivered at once.
irqcontrol ==
  IF irqPending THEN irqPending' = FALSE /\ chiplets_uio_irq
                ELSE irqEnabled' = TRUE /\ UNCHANGED <<irqPending, uioEvent>>

\* wait_for_uio_interrupt: write.
uio_enable ==
  /\ dpc = "enable"
  /\ irqcontrol
  /\ dpc' = "ack"
  /\ UNCHANGED <<guestVars, frontVars, regVars, linkVars, value, used_any,
                 interrupt_status, pending_irq_level, torn>>

\* poll_write_registers, INTERRUPT_ACK: dispatched to blkd_mmio_write if it is not 0.
scan_ack ==
  /\ dpc = "ack"
  /\ IF ackReg THEN /\ interrupt_status' = FALSE
                    /\ pending_irq_level' = "lower"
                    /\ dpc' = "ackclear"
               ELSE dpc' = "load" /\ UNCHANGED <<interrupt_status, pending_irq_level>>
  /\ UNCHANGED <<guestVars, frontVars, regVars, linkVars, kernelVars, value, used_any, torn>>

scan_ack_clear ==
  /\ dpc = "ackclear"
  /\ ackReg' = FALSE
  /\ dpc' = "load"
  /\ UNCHANGED <<guestVars, frontVars, notifyReg, statusReg, linkVars, kernelVars, value,
                 used_any, interrupt_status, pending_irq_level, torn>>

\* poll_write_registers, QUEUE_NOTIFY: the load, part by part in any order.
load_notify(p) ==
  /\ dpc = "load" /\ value[p] = Unread[p]
  /\ value' = [value EXCEPT ![p] = notifyReg[p]]
  /\ UNCHANGED <<guestVars, frontVars, regVars, linkVars, kernelVars, dpc, used_any,
                 interrupt_status, pending_irq_level, torn>>

scan_notify ==
  /\ dpc = "load" /\ \A p \in Parts : value[p] # Unread[p]
  /\ dpc' = IF value = UIO_NOTIFY_IDLE THEN "refresh" ELSE "store"
  /\ value' = IF value = UIO_NOTIFY_IDLE THEN Unread ELSE value
  /\ torn' = (torn \/ value \notin {UIO_NOTIFY_IDLE} \cup {Word(q) : q \in Queues})
  /\ UNCHANGED <<guestVars, frontVars, regVars, linkVars, kernelVars, used_any,
                 interrupt_status, pending_irq_level>>

\* The store of UIO_NOTIFY_IDLE, low byte first.
store_idle ==
  /\ \/ dpc = "store" /\ notifyReg' = [notifyReg EXCEPT !.lo = 255] /\ dpc' = "store2"
     \/ dpc = "store2" /\ notifyReg' = [notifyReg EXCEPT !.hi = 255] /\ dpc' = "notify"
  /\ UNCHANGED <<guestVars, frontVars, statusReg, ackReg, linkVars, kernelVars, value,
                 used_any, interrupt_status, pending_irq_level, torn>>

\* Mutated form: the line is lowered whatever the device has pending.
ack_notify_lower == pending_irq_level' = "lower"

\* blkd_ack_notify, cond_ack_notify.
ack_notify == pending_irq_level' = IF interrupt_status THEN "raise" ELSE "lower"

\* notify_queue of the device, with the value that was loaded.
notify_queue ==
  /\ dpc = "notify"
  /\ \/ /\ \E q \in Served : value = Word(q)
        /\ dpc' = "loop"
        /\ UNCHANGED <<value, pending_irq_level>>
     \/ /\ ~ \E q \in Served : value = Word(q)
        /\ ack_notify
        /\ dpc' = "refresh" /\ value' = Unread
  /\ UNCHANGED <<guestVars, frontVars, regVars, linkVars, kernelVars, used_any,
                 interrupt_status, torn>>

process_one ==
  LET q == value.lo IN
  /\ dpc = "loop" /\ avail[q] > 0
  /\ avail' = [avail EXCEPT ![q] = @ - 1]
  /\ used' = [used EXCEPT ![q] = @ + 1]
  /\ used_any' = TRUE
  /\ UNCHANGED <<pc, isr, isrStatus, frontVars, regVars, linkVars, kernelVars, dpc, value,
                 interrupt_status, pending_irq_level, torn>>

\* Mutated form: the last entry is taken for an empty ring.
RingEmpty_early(q) == avail[q] <= 1

\* The ring stayed empty for the last polls.
RingEmpty(q) == avail[q] = 0

notify_done ==
  /\ dpc = "loop" /\ RingEmpty(value.lo)
  /\ IF used_any THEN interrupt_status' = TRUE /\ pending_irq_level' = "raise"
                 ELSE ack_notify /\ UNCHANGED interrupt_status
  /\ dpc' = "refresh" /\ value' = Unread /\ used_any' = FALSE
  /\ UNCHANGED <<guestVars, frontVars, regVars, linkVars, kernelVars, torn>>

\* Mutated form: INTERRUPT_STATUS is not published.
PublishStatus_lost == UNCHANGED statusReg

PublishStatus == statusReg' = interrupt_status

refresh_read_registers ==
  /\ dpc = "refresh"
  /\ PublishStatus
  /\ dpc' = "flush"
  /\ UNCHANGED <<guestVars, frontVars, notifyReg, ackReg, linkVars, kernelVars, value,
                 used_any, interrupt_status, pending_irq_level, torn>>

\* Messages of the backend QEMU for a write of the interrupt control word.
IrqMessages == <<IF pending_irq_level = "raise" THEN "ASSERT" ELSE "DEASSERT", "ACK">>

\* flush_pending_irq_level, and the backend's axi_uio_write of the control word.
flush_pending_irq_level ==
  /\ dpc = "flush"
  /\ IF pending_irq_level = "none"
       THEN UNCHANGED toFront
       ELSE /\ Len(toFront) + 2 <= MaxReplies
            /\ toFront' = toFront \o IrqMessages
  /\ pending_irq_level' = "none"
  /\ dpc' = "read"
  /\ UNCHANGED <<guestVars, frontVars, regVars, toBack, kernelVars, value, used_any,
                 interrupt_status, torn>>

-----------------------------------------------------------------------------
Driver == \E t \in Threads : submit(t)
Kick == \E t \in Threads : kick(t)
Take == \E t \in Threads : poll_used(t)
Handler == isr_enter \/ isr_status \/ isr_ack \/ isr_drain
FrontQemu == wait_for_notify_ack \/ notify_deadline \/ axi_control_read
Daemon ==
  \/ uio_read \/ uio_enable \/ scan_ack \/ scan_ack_clear
  \/ (\E p \in Parts : load_notify(p))
  \/ scan_notify \/ store_idle \/ notify_queue \/ process_one \/ notify_done
  \/ refresh_read_registers \/ flush_pending_irq_level

Next == Driver \/ Kick \/ Take \/ Handler \/ FrontQemu \/ axi_notify_pulse \/ Daemon

Spec == Init /\ [][Next]_vars

\* Everybody but the submitters and the pollers goes on when they can.
Fairness ==
  /\ WF_vars(Daemon) /\ WF_vars(axi_notify_pulse) /\ WF_vars(FrontQemu)
  /\ WF_vars(Kick) /\ WF_vars(Handler)

FairSpec == Spec /\ Fairness

-----------------------------------------------------------------------------
(* Properties.                                                             *)

GuestType ==
  /\ avail \in [Queues -> 0 .. MaxRequests] /\ used \in [Queues -> 0 .. MaxRequests]
  /\ pc \in [Threads -> {"idle", "kick", "wait"}]
  /\ isr \in {"idle", "status", "statuswait", "ack", "ackwait", "drain"}
  /\ isrStatus \in BOOLEAN
FrontType ==
  /\ waiting \in Threads \cup {None, Isr}
  /\ pending \in BOOLEAN /\ line \in BOOLEAN /\ irq \in BOOLEAN
RegType ==
  /\ notifyReg \in [lo : {0, 1, 255}, hi : {0, 255}]
  /\ statusReg \in BOOLEAN /\ ackReg \in BOOLEAN
LinkType ==
  /\ toBack \in 0 .. MaxNotifies
  /\ toFront \in Seq({"ASSERT", "DEASSERT", "ACK"})
KernelType == irqEnabled \in BOOLEAN /\ irqPending \in BOOLEAN /\ uioEvent \in BOOLEAN
DaemonType ==
  /\ dpc \in {"read", "enable", "ack", "ackclear", "load", "store", "store2", "notify",
             "loop", "refresh", "flush"}
  /\ value \in [lo : {-1, 0, 1, 255}, hi : {-1, 0, 255}]
  /\ used_any \in BOOLEAN /\ interrupt_status \in BOOLEAN /\ torn \in BOOLEAN
  /\ pending_irq_level \in {"none", "lower", "raise"}

\* Type invariant.
TypeOK == GuestType /\ FrontType /\ RegType /\ LinkType /\ KernelType /\ DaemonType

\* The daemon will wake up once more.
WakeDue == toBack > 0 \/ irqPending \/ uioEvent

\* A scan will take place that has not yet finished its load of QUEUE_NOTIFY.
ScanDue == WakeDue \/ dpc \in {"enable", "ack", "ackclear", "load"}

\* The daemon is at work on q, will be told to be, or will find q in the register.
KickOnItsWay(q) ==
  \/ \E t \in Threads : pc[t] = "kick" /\ QueueOf[t] = q
  \/ notifyReg = Word(q) /\ ScanDue
  \/ value = Word(q) /\ dpc # "load"

\* A kick is not lost between its store into the window, the coalescing of the
\* backend's interrupts, the re-enabling of the UIO interrupt before the scan and
\* the daemon's reset of the register: as long as an entry waits, a scan that will
\* find its kick is still to come.  The exception, which the code does not exclude,
\* is a kick that falls between two bytes of the daemon's load: the daemon then
\* dispatches a queue number nobody wrote.
NoLostKick == ~torn => \A q \in Served : avail[q] > 0 => KickOnItsWay(q)

\* TypeOK with what makes it inductive: outstanding requests are within their bound,
\* whose access waits, and which queue the daemon is serving.
TypeInv ==
  /\ TypeOK
  /\ \A q \in Queues : avail[q] + used[q] <= MaxRequests
  /\ waiting \in Threads => pc[waiting] = "wait"
  /\ waiting = Isr => isr \in {"statuswait", "ackwait"}
  /\ dpc = "loop" => \E q \in Served : value = Word(q)

\* An edge waits only behind a mask, a mask only before a read or its unmasking.
WakeInv ==
  /\ irqPending => ~irqEnabled
  /\ ~irqEnabled => uioEvent \/ dpc = "enable"

\* What the daemon has loaded: nothing, or a queue's number, unless it was torn.
ValueInv ==
  /\ dpc \in {"read", "enable", "ack", "ackclear", "refresh", "flush"} => value = Unread
  /\ dpc \in {"store", "store2", "notify", "loop"} /\ ~torn =>
       \E q \in Queues : value = Word(q)

\* A kick stored after the daemon has loaded a part of the idle register has left
\* the daemon a wake-up.
LoadInv ==
  dpc = "load" /\ (value.lo = 255 \/ value.hi = 255) =>
    \A q \in Queues : notifyReg = Word(q) => WakeDue

\* NoLostKick with what makes it inductive, for one queue and no coalescing.
KickInv == TypeInv /\ ValueInv /\ LoadInv /\ NoLostKick

\* The daemon never blocks in read(/dev/uioX) with its interrupt masked or with an
\* edge that the kernel holds back, although every edge masks the interrupt and the
\* daemon unmasks it before it scans.
WakeableWhenAsleep == dpc = "read" /\ ~uioEvent => irqEnabled /\ ~irqPending

\* Whenever the daemon is back in read, INTERRUPT_STATUS in the window is the
\* device's, and once the frontend has read its messages the level of the interrupt
\* line is: of the levels an INTERRUPT_ACK and a QUEUE_NOTIFY of one scan ask for,
\* the last is right.
WindowConsistent ==
  dpc = "read" =>
    /\ statusReg = interrupt_status
    /\ toFront = <<>> => line = interrupt_status

\* Nothing is going on, and nothing will until somebody submits.
Quiet ==
  /\ Settled /\ waiting = None /\ ~irq /\ isr = "idle"
  /\ \A t \in Threads : pc[t] = "idle"

\* When everything is quiet the daemon has served every kick.
ServedWhenQuiet == Quiet /\ ~torn => \A q \in Served : avail[q] = 0

\* When everything is quiet the driver has taken every completion: no interrupt was
\* dropped between the daemon's completions, its no-work acknowledgements, the
\* handler's INTERRUPT_ACK and the edge-triggered line.
TakenWhenQuiet == Quiet => \A q \in Served \ Polled : used[q] = 0

\* Every request is served in the end, and every completion taken.
EventuallyCompleted ==
  \A q \in Served : /\ avail[q] > 0 ~> avail[q] = 0
                    /\ used[q] > 0 ~> used[q] = 0
=============================================================================

------------------------------- MODULE DevMem -------------------------------
(***************************************************************************)
(* The linux-devmem fabric (fabrics/linux_devmem.c) under a block device:  *)
(* guest and daemon share the register aperture as plain memory.  Nobody   *)
(* tells the daemon of a write and nobody tells the guest that it was      *)
(* seen: the daemon polls, compares with a shadow and dispatches.  It      *)
(* loads and stores a register byte by byte.  Interrupts are edges that    *)
(* the daemon makes in a register of the platform.                         *)
(*                                                                         *)
(* The driver sets its queue up once and then submits; feature             *)
(* negotiation, which needs a driver that waits for the daemon's refresh,  *)
(* comes before.  Virtqueue contents are reduced to counts.  What the      *)
(* unsynchronised registers can lose is recorded in the history variable   *)
(* mishaps, and the properties say that nothing else is lost.              *)
(***************************************************************************)
EXTENDS Integers, Sequences

CONSTANTS
  Threads,      \* guest threads that submit requests
  MaxRequests   \* bound: requests outstanding

ASSUME DevMemAssumption == MaxRequests \in Nat \ {0}

VARIABLES
  \* Guest.
  script,     \* set-up writes the driver has still to make
  pc, avail, used, isr, isrStatus,
  \* The aperture, and the platform's interrupt.
  window, statusReg, irq,
  \* Daemon.
  at,         \* the register poll_write_registers is at, or a step after the scan
  dpc,        \* what it is doing with it
  value,      \* what it has loaded of it
  shadow, queue, interrupt_status, used_any,
  \* History.
  mishaps

guestVars == <<script, pc, avail, used, isr, isrStatus>>
apertureVars == <<window, statusReg, irq>>
daemonVars == <<at, dpc, value, shadow, queue, interrupt_status, used_any>>
vars == <<guestVars, apertureVars, daemonVars, mishaps>>

\* A register in two parts, which stand for its bytes.
Parts == {"lo", "hi"}
Word(v) == [p \in Parts |-> v]
Unread == Word(-1)
DEVMEM_NOTIFY_IDLE == Word(255)
QueueZero == Word(0)
RingAddr == Word(1)
Off == Word(0)
On == [lo |-> 1, hi |-> 0]

\* Mutated form: the addresses are read before the register that makes them valid.
write_offsets_uio == <<"QUEUE_ADDR", "QUEUE_READY", "QUEUE_NOTIFY", "INTERRUPT_ACK">>

\* write_offsets of fabric_run, in the order of the scan; the address registers as one.
write_offsets == <<"QUEUE_READY", "QUEUE_ADDR", "QUEUE_NOTIFY", "INTERRUPT_ACK">>

Registers == {"QUEUE_READY", "QUEUE_ADDR", "QUEUE_NOTIFY", "INTERRUPT_ACK"}

Init ==
  /\ script = <<[reg |-> "QUEUE_ADDR", val |-> RingAddr], [reg |-> "QUEUE_READY", val |-> On]>>
  /\ pc = [t \in Threads |-> "idle"] /\ avail = 0 /\ used = 0
  /\ isr = "idle" /\ isrStatus = FALSE
  /\ window = [r \in Registers |-> IF r = "QUEUE_NOTIFY" THEN DEVMEM_NOTIFY_IDLE ELSE Off]
  /\ statusReg = FALSE /\ irq = FALSE
  /\ at = 1 /\ dpc = "load" /\ value = Unread
  /\ shadow = window
  /\ queue = [r \in {"QUEUE_READY", "QUEUE_ADDR"} |-> Off]
  /\ interrupt_status = FALSE /\ used_any = FALSE
  /\ mishaps = {}

-----------------------------------------------------------------------------
(* The guest (Linux virtio_mmio and virtio_blk).                           *)

setup_write ==
  /\ script # <<>>
  /\ window' = [window EXCEPT ![Head(script).reg] = Head(script).val]
  /\ script' = Tail(script)
  /\ UNCHANGED <<pc, avail, used, isr, isrStatus, statusReg, irq, daemonVars, mishaps>>

submit(t) ==
  /\ script = <<>> /\ pc[t] = "idle"
  /\ avail + used < MaxRequests
  /\ avail' = avail + 1
  /\ pc' = [pc EXCEPT ![t] = "kick"]
  /\ UNCHANGED <<script, used, isr, isrStatus, apertureVars, daemonVars, mishaps>>

kick(t) ==
  /\ pc[t] = "kick"
  /\ window' = [window EXCEPT !["QUEUE_NOTIFY"] = QueueZero]
  /\ pc' = [pc EXCEPT ![t] = "idle"]
  /\ UNCHANGED <<script, avail, used, isr, isrStatus, statusReg, irq, daemonVars, mishaps>>

\* The handler reads INTERRUPT_STATUS.  The daemon raises an interrupt before its
\* refresh shows the status: a handler that is early finds nothing and leaves.
isr_status ==
  /\ isr = "idle" /\ irq
  /\ irq' = FALSE
  /\ isrStatus' = statusReg
  /\ isr' = "ack"
  /\ mishaps' = mishaps \cup (IF interrupt_status /\ ~statusReg THEN {"early"} ELSE {})
  /\ UNCHANGED <<script, pc, avail, used, window, statusReg, daemonVars>>

isr_ack ==
  /\ isr = "ack"
  /\ window' = [window EXCEPT !["INTERRUPT_ACK"] = IF isrStatus THEN On ELSE Off]
  /\ isr' = IF isrStatus THEN "drain" ELSE "idle"
  /\ UNCHANGED <<script, pc, avail, used, isrStatus, statusReg, irq, daemonVars, mishaps>>

isr_drain ==
  /\ isr = "drain"
  /\ used' = 0
  /\ isr' = "idle"
  /\ UNCHANGED <<script, pc, avail, isrStatus, apertureVars, daemonVars, mishaps>>

-----------------------------------------------------------------------------
(* The daemon: fabric_run, poll_write_registers.                           *)

off == write_offsets[at]

\* load_le32.
load_le32(p) ==
  /\ dpc = "load" /\ value[p] = Unread[p]
  /\ value' = [value EXCEPT ![p] = window[off][p]]
  /\ UNCHANGED <<guestVars, apertureVars, at, dpc, shadow, queue, interrupt_status, used_any,
                 mishaps>>

Loaded == dpc = "load" /\ \A p \in Parts : value[p] # Unread[p]

\* On to the next register, or to refresh_read_registers.
NextRegister ==
  /\ at' = IF at = Len(write_offsets) THEN 0 ELSE at + 1
  /\ dpc' = IF at = Len(write_offsets) THEN "refresh" ELSE "load"
  /\ value' = Unread

unchanged_register ==
  /\ Loaded /\ value = shadow[off]
  /\ NextRegister
  /\ UNCHANGED <<guestVars, apertureVars, shadow, queue, interrupt_status, used_any, mishaps>>

\* A queue register has changed: virtio_mmio_write.
queue_register ==
  /\ Loaded /\ value # shadow[off] /\ off \in DOMAIN queue
  /\ shadow' = [shadow EXCEPT ![off] = value]
  /\ queue' = [queue EXCEPT ![off] = value]
  /\ NextRegister
  /\ UNCHANGED <<guestVars, apertureVars, interrupt_status, used_any, mishaps>>

\* Mutated form: an interrupt whose status bit is still set is not raised again.
fabric_raise_irq_once == irq' = (irq \/ ~interrupt_status)

fabric_raise_irq == irq' = TRUE

\* blkd_ack_notify; fabric_lower_irq makes no edge.
blkd_ack_notify == IF interrupt_status THEN fabric_raise_irq ELSE UNCHANGED irq

\* QUEUE_NOTIFY has changed: blkd_virtio_notify_queue.  A load that a kick has torn is
\* taken for another queue's number.
notify_register ==
  /\ Loaded /\ value # shadow[off] /\ off = "QUEUE_NOTIFY"
  /\ shadow' = [shadow EXCEPT ![off] = value]
  /\ \/ /\ value = QueueZero /\ queue["QUEUE_READY"] # Off
        /\ dpc' = "serve" /\ UNCHANGED irq
     \/ /\ ~(value = QueueZero /\ queue["QUEUE_READY"] # Off)
        /\ blkd_ack_notify
        /\ dpc' = "idle_lo"
  /\ UNCHANGED <<guestVars, window, statusReg, at, value, queue, interrupt_status, used_any,
                 mishaps>>

process_one ==
  /\ dpc = "serve" /\ avail > 0
  /\ avail' = avail - 1 /\ used' = used + 1
  /\ used_any' = TRUE
  /\ UNCHANGED <<script, pc, isr, isrStatus, apertureVars, at, dpc, value, shadow, queue,
                 interrupt_status, mishaps>>

notify_done ==
  /\ dpc = "serve" /\ avail = 0
  /\ interrupt_status' = (interrupt_status \/ used_any)
  /\ IF used_any THEN fabric_raise_irq ELSE blkd_ack_notify
  /\ used_any' = FALSE
  /\ dpc' = "idle_lo"
  /\ UNCHANGED <<guestVars, window, statusReg, at, value, shadow, queue, mishaps>>

\* Mutated form: the shadow keeps the queue's number.
shadow_idle_kept(s) == s

shadow_idle(s) == [s EXCEPT !["QUEUE_NOTIFY"] = DEVMEM_NOTIFY_IDLE]

\* store_le32 of DEVMEM_NOTIFY_IDLE, after the dispatch.  It overwrites the kick of an
\* entry published since the last look at the ring; and of one that was not looked
\* for, where the load was torn or the scan had passed QUEUE_READY before it was set.
\* A kick that is still to come makes up for it.
store_idle ==
  /\ \/ /\ dpc = "idle_lo" /\ window' = [window EXCEPT !["QUEUE_NOTIFY"].lo = 255]
        /\ dpc' = "idle_hi" /\ UNCHANGED <<at, value, shadow>>
     \/ /\ dpc = "idle_hi" /\ window' = [window EXCEPT !["QUEUE_NOTIFY"].hi = 255]
        /\ shadow' = shadow_idle(shadow)
        /\ NextRegister
  /\ mishaps' = mishaps \cup (IF avail > 0 /\ \A t \in Threads : pc[t] # "kick"
                             THEN {"overwritten"} ELSE {})
  /\ UNCHANGED <<guestVars, statusReg, irq, queue, interrupt_status, used_any>>

\* INTERRUPT_ACK has changed.  It comes after QUEUE_NOTIFY: completions of this scan
\* or of one since the handler's read lose their status bit, and the handler of an
\* interrupt that is still on its way will not look for them.
ack_register ==
  /\ Loaded /\ value # shadow[off] /\ off = "INTERRUPT_ACK"
  /\ interrupt_status' = FALSE
  /\ window' = [window EXCEPT ![off] = Off]
  /\ mishaps' = mishaps \cup (IF used > 0 /\ irq THEN {"cancelled"} ELSE {})
  /\ NextRegister
  /\ UNCHANGED <<guestVars, statusReg, irq, shadow, queue, used_any>>

\* A physical range cannot be mapped, for DMA or for the interrupt register: the
\* device's write callback returns false, and fabric_run with it.
write_fails ==
  /\ \/ dpc = "serve"
     \/ Loaded /\ value # shadow[off] /\ off \in {"QUEUE_NOTIFY", "INTERRUPT_ACK"}
  /\ dpc' = "stopped"
  /\ mishaps' = mishaps \cup {"stopped"}
  /\ UNCHANGED <<guestVars, apertureVars, at, value, shadow, queue, interrupt_status, used_any>>

\* refresh_read_registers, and usleep.
refresh_read_registers ==
  /\ dpc = "refresh"
  /\ statusReg' = interrupt_status
  /\ at' = 1 /\ dpc' = "load"
  /\ UNCHANGED <<guestVars, window, irq, value, shadow, queue, interrupt_status, used_any,
                 mishaps>>

-----------------------------------------------------------------------------
Guest == setup_write \/ isr_ack \/ isr_drain \/ \E t \in Threads : kick(t)
Daemon ==
  \/ (\E p \in Parts : load_le32(p))
  \/ unchanged_register \/ queue_register \/ notify_register \/ process_one \/ notify_done
  \/ store_idle \/ ack_register \/ write_fails \/ refresh_read_registers

Next == (\E t \in Threads : submit(t)) \/ isr_status \/ Guest \/ Daemon

Spec == Init /\ [][Next]_vars

\* The daemon polls; a thread and a handler go on with what they have begun.
FairSpec == Spec /\ WF_vars(Daemon) /\ WF_vars(Guest) /\ WF_vars(isr_status)

-----------------------------------------------------------------------------
(* Properties.                                                             *)

\* The device serves its queue with the addresses the driver gave it, although the
\* scan overlaps the driver's writes and its loads may be torn: QUEUE_READY, written
\* last, is read first.
ServedConfigured == dpc = "serve" => queue["QUEUE_ADDR"] = RingAddr

\* The scan has found nothing to do, and the guest has nothing on its way.
Quiet ==
  /\ dpc = "refresh" /\ window = shadow /\ statusReg = interrupt_status
  /\ ~irq /\ isr = "idle" /\ \A t \in Threads : pc[t] = "idle"

\* When everything is quiet the driver has taken every completion, unless a handler
\* was early or an INTERRUPT_ACK arrived after a completion it did not mean.
TakenWhenQuiet == Quiet /\ mishaps \cap {"early", "cancelled"} = {} => used = 0

\* Every request is served, unless the store of the idle value overwrote its kick or
\* the daemon has stopped.
EventuallyServed == avail > 0 ~> avail = 0 \/ mishaps \cap {"overwritten", "stopped"} # {}
=============================================================================

------------------------------- MODULE UioSetup -------------------------------
(***************************************************************************)
(* The set-up path of the axi-linux-uio topology: how the register writes  *)
(* of a guest driver's probe and remove reach the daemon's device through  *)
(* the shared window.                                                      *)
(*                                                                         *)
(* The window has one cell per register.  The frontend QEMU stores a write *)
(* (and clears the queue registers on QUEUE_SEL), asks the daemon for a    *)
(* scan and waits for an ACK or for notify_delay_us.  The daemon's scan    *)
(* dispatches the registers that differ from its shadow, in a fixed order, *)
(* and then refreshes the cells the guest reads.  Kicks and completions,   *)
(* which use INTERRUPT_ACK and QUEUE_NOTIFY, are in UioKick; messages,     *)
(* pulses and UIO events are reduced to the wake-ups they amount to.       *)
(***************************************************************************)
EXTENDS VirtioMmio, Sequences

CONSTANTS
  Prompt,       \* notify_delay_us outlasts everything the daemon has to do
  MaxReboots,   \* bound: reboots of the guest
  MaxNotifies,  \* bound: FRONTEND_NOTIFY messages in the socket
  MaxAcks       \* bound: NOTIFY_ACK messages in the socket

ASSUME SetupAssumption ==
  /\ Prompt \in BOOLEAN
  /\ MaxReboots \in Nat /\ MaxNotifies \in Nat \ {0} /\ MaxAcks \in Nat \ {0}

VARIABLES
  barrier,   \* notify-policy is barrier, not all
  \* Frontend guest.
  session,   \* which of two sets of rings this probe uses
  step,      \* next access of the driver's script
  got,       \* STATUS as last read
  offered,   \* feature banks as last read
  driver,    \* "run", "wait" (in axi_uio_notify_backend) or "failed"
  reboots,
  leftover,  \* history: the window had feature registers of an unfinished negotiation
             \* in it when this session began
  \* The shared window and the way to the daemon and back.
  window, toBack, events, acks,
  \* Daemon.
  at,        \* 0: blocked in read; else its place in the scan and the refresh
  reload,    \* queue registers whose shadow is still to be reloaded
  shadow, lower, mmio

guestVars == <<session, step, got, offered, driver, reboots, leftover>>
linkVars == <<toBack, events, acks>>
daemonVars == <<at, reload, shadow, lower, mmio>>
vars == <<barrier, guestVars, window, linkVars, daemonVars>>

-----------------------------------------------------------------------------
(* The driver's accesses: register_virtio_device, virtio_dev_probe and     *)
(* remove of Linux over virtio_mmio.                                       *)

Write(r, v) == [op |-> "write", reg |-> r, val |-> v]
Read(r) == [op |-> "read", reg |-> r, val |-> {}]
AddStatus(bit) == <<Read("STATUS"), [op |-> "status", reg |-> "STATUS", val |-> bit]>>
Accept(b) == [op |-> "features", reg |-> "DRIVER_FEATURES", val |-> b]
Expect(r, s) == [op |-> "expect", reg |-> r, val |-> s]

\* The address of queue q's rings in a session.
Ring(s, q) == 1 + s * QueueCount + q

\* vm_setup_vq, vm_del_vq.
SetupQueue(s, q) ==
  <<Write("QUEUE_SEL", q), Expect("QUEUE_READY", {0}), Expect("QUEUE_NUM_MAX", {QueueSize}),
    Write("QUEUE_NUM", QueueSize), Write("QUEUE_ADDR", Ring(s, q)), Write("QUEUE_READY", 1)>>
DelQueue(q) == <<Write("QUEUE_SEL", q), Write("QUEUE_READY", 0), Expect("QUEUE_READY", {0})>>

\* One queue after the other, with equally many accesses.
OverQueues(F(_)) ==
  LET n == Len(F(0))
  IN  [i \in 1 .. n * QueueCount |-> F((i - 1) \div n)[((i - 1) % n) + 1]]

Probe(s) ==
  <<Write("STATUS", {})>> \o AddStatus("ACKNOWLEDGE") \o AddStatus("DRIVER")
  \o <<Write("DEVICE_FEATURES_SEL", 1), Read("DEVICE_FEATURES"),
       Write("DEVICE_FEATURES_SEL", 0), Read("DEVICE_FEATURES"),
       Write("DRIVER_FEATURES_SEL", 1), Accept(1),
       Write("DRIVER_FEATURES_SEL", 0), Accept(0)>>
  \o AddStatus("FEATURES_OK") \o <<Expect("STATUS", {{"ACKNOWLEDGE", "DRIVER", "FEATURES_OK"}})>>
  \o OverQueues(LAMBDA q : SetupQueue(s, q)) \o AddStatus("DRIVER_OK")
Remove == <<Write("STATUS", {})>> \o OverQueues(DelQueue)
Script(s) == Probe(s) \o Remove

Access == Script(session)[step]

-----------------------------------------------------------------------------
(* Registers.                                                              *)

\* Mutated form: QUEUE_READY is dispatched before the queue's addresses.
WriteOffsets_ready_first ==
  <<"DEVICE_FEATURES_SEL", "DRIVER_FEATURES", "DRIVER_FEATURES_SEL", "QUEUE_SEL",
    "QUEUE_READY", "QUEUE_NUM", "QUEUE_ADDR", "STATUS">>

\* write_offsets of fabric_run: the order of the scan.
WriteOffsets ==
  <<"DEVICE_FEATURES_SEL", "DRIVER_FEATURES", "DRIVER_FEATURES_SEL", "QUEUE_SEL",
    "QUEUE_NUM", "QUEUE_ADDR", "QUEUE_READY", "STATUS">>

\* registers of refresh_read_registers whose values change.
ReadOffsets == <<"DEVICE_FEATURES", "QUEUE_NUM_MAX", "STATUS">>

\* queue_state_offsets of poll_write_registers.
QueueOffsets == <<"QUEUE_NUM", "QUEUE_READY", "QUEUE_ADDR">>

Range(s) == {s[i] : i \in DOMAIN s}
Refresh == Len(WriteOffsets) + 1
Flush == Refresh + Len(ReadOffsets)

Init ==
  /\ barrier \in BOOLEAN
  /\ session = 0 /\ step = 1 /\ got = {} /\ offered = [b \in Banks |-> 0] /\ driver = "run"
  /\ reboots = 0 /\ leftover = FALSE
  /\ mmio = virtio_mmio_reset
  /\ window = [r \in Range(WriteOffsets) \cup Range(ReadOffsets) |->
                 IF r \in Range(ReadOffsets) THEN virtio_mmio_read(mmio, r) ELSE 0]
  /\ shadow = [r \in Range(WriteOffsets) |-> window[r]]
  /\ toBack = 0 /\ events = 0 /\ acks = 0
  /\ at = 0 /\ reload = 0 /\ lower = FALSE

-----------------------------------------------------------------------------
(* Frontend.                                                               *)

\* The daemon is blocked and nothing is on its way to it or from it.
Settled == toBack = 0 /\ events = 0 /\ acks = 0 /\ at = 0

\* The access is over: a read takes its value, and the driver goes on.
EndAccess ==
  LET a == Access
      v == window[a.reg]
  IN
  /\ got' = IF a.op \in {"read", "expect"} /\ a.reg = "STATUS" THEN v ELSE got
  /\ offered' = IF a.reg = "DEVICE_FEATURES"
                  THEN [offered EXCEPT ![Script(session)[step - 1].val] = v] ELSE offered
  /\ driver' = IF a.op = "expect" /\ v \notin a.val THEN "failed" ELSE "run"
  /\ step' = IF step = Len(Script(session)) THEN 1 ELSE step + 1
  /\ session' = IF step = Len(Script(session)) THEN 1 - session ELSE session
  /\ leftover' = (step # Len(Script(session)) /\ leftover)
  /\ UNCHANGED reboots

\* axi_uio_write_needs_backend.
axi_uio_write_needs_backend(r) == ~barrier \/ r \notin {"QUEUE_NUM", "QUEUE_ADDR"}

\* Send FRONTEND_NOTIFY and hold the access.
axi_uio_notify_backend ==
  /\ toBack < MaxNotifies /\ toBack' = toBack + 1
  /\ driver' = "wait"
  /\ UNCHANGED <<session, step, got, offered, reboots, leftover, events, acks>>

\* Mutated form: the queue registers keep the previous queue's values.
Store_kept(r, v) == [window EXCEPT ![r] = v]

\* memcpy into the window; a write of QUEUE_SEL clears the queue registers.
Store(r, v) ==
  [c \in DOMAIN window |-> IF c = r THEN v
                           ELSE IF r = "QUEUE_SEL" /\ c \in QueueRegs THEN 0 ELSE window[c]]

axi_uio_write ==
  LET a == Access IN
  /\ driver = "run" /\ a.op \in {"write", "status", "features"}
  /\ window' = Store(a.reg, CASE a.op = "write" -> a.val
                              [] a.op = "status" -> got \cup {a.val}
                              [] a.op = "features" -> offered[a.val])
  /\ IF axi_uio_write_needs_backend(a.reg)
       THEN axi_uio_notify_backend
       ELSE EndAccess /\ UNCHANGED linkVars
  /\ UNCHANGED <<barrier, daemonVars>>

axi_uio_read ==
  /\ driver = "run" /\ Access.op \in {"read", "expect"}
  /\ IF barrier THEN EndAccess /\ UNCHANGED linkVars ELSE axi_uio_notify_backend
  /\ UNCHANGED <<barrier, window, daemonVars>>

\* axi_wait_for_notify_ack and axi_control_read: an ACK ends the wait it finds,
\* whichever access it belongs to; the main loop drops one that nobody waits for.
take_notify_ack ==
  /\ acks > 0 /\ acks' = acks - 1
  /\ IF driver = "wait" THEN EndAccess ELSE UNCHANGED guestVars
  /\ UNCHANGED <<barrier, window, toBack, events, daemonVars>>

\* notify_delay_us is over.
notify_deadline ==
  /\ driver = "wait"
  /\ Prompt => Settled
  /\ EndAccess
  /\ UNCHANGED <<barrier, window, linkVars, daemonVars>>

\* Feature negotiation has begun in the window and not come to its end there: a bank
\* is still selected, or the word is the first of the two the driver writes.
Negotiating ==
  \/ window["DEVICE_FEATURES_SEL"] # 0 \/ window["DRIVER_FEATURES_SEL"] # 0
  \/ window["DRIVER_FEATURES"] \notin {0, Features[0]}

\* The guest reboots, at any point of its script: its next kernel probes the device
\* anew.  Neither the window nor the daemon is told.  (While an access waits, the
\* frontend QEMU is in the access and resets nothing.)
reboot ==
  /\ driver # "wait" /\ reboots < MaxReboots
  /\ reboots' = reboots + 1
  /\ session' = 1 - session /\ step' = 1 /\ driver' = "run"
  /\ got' = {} /\ offered' = [b \in Banks |-> 0]
  /\ leftover' = Negotiating
  /\ UNCHANGED <<barrier, window, linkVars, daemonVars>>

-----------------------------------------------------------------------------
(* Backend.                                                                *)

\* The pulse becomes a UIO event; a second edge stays pending behind the mask and
\* further ones are lost in it.
axi_notify_pulse ==
  /\ toBack > 0 /\ toBack' = toBack - 1
  /\ events' = IF events = 2 THEN 2 ELSE events + 1
  /\ UNCHANGED <<barrier, guestVars, window, acks, daemonVars>>

\* Mutated form: the event is not consumed.
TakeEvent_kept == UNCHANGED events

TakeEvent == events' = events - 1

\* read and write of /dev/uioX.
wait_for_uio_interrupt ==
  /\ at = 0 /\ events > 0
  /\ TakeEvent
  /\ at' = 1
  /\ UNCHANGED <<barrier, guestVars, window, toBack, acks, reload, shadow, lower, mmio>>

\* The daemon's mmio_write lowers the interrupt on a reset.
LowersIrq(off, value) == off = "STATUS" /\ value = {}

\* poll_write_registers: one register.  A changed one is dispatched to the device.
poll_write_register ==
  LET off == WriteOffsets[at]
      value == window[off]
  IN
  /\ at \in DOMAIN WriteOffsets /\ reload = 0
  /\ IF value = shadow[off]
       THEN UNCHANGED <<shadow, mmio, lower, reload>>
       ELSE /\ shadow' = [shadow EXCEPT ![off] = value]
            /\ mmio' = virtio_mmio_write(mmio, off, value)
            /\ lower' = (lower \/ LowersIrq(off, value))
            /\ reload' = IF off = "QUEUE_SEL" THEN Len(QueueOffsets) ELSE 0
  /\ at' = at + 1
  /\ UNCHANGED <<barrier, guestVars, window, linkVars>>

\* poll_write_registers: after QUEUE_SEL the queue registers' shadows are reloaded.
reload_queue_shadow ==
  LET off == QueueOffsets[1 + Len(QueueOffsets) - reload] IN
  /\ reload > 0
  /\ shadow' = [shadow EXCEPT ![off] = window[off]]
  /\ reload' = reload - 1
  /\ UNCHANGED <<barrier, guestVars, window, linkVars, at, lower, mmio>>

\* refresh_read_registers: one register.
refresh_read_register ==
  LET off == ReadOffsets[1 + at - Refresh] IN
  /\ at \in Refresh .. Flush - 1
  /\ window' = [window EXCEPT ![off] = virtio_mmio_read(mmio, off)]
  /\ at' = at + 1
  /\ UNCHANGED <<barrier, guestVars, linkVars, reload, shadow, lower, mmio>>

\* flush_pending_irq_level: only a lowered interrupt brings the frontend an ACK.
flush_pending_irq_level ==
  /\ at = Flush
  /\ IF lower THEN acks < MaxAcks /\ acks' = acks + 1 ELSE UNCHANGED acks
  /\ lower' = FALSE
  /\ at' = 0
  /\ UNCHANGED <<barrier, guestVars, window, toBack, events, reload, shadow, mmio>>

-----------------------------------------------------------------------------
Frontend ==
  axi_uio_write \/ axi_uio_read \/ take_notify_ack \/ notify_deadline
Daemon ==
  \/ wait_for_uio_interrupt \/ poll_write_register \/ reload_queue_shadow
  \/ refresh_read_register \/ flush_pending_irq_level

Next == Frontend \/ reboot \/ axi_notify_pulse \/ Daemon

Spec == Init /\ [][Next]_vars

FairSpec == Spec /\ WF_vars(Frontend) /\ WF_vars(axi_notify_pulse) /\ WF_vars(Daemon)

-----------------------------------------------------------------------------
(* Properties.                                                             *)

\* Once the driver has reset the device, the device never takes a queue for ready
\* with the rings of another queue, of an earlier session or of none: it has the
\* addresses and the size the driver gave that queue, although the window has one
\* set of queue registers that is cleared, rewritten and compared with a shadow.
ReadyConfigured ==
  \A q \in Queues : step > 1 /\ mmio.queues[q]["QUEUE_READY"] = 1 =>
    /\ mmio.queues[q]["QUEUE_ADDR"] = Ring(session, q)
    /\ mmio.queues[q]["QUEUE_NUM"] = QueueSize

\* The driver has written DRIVER_OK and the write is over.
ProbeDone == step = Len(Probe(session)) + 1 /\ driver = "run"

\* What the daemon's device has when the driver's probe is over is what the driver
\* asked for: the status, every queue and both feature banks, whatever reboots came
\* before.  The banks have one exception: if the guest was rebooted in the middle of
\* feature negotiation, window and shadow keep a selector or a word that the reset
\* device has lost, change detection drops the next driver's equal write, and a bank
\* may miss its word.  The session after that one is right again.
ProbeDelivered ==
  ProbeDone =>
    /\ mmio.status = {"ACKNOWLEDGE", "DRIVER", "FEATURES_OK", "DRIVER_OK"}
    /\ \A q \in Queues : mmio.queues[q]["QUEUE_READY"] = 1
    /\ ~leftover => \A b \in Banks : mmio.driver_features[b] = Features[b]

\* No probe fails: the driver never sees a queue that is in use or does not exist, or
\* a device that refuses its features.
NeverFails == driver # "failed"

\* Every probe comes to its end.
EventuallyProbed == step = 1 ~> ProbeDone
=============================================================================

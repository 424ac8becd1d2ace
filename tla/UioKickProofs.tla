---------------------------- MODULE UioKickProofs ----------------------------
(***************************************************************************)
(* Proofs about UioKick for any number of threads and any bounds: types,   *)
(* the daemon's wake-ups and the window's interrupt registers under every  *)
(* policy; that no kick is lost, for one queue and a frontend that does    *)
(* not hold kicks back; that no kick and no interrupt is lost, for any     *)
(* queues and a frontend that waits for the daemon.                        *)
(***************************************************************************)
EXTENDS UioKick, TLAPS

\* The queue of a thread is 0 or 1.
LEMMA QueueNumbers ==
  /\ \A t \in Threads : QueueOf[t] \in Queues
  /\ \A q \in Queues : q \in {0, 1}
  /\ \A q \in Served : q \in Queues
BY ConstantsAssumption, Zenon DEF ConstantsAssumption, Queues

\* The registers' values are of the registers' types.
LEMMA Registers ==
  /\ UIO_NOTIFY_IDLE \in [lo : {0, 1, 255}, hi : {0, 255}]
  /\ Unread \in [lo : {-1, 0, 1, 255}, hi : {-1, 0, 255}]
  /\ \A q \in Queues : Word(q) \in [lo : {0, 1, 255}, hi : {0, 255}]
BY QueueNumbers, Zenon DEF UIO_NOTIFY_IDLE, Unread, Word

-----------------------------------------------------------------------------
\* The initial state satisfies the type invariant.
LEMMA TypeInit == Init => TypeInv
<1>. SUFFICES ASSUME Init PROVE TypeInv
  BY Zenon
<1>. USE DEF Init
<1>0. MaxRequests \in Nat /\ MaxNotifies \in Nat /\ None \notin Threads /\ None # Isr
  BY ConstantsAssumption, Zenon DEF ConstantsAssumption
<1>1. GuestType
  <2>1. avail \in [Queues -> 0 .. MaxRequests] /\ used \in [Queues -> 0 .. MaxRequests]
    BY <1>0
  <2>2. pc \in [Threads -> {"idle", "kick", "wait"}]
    BY Zenon
  <2>. QED
    BY <2>1, <2>2, Zenon DEF GuestType
<1>2. FrontType /\ KernelType
  BY Zenon DEF FrontType, KernelType
<1>3. RegType
  BY Registers, Zenon DEF RegType
<1>4. LinkType
  BY <1>0 DEF LinkType
<1>5. DaemonType
  BY Registers, ZenonT(40) DEF DaemonType
<1>6. \A q \in Queues : avail[q] + used[q] <= MaxRequests
  BY <1>0
<1>. QED
  BY <1>0, <1>1, <1>2, <1>3, <1>4, <1>5, <1>6, Zenon DEF TypeInv, TypeOK

\* Variables that do not change keep their types.
LEMMA Keep ==
  /\ GuestType /\ UNCHANGED guestVars => GuestType'
  /\ FrontType /\ UNCHANGED frontVars => FrontType'
  /\ RegType /\ UNCHANGED regVars => RegType'
  /\ LinkType /\ UNCHANGED linkVars => LinkType'
  /\ KernelType /\ UNCHANGED kernelVars => KernelType'
  /\ DaemonType /\ UNCHANGED daemonVars => DaemonType'
<1>1. GuestType /\ UNCHANGED guestVars => GuestType'
  BY Zenon DEF GuestType, guestVars
<1>2. FrontType /\ UNCHANGED frontVars => FrontType'
  BY Zenon DEF FrontType, frontVars
<1>3. RegType /\ UNCHANGED regVars => RegType'
  BY Zenon DEF RegType, regVars
<1>4. LinkType /\ UNCHANGED linkVars => LinkType'
  BY Zenon DEF LinkType, linkVars
<1>5. KernelType /\ UNCHANGED kernelVars => KernelType'
  BY Zenon DEF KernelType, kernelVars
<1>6. DaemonType /\ UNCHANGED daemonVars => DaemonType'
  BY DEF DaemonType, daemonVars
<1>. QED
  BY <1>1, <1>2, <1>3, <1>4, <1>5, <1>6, Zenon

\* A step that leaves requests, accesses and the daemon's queue alone, and keeps
\* the types, preserves the type invariant.
LEMMA TypeQuiet ==
  ASSUME TypeInv, TypeOK', avail' = avail, used' = used, pc' = pc, waiting' = waiting,
         isr' = isr, dpc' = "loop" => dpc = "loop" /\ value' = value
  PROVE  TypeInv'
BY Zenon DEF TypeInv

\* A step of the guest preserves the type invariant.
LEMMA TypeGuest ==
  ASSUME TypeInv, Driver \/ Kick \/ Take \/ Handler
  PROVE  TypeInv'
<1>. USE DEF TypeInv, TypeOK
<1>0. MaxRequests \in Nat /\ MaxNotifies \in Nat /\ Isr \notin Threads
  BY ConstantsAssumption, Zenon DEF ConstantsAssumption
<1>1. ASSUME NEW t \in Threads, submit(t) PROVE TypeInv'
  <2>1. FrontType' /\ RegType' /\ LinkType' /\ KernelType' /\ DaemonType'
    BY <1>1, Keep, Zenon DEF submit
  <2>2. PICK q \in Queues : q = QueueOf[t]
    BY QueueNumbers, Zenon
  <2>3. /\ avail[q] + used[q] < MaxRequests /\ avail' = [avail EXCEPT ![q] = @ + 1]
        /\ used' = used
    BY <1>1, <2>2, Zenon DEF submit
  <2>4. avail' \in [Queues -> 0 .. MaxRequests]
    BY <1>0, <2>3 DEF GuestType
  <2>5. \A r \in Queues : avail'[r] + used'[r] <= MaxRequests
    BY <1>0, <2>3 DEF GuestType
  <2>6. GuestType'
    BY <1>1, <2>3, <2>4, Zenon DEF submit, GuestType
  <2>7. (waiting \in Threads => pc[waiting] = "wait")'
    BY <1>1, Zenon DEF submit, GuestType, frontVars
  <2>. QED
    BY <1>1, <2>1, <2>5, <2>6, <2>7, Zenon DEF submit, frontVars, daemonVars
<1>2. ASSUME NEW t \in Threads, kick(t) PROVE TypeInv'
  <2>1. KernelType' /\ DaemonType'
    BY <1>2, Keep, Zenon DEF kick
  <2>2. /\ \/ waiting' = waiting /\ pc' = [pc EXCEPT ![t] = "idle"]
           \/ waiting' = t /\ pc' = [pc EXCEPT ![t] = "wait"]
        /\ waiting = None
        /\ pending' \in BOOLEAN /\ toBack' \in 0 .. MaxNotifies
    BY <1>0, <1>2, ConstantsAssumption
    DEF kick, axi_uio_notify_backend_async, axi_uio_notify_backend, axi_control_send,
        FrontType, LinkType, ConstantsAssumption
  <2>3. GuestType' /\ FrontType' /\ LinkType'
    BY <1>2, <2>2, Zenon DEF kick, GuestType, FrontType, LinkType
  <2>4. RegType'
    BY <1>2, Registers, QueueNumbers DEF kick, RegType
  <2>5. /\ (waiting \in Threads => pc[waiting] = "wait")'
        /\ (waiting = Isr => isr \in {"statuswait", "ackwait"})'
    BY <1>0, <2>2, ConstantsAssumption, Zenon DEF GuestType, ConstantsAssumption
  <2>. QED
    BY <1>2, <2>1, <2>3, <2>4, <2>5, Zenon DEF kick, daemonVars
<1>3. ASSUME NEW t \in Threads, poll_used(t) PROVE TypeInv'
  <2>1. FrontType' /\ RegType' /\ LinkType' /\ KernelType' /\ DaemonType'
    BY <1>3, Keep, Zenon DEF poll_used
  <2>2. PICK q \in Queues : q = QueueOf[t]
    BY QueueNumbers, Zenon
  <2>3. used[q] > 0 /\ used' = [used EXCEPT ![q] = @ - 1] /\ avail' = avail
    BY <1>3, <2>2, Zenon DEF poll_used
  <2>4. used' \in [Queues -> 0 .. MaxRequests]
    BY <1>0, <2>3 DEF GuestType
  <2>5. \A r \in Queues : avail'[r] + used'[r] <= MaxRequests
    BY <1>0, <2>3 DEF GuestType
  <2>6. GuestType'
    BY <1>3, <2>3, <2>4, Zenon DEF poll_used, GuestType
  <2>. QED
    BY <1>3, <2>1, <2>5, <2>6, Zenon DEF poll_used, frontVars, daemonVars
<1>4. CASE isr_enter
  <2>1. RegType' /\ LinkType' /\ KernelType' /\ DaemonType'
    BY <1>4, Keep, Zenon DEF isr_enter
  <2>2. GuestType' /\ FrontType'
    BY <1>4, Zenon DEF isr_enter, GuestType, FrontType
  <2>. QED
    BY <1>4, <2>1, <2>2, Zenon DEF isr_enter, daemonVars
<1>5. CASE isr_status
  <2>1. RegType' /\ KernelType' /\ DaemonType'
    BY <1>5, Keep, Zenon DEF isr_status
  <2>2. /\ \/ waiting' = waiting /\ isr' = "ack" /\ isrStatus' = statusReg
           \/ waiting' = Isr /\ isr' = "statuswait" /\ isrStatus' = isrStatus
        /\ waiting = None /\ pending' = pending /\ toBack' \in 0 .. MaxNotifies
    BY <1>0, <1>5 DEF isr_status, axi_uio_notify_backend, axi_control_send, LinkType
  <2>3. GuestType' /\ FrontType' /\ LinkType'
    BY <1>5, <2>2, Zenon DEF isr_status, GuestType, FrontType, LinkType, RegType
  <2>4. /\ (waiting \in Threads => pc[waiting] = "wait")'
        /\ (waiting = Isr => isr \in {"statuswait", "ackwait"})'
    BY <1>0, <2>2, ConstantsAssumption, Zenon DEF ConstantsAssumption
  <2>. QED
    BY <1>5, <2>1, <2>3, <2>4, Zenon DEF isr_status, daemonVars
<1>6. CASE isr_ack
  <2>1. KernelType' /\ DaemonType'
    BY <1>6, Keep, Zenon DEF isr_ack
  <2>2. waiting' = Isr /\ isr' = "ackwait" /\ pending' = pending /\ toBack' \in 0 .. MaxNotifies
    BY <1>0, <1>6 DEF isr_ack, axi_uio_notify_backend, axi_control_send, LinkType
  <2>3. GuestType' /\ FrontType' /\ LinkType' /\ RegType'
    BY <1>6, <2>2, Zenon DEF isr_ack, GuestType, FrontType, LinkType, RegType
  <2>. QED
    BY <1>0, <1>6, <2>1, <2>2, <2>3, Zenon DEF isr_ack, daemonVars
<1>7. CASE isr_drain
  <2>1. FrontType' /\ RegType' /\ LinkType' /\ KernelType' /\ DaemonType'
    BY <1>7, Keep, Zenon DEF isr_drain
  <2>2. used' \in [Queues -> 0 .. MaxRequests] /\ \A q \in Queues : used'[q] <= used[q]
    BY <1>0, <1>7 DEF isr_drain, GuestType
  <2>3. \A q \in Queues : avail'[q] + used'[q] <= MaxRequests
    BY <1>0, <1>7, <2>2 DEF isr_drain, GuestType
  <2>4. GuestType'
    BY <1>7, <2>2, Zenon DEF isr_drain, GuestType
  <2>. QED
    BY <1>7, <2>1, <2>3, <2>4, Zenon DEF isr_drain, frontVars, daemonVars
<1>. QED
  BY <1>1, <1>2, <1>3, <1>4, <1>5, <1>6, <1>7, Zenon DEF Driver, Kick, Take, Handler

\* A step of the frontend QEMU preserves the type invariant.
LEMMA TypeFront ==
  ASSUME TypeInv, FrontQemu
  PROVE  TypeInv'
<1>. USE DEF TypeInv, TypeOK
<1>0. None \notin Threads /\ Isr \notin Threads /\ None # Isr
  BY ConstantsAssumption, Zenon DEF ConstantsAssumption
<1>1. toFront # <<>> /\ toFront' = Tail(toFront) => toFront' \in Seq({"ASSERT", "DEASSERT", "ACK"})
  BY DEF LinkType
<1>2. ASSUME waiting # None, EndAccess
      PROVE  /\ waiting' = None /\ pc' \in [Threads -> {"idle", "kick", "wait"}]
             /\ isr' \in {"idle", "status", "statuswait", "ack", "ackwait", "drain"}
             /\ isrStatus' \in BOOLEAN
  <2>1. waiting' = None /\ pc' \in [Threads -> {"idle", "kick", "wait"}]
    BY <1>2, Zenon DEF EndAccess, GuestType, FrontType
  <2>2. isr' \in {"idle", "status", "statuswait", "ack", "ackwait", "drain"}
    BY <1>2, Zenon DEF EndAccess, GuestType
  <2>3. isrStatus' \in BOOLEAN
    BY <1>2, Zenon DEF EndAccess, GuestType, RegType
  <2>. QED
    BY <2>1, <2>2, <2>3, Zenon
<1>3. CASE wait_for_notify_ack
  <2>1. RegType' /\ KernelType' /\ DaemonType'
    BY <1>3, Keep, Zenon DEF wait_for_notify_ack
  <2>2. LinkType'
    BY <1>1, <1>3, Zenon DEF wait_for_notify_ack, LinkType
  <2>3. GuestType'
    BY <1>2, <1>3, Zenon DEF wait_for_notify_ack, GuestType
  <2>4. FrontType'
    BY <1>2, <1>3, Zenon DEF wait_for_notify_ack, FrontType, qemu_set_irq
  <2>5. /\ (waiting \in Threads => pc[waiting] = "wait")'
        /\ (waiting = Isr => isr \in {"statuswait", "ackwait"})'
    BY <1>0, <1>2, <1>3, Zenon DEF wait_for_notify_ack
  <2>. QED
    BY <1>3, <2>1, <2>2, <2>3, <2>4, <2>5, Zenon DEF wait_for_notify_ack, daemonVars
<1>4. CASE notify_deadline
  <2>1. RegType' /\ LinkType' /\ KernelType' /\ DaemonType'
    BY <1>4, Keep, Zenon DEF notify_deadline
  <2>2. GuestType' /\ FrontType'
    BY <1>2, <1>4, Zenon DEF notify_deadline, GuestType, FrontType
  <2>3. /\ (waiting \in Threads => pc[waiting] = "wait")'
        /\ (waiting = Isr => isr \in {"statuswait", "ackwait"})'
    BY <1>0, <1>2, <1>4, Zenon DEF notify_deadline
  <2>. QED
    BY <1>4, <2>1, <2>2, <2>3, Zenon DEF notify_deadline, daemonVars
<1>5. CASE axi_control_read
  <2>1. GuestType' /\ RegType' /\ KernelType' /\ DaemonType'
    BY <1>5, Keep, Zenon DEF axi_control_read
  <2>2. LinkType'
    BY <1>1, <1>5, Zenon DEF axi_control_read, LinkType
  <2>3. FrontType'
    BY <1>5, Zenon DEF axi_control_read, FrontType, qemu_set_irq
  <2>. QED
    BY <1>5, <2>1, <2>2, <2>3, Zenon DEF axi_control_read, guestVars, daemonVars
<1>. QED
  BY <1>3, <1>4, <1>5, Zenon DEF FrontQemu

\* A step of the backend QEMU or of the daemon preserves the type invariant.
LEMMA TypeBack ==
  ASSUME TypeInv, axi_notify_pulse \/ Daemon
  PROVE  TypeInv'
<1>. USE DEF TypeInv, TypeOK
<1>0. MaxRequests \in Nat
  BY ConstantsAssumption, Zenon DEF ConstantsAssumption
<1>1. CASE axi_notify_pulse
  <2>1. GuestType' /\ FrontType' /\ RegType' /\ DaemonType'
    BY <1>1, Keep, Zenon DEF axi_notify_pulse
  <2>2. LinkType'
    BY <1>1, ConstantsAssumption DEF axi_notify_pulse, LinkType, ConstantsAssumption
  <2>3. KernelType'
    BY <1>1, Zenon DEF axi_notify_pulse, chiplets_uio_irq, KernelType
  <2>. QED
    BY <1>1, <2>1, <2>2, <2>3, Zenon DEF axi_notify_pulse, guestVars, frontVars, daemonVars
<1>2. CASE uio_read
  <2>1. GuestType' /\ FrontType' /\ RegType' /\ LinkType'
    BY <1>2, Keep, Zenon DEF uio_read
  <2>2. KernelType'
    BY <1>2, Zenon DEF uio_read, KernelType
  <2>3. DaemonType'
    BY <1>2, Zenon DEF uio_read, DaemonType
  <2>. QED
    BY <1>2, <2>1, <2>2, <2>3, Zenon DEF uio_read, guestVars, frontVars
<1>3. CASE uio_enable
  <2>1. GuestType' /\ FrontType' /\ RegType' /\ LinkType'
    BY <1>3, Keep, Zenon DEF uio_enable
  <2>2. KernelType'
    BY <1>3, Zenon DEF uio_enable, irqcontrol, chiplets_uio_irq, KernelType
  <2>3. DaemonType'
    BY <1>3, Zenon DEF uio_enable, DaemonType
  <2>. QED
    BY <1>3, <2>1, <2>2, <2>3, Zenon DEF uio_enable, guestVars, frontVars
<1>4. CASE scan_ack
  <2>1. GuestType' /\ FrontType' /\ RegType' /\ LinkType' /\ KernelType'
    BY <1>4, Keep, Zenon DEF scan_ack
  <2>2. DaemonType'
    <3>1. interrupt_status' \in BOOLEAN
      BY <1>4, Zenon DEF scan_ack, DaemonType
    <3>. QED
      BY <1>4, <3>1, Zenon DEF scan_ack, DaemonType
  <2>. QED
    BY <1>4, <2>1, <2>2, Zenon DEF scan_ack, guestVars, frontVars
<1>5. CASE scan_ack_clear
  <2>1. GuestType' /\ FrontType' /\ LinkType' /\ KernelType'
    BY <1>5, Keep, Zenon DEF scan_ack_clear
  <2>2. DaemonType'
    BY <1>5, Zenon DEF scan_ack_clear, DaemonType
  <2>3. RegType'
    BY <1>5, Zenon DEF scan_ack_clear, RegType
  <2>. QED
    BY <1>5, <2>1, <2>2, <2>3, Zenon DEF scan_ack_clear, guestVars, frontVars
<1>6. ASSUME NEW p \in Parts, load_notify(p) PROVE TypeInv'
  <2>1. GuestType' /\ FrontType' /\ RegType' /\ LinkType' /\ KernelType'
    BY <1>6, Keep, Zenon DEF load_notify
  <2>2. value' \in [lo : {-1, 0, 1, 255}, hi : {-1, 0, 255}]
    <3>1. CASE p = "lo"
      BY <1>6, <3>1 DEF load_notify, DaemonType, RegType
    <3>2. CASE p = "hi"
      BY <1>6, <3>2 DEF load_notify, DaemonType, RegType
    <3>. QED
      BY <3>1, <3>2, Zenon DEF Parts
  <2>3. DaemonType'
    BY <1>6, <2>2, Zenon DEF load_notify, DaemonType
  <2>. QED
    BY <1>6, <2>1, <2>3, Zenon DEF load_notify, guestVars, frontVars
<1>7. CASE scan_notify
  <2>1. GuestType' /\ FrontType' /\ RegType' /\ LinkType' /\ KernelType'
    BY <1>7, Keep, Zenon DEF scan_notify
  <2>2. DaemonType'
    BY <1>7, Registers, ZenonT(40) DEF scan_notify, DaemonType
  <2>. QED
    BY <1>7, <2>1, <2>2, Zenon DEF scan_notify, guestVars, frontVars
<1>8. CASE store_idle
  <2>1. GuestType' /\ FrontType' /\ LinkType' /\ KernelType'
    BY <1>8, Keep, Zenon DEF store_idle
  <2>2. notifyReg' \in [lo : {0, 1, 255}, hi : {0, 255}]
    BY <1>8 DEF store_idle, RegType
  <2>3. DaemonType' /\ RegType'
    BY <1>8, <2>2 DEF store_idle, DaemonType, RegType
  <2>. QED
    BY <1>8, <2>1, <2>3, Zenon DEF store_idle, guestVars, frontVars
<1>9. CASE notify_queue
  <2>1. GuestType' /\ FrontType' /\ RegType' /\ LinkType' /\ KernelType'
    BY <1>9, Keep, Zenon DEF notify_queue
  <2>2. DaemonType'
    BY <1>9, Registers DEF notify_queue, ack_notify, DaemonType
  <2>. QED
    BY <1>9, <2>1, <2>2, Zenon DEF notify_queue, guestVars, frontVars
<1>10. CASE process_one
  <2>1. FrontType' /\ RegType' /\ LinkType' /\ KernelType'
    BY <1>10, Keep, Zenon DEF process_one
  <2>2. PICK q \in Queues : q = value.lo
    BY <1>10, QueueNumbers DEF process_one, Word
  <2>3. /\ avail[q] > 0 /\ avail' = [avail EXCEPT ![q] = @ - 1]
        /\ used' = [used EXCEPT ![q] = @ + 1]
    BY <1>10, <2>2, Zenon DEF process_one
  <2>4. avail' \in [Queues -> 0 .. MaxRequests] /\ used' \in [Queues -> 0 .. MaxRequests]
    BY <1>0, <2>3 DEF GuestType
  <2>5. \A r \in Queues : avail'[r] + used'[r] <= MaxRequests
    BY <1>0, <2>3 DEF GuestType
  <2>6. GuestType' /\ DaemonType'
    BY <1>10, <2>4 DEF process_one, GuestType, DaemonType
  <2>. QED
    BY <1>10, <2>1, <2>5, <2>6, Zenon DEF process_one, frontVars
<1>11. CASE notify_done
  <2>1. GuestType' /\ FrontType' /\ RegType' /\ LinkType' /\ KernelType'
    BY <1>11, Keep, Zenon DEF notify_done
  <2>2. DaemonType'
    <3>1. pending_irq_level' \in {"none", "lower", "raise"}
      BY <1>11, Zenon DEF notify_done, ack_notify
    <3>2. interrupt_status' \in BOOLEAN
      BY <1>11, Zenon DEF notify_done, DaemonType
    <3>3. used_any' \in BOOLEAN
      BY <1>11, Zenon DEF notify_done
    <3>. QED
      BY <1>11, <3>1, <3>2, <3>3, Registers DEF notify_done, DaemonType
  <2>. QED
    BY <1>11, <2>1, <2>2, Zenon DEF notify_done, guestVars, frontVars
<1>12. CASE refresh_read_registers
  <2>1. GuestType' /\ FrontType' /\ LinkType' /\ KernelType'
    BY <1>12, Keep, Zenon DEF refresh_read_registers
  <2>2. DaemonType' /\ RegType'
    BY <1>12 DEF refresh_read_registers, PublishStatus, DaemonType, RegType
  <2>. QED
    BY <1>12, <2>1, <2>2, Zenon DEF refresh_read_registers, guestVars, frontVars
<1>13. CASE flush_pending_irq_level
  <2>1. GuestType' /\ FrontType' /\ RegType' /\ KernelType'
    BY <1>13, Keep, Zenon DEF flush_pending_irq_level
  <2>2. toFront' \in Seq({"ASSERT", "DEASSERT", "ACK"})
    <3>1. IrqMessages \in Seq({"ASSERT", "DEASSERT", "ACK"})
      <4>1. PICK m \in {"ASSERT", "DEASSERT"} : IrqMessages = <<m, "ACK">>
        BY Zenon DEF IrqMessages
      <4>. QED
        BY <4>1
    <3>2. toFront' = toFront \/ toFront' = toFront \o IrqMessages
      BY <1>13, Zenon DEF flush_pending_irq_level
    <3>3. \A s, t \in Seq({"ASSERT", "DEASSERT", "ACK"}) : s \o t \in Seq({"ASSERT", "DEASSERT", "ACK"})
      OBVIOUS
    <3>. QED
      BY <3>1, <3>2, <3>3, Zenon DEF LinkType
  <2>3. DaemonType' /\ LinkType'
    BY <1>13, <2>2, Zenon DEF flush_pending_irq_level, DaemonType, LinkType
  <2>. QED
    BY <1>13, <2>1, <2>3, Zenon DEF flush_pending_irq_level, guestVars, frontVars
<1>. QED
  BY <1>1, <1>2, <1>3, <1>4, <1>5, <1>6, <1>7, <1>8, <1>9, <1>10, <1>11, <1>12, <1>13, Zenon
  DEF Daemon

\* A step in which nothing changes preserves the type invariant.
LEMMA TypeStutter == TypeInv /\ UNCHANGED vars => TypeInv'
BY Keep, Zenon DEF vars, TypeInv, TypeOK, guestVars, frontVars, daemonVars

\* The type invariant of UioKick holds in every reachable state, whatever the
\* threads, the queues, the policy and the bounds.
THEOREM TypeAlways == Spec => []TypeOK
<1>1. TypeInv /\ [Next]_vars => TypeInv'
  BY TypeGuest, TypeFront, TypeBack, TypeStutter, Zenon DEF Next
<1>2. TypeInv => TypeOK
  BY Zenon DEF TypeInv
<1>. QED
  BY TypeInit, <1>1, <1>2, PTL DEF Spec

-----------------------------------------------------------------------------
\* WakeInv depends on the backend kernel's variables and on whether the daemon is
\* about to unmask its interrupt.
LEMMA WakeStep ==
  ASSUME WakeInv, [Next]_vars
  PROVE  WakeInv'
<1>. USE DEF WakeInv
<1>1. CASE axi_notify_pulse
  BY <1>1, Zenon DEF axi_notify_pulse, chiplets_uio_irq, daemonVars
<1>2. CASE uio_read
  BY <1>2, Zenon DEF uio_read
<1>3. CASE uio_enable
  BY <1>3, Zenon DEF uio_enable, irqcontrol, chiplets_uio_irq
<1>4. CASE UNCHANGED kernelVars /\ dpc # "enable"
  BY <1>4, Zenon DEF kernelVars
<1>5. CASE UNCHANGED kernelVars /\ UNCHANGED daemonVars
  BY <1>5, Zenon DEF kernelVars, daemonVars
<1>6. Driver \/ Kick \/ Take => UNCHANGED kernelVars /\ UNCHANGED daemonVars
  BY Zenon DEF Driver, Kick, Take, submit, kick, poll_used
<1>7. Handler \/ FrontQemu \/ UNCHANGED vars => UNCHANGED kernelVars /\ UNCHANGED daemonVars
  BY Zenon DEF Handler, FrontQemu, isr_enter, isr_status, isr_ack, isr_drain,
         wait_for_notify_ack, notify_deadline, axi_control_read, vars
<1>8. Daemon => uio_read \/ uio_enable \/ (UNCHANGED kernelVars /\ dpc # "enable")
  BY Zenon DEF Daemon, scan_ack, scan_ack_clear, load_notify, scan_notify, store_idle,
         notify_queue, process_one, notify_done, refresh_read_registers,
         flush_pending_irq_level
<1>. QED
  BY <1>1, <1>2, <1>3, <1>4, <1>5, <1>6, <1>7, <1>8, Zenon DEF Next

\* The daemon never sleeps with its interrupt masked or an edge held back: for all
\* threads, queues and policies, and whether or not the frontend's waits time out.
THEOREM WakeableAlways == Spec => []WakeableWhenAsleep
<1>1. Init => WakeInv
  BY Zenon DEF Init, WakeInv
<1>2. WakeInv => WakeableWhenAsleep
  BY Zenon DEF WakeInv, WakeableWhenAsleep
<1>. QED
  BY WakeStep, <1>1, <1>2, PTL DEF Spec

-----------------------------------------------------------------------------
\* One queue, as of a block device, and a frontend that never holds a kick back.
Uncoalesced == (\A t \in Threads : QueueOf[t] = 0) /\ ~(Barrier /\ NotifyAck)

\* There is one queue number.
LEMMA OneQueue ==
  ASSUME Uncoalesced
  PROVE  /\ \A q \in Queues : q = 0
         /\ \A q \in Served : q = 0 /\ q \in Queues
BY QueueNumbers, Zenon DEF Uncoalesced, Queues

\* No register value is taken for another.
LEMMA Words ==
  /\ \A q \in Queues : /\ Word(q) # UIO_NOTIFY_IDLE /\ Word(q) # Unread
                       /\ Word(q).lo = q /\ Word(q).hi = 0 /\ q # 255 /\ q # -1
  /\ \A q \in Served : q \in Queues
  /\ Unread.lo = -1 /\ Unread.hi = -1
BY QueueNumbers DEF Word, UIO_NOTIFY_IDLE, Unread

\* A step outside window, kernel and daemon that withdraws no message and whose new
\* entries have their kick before them.
Elsewhere ==
  /\ notifyReg' = notifyReg /\ UNCHANGED kernelVars /\ UNCHANGED daemonVars
  /\ toBack > 0 => toBack' > 0
  /\ \A t \in Threads : pc[t] = "kick" => pc'[t] = "kick"
  /\ \A q \in Served : avail'[q] > 0 =>
       avail[q] > 0 \/ \E t \in Threads : pc'[t] = "kick" /\ QueueOf[t] = q

\* Such a step loses no kick.
LEMMA KickElsewhere ==
  ASSUME KickInv, Elsewhere
  PROVE  ValueInv' /\ LoadInv' /\ NoLostKick'
<1>1. WakeDue => WakeDue'
  BY Zenon DEF Elsewhere, WakeDue, kernelVars
<1>2. ValueInv'
  BY Zenon DEF KickInv, ValueInv, Elsewhere, daemonVars
<1>3. LoadInv'
  BY <1>1, Zenon DEF KickInv, LoadInv, Elsewhere, daemonVars
<1>4. ASSUME NEW q \in Served, KickOnItsWay(q) PROVE KickOnItsWay(q)'
  BY <1>1, <1>4, Zenon DEF KickOnItsWay, ScanDue, Elsewhere, daemonVars
<1>5. ASSUME NEW q \in Served, \E t \in Threads : pc'[t] = "kick" /\ QueueOf[t] = q
      PROVE  KickOnItsWay(q)'
  BY <1>5, Zenon DEF KickOnItsWay
<1>6. NoLostKick'
  BY <1>4, <1>5, Zenon DEF KickInv, NoLostKick, Elsewhere, daemonVars
<1>. QED
  BY <1>2, <1>3, <1>6, Zenon

\* The steps of the guest other than kicks, and of the frontend QEMU, are such steps.
LEMMA MostElsewhere ==
  ASSUME TypeInv, Driver \/ Take \/ Handler \/ FrontQemu
  PROVE  Elsewhere
<1>. USE DEF TypeInv, TypeOK
<1>0. MaxNotifies \in Nat /\ MaxRequests \in Nat /\ toBack \in 0 .. MaxNotifies
  BY ConstantsAssumption, Zenon DEF ConstantsAssumption, LinkType
<1>1. ASSUME NEW t \in Threads, submit(t) PROVE Elsewhere
  <2>1. \A u \in Threads : pc[u] = "kick" => pc'[u] = "kick"
    BY <1>1, Zenon DEF submit, GuestType
  <2>2. pc'[t] = "kick"
    BY <1>1, Zenon DEF submit, GuestType
  <2>3. \A q \in Served : q # QueueOf[t] => avail'[q] = avail[q]
    BY <1>1, QueueNumbers, Zenon DEF submit, GuestType
  <2>. QED
    BY <1>1, <2>1, <2>2, <2>3, Zenon DEF submit, Elsewhere, regVars, linkVars
<1>2. ASSUME NEW t \in Threads, poll_used(t) PROVE Elsewhere
  BY <1>2, Zenon DEF poll_used, Elsewhere, regVars, linkVars
<1>3. CASE isr_enter
  BY <1>3, Zenon DEF isr_enter, Elsewhere, regVars, linkVars
<1>4. CASE isr_status
  BY <1>0, <1>4 DEF isr_status, axi_uio_notify_backend, axi_control_send, Elsewhere, regVars
<1>5. CASE isr_ack
  BY <1>0, <1>5 DEF isr_ack, axi_uio_notify_backend, axi_control_send, Elsewhere
<1>6. CASE isr_drain
  BY <1>6, Zenon DEF isr_drain, Elsewhere, regVars, linkVars
<1>7. EndAccess /\ waiting # None => \A t \in Threads : pc[t] = "kick" => pc'[t] = "kick"
  BY Zenon DEF EndAccess, GuestType, FrontType
<1>8. CASE wait_for_notify_ack
  <2>1. \A t \in Threads : pc[t] = "kick" => pc'[t] = "kick"
    BY <1>7, <1>8, Zenon DEF wait_for_notify_ack
  <2>. QED
    BY <1>8, <2>1, Zenon DEF wait_for_notify_ack, Elsewhere, regVars
<1>9. CASE notify_deadline
  BY <1>7, <1>9, Zenon DEF notify_deadline, Elsewhere, regVars, linkVars
<1>10. CASE axi_control_read
  BY <1>10, Zenon DEF axi_control_read, Elsewhere, regVars, guestVars
<1>. QED
  BY <1>1, <1>2, <1>3, <1>4, <1>5, <1>6, <1>8, <1>9, <1>10, Zenon
  DEF Driver, Take, Handler, FrontQemu

\* A kick stores the queue's number and leaves a message: the next scan finds it.
LEMMA KickKick ==
  ASSUME Uncoalesced, KickInv, NEW t \in Threads, kick(t)
  PROVE  ValueInv' /\ LoadInv' /\ NoLostKick'
<1>1. UNCHANGED daemonVars /\ avail' = avail
  BY Zenon DEF kick
<1>2. toBack \in Nat
  BY ConstantsAssumption DEF ConstantsAssumption, KickInv, TypeInv, TypeOK, LinkType
<1>3. toBack' = toBack + 1
  BY Zenon DEF kick, axi_uio_notify_backend, axi_uio_notify_backend_async, axi_control_send,
         Uncoalesced
<1>4. WakeDue'
  BY <1>2, <1>3 DEF WakeDue
<1>5. notifyReg' = Word(0)
  BY Zenon DEF kick, Uncoalesced
<1>6. \A q \in Served : KickOnItsWay(q)'
  BY <1>4, <1>5, OneQueue, Zenon DEF KickOnItsWay, ScanDue
<1>. QED
  BY <1>1, <1>4, <1>6, Zenon DEF KickInv, ValueInv, LoadInv, NoLostKick, daemonVars

\* The way of a wake-up, from message to interrupt to scan, loses no kick.
LEMMA KickWake ==
  ASSUME KickInv, axi_notify_pulse \/ uio_read \/ uio_enable
  PROVE  ValueInv' /\ LoadInv' /\ NoLostKick'
<1>1. CASE axi_notify_pulse
  <2>1. WakeDue' /\ UNCHANGED daemonVars /\ notifyReg' = notifyReg /\ avail' = avail /\ pc' = pc
    BY <1>1, Zenon DEF axi_notify_pulse, chiplets_uio_irq, WakeDue, regVars, guestVars
  <2>2. \A q \in Served : KickOnItsWay(q) => KickOnItsWay(q)'
    BY <2>1, Zenon DEF KickOnItsWay, ScanDue, daemonVars
  <2>. QED
    BY <2>1, <2>2, Zenon DEF KickInv, ValueInv, LoadInv, NoLostKick, daemonVars
<1>2. CASE uio_read \/ uio_enable
  <2>1. /\ dpc \in {"read", "enable"} /\ dpc' \in {"enable", "ack"}
        /\ value' = value /\ torn' = torn
        /\ notifyReg' = notifyReg /\ avail' = avail /\ pc' = pc
    BY <1>2, Zenon DEF uio_read, uio_enable, regVars, guestVars
  <2>2. value' = Unread
    BY <2>1, Zenon DEF KickInv, ValueInv
  <2>3. \A q \in Served : KickOnItsWay(q) => KickOnItsWay(q)'
    BY <2>1, Zenon DEF KickOnItsWay, ScanDue
  <2>. QED
    BY <2>1, <2>2, <2>3, Zenon DEF KickInv, ValueInv, LoadInv, NoLostKick
<1>. QED
  BY <1>1, <1>2, Zenon

\* The scan: a load that finds the register idle was overtaken by a kick only if
\* the kick has left a wake-up.
LEMMA KickLoad ==
  ASSUME KickInv,
         \/ scan_ack \/ scan_ack_clear \/ (\E p \in Parts : load_notify(p))
         \/ scan_notify /\ value = UIO_NOTIFY_IDLE
  PROVE  ValueInv' /\ LoadInv' /\ NoLostKick'
<1>1. /\ notifyReg' = notifyReg /\ avail' = avail /\ pc' = pc
      /\ WakeDue' <=> WakeDue
  <2>1. /\ notifyReg' = notifyReg /\ UNCHANGED guestVars /\ UNCHANGED linkVars
        /\ UNCHANGED kernelVars
    BY Zenon DEF scan_ack, scan_ack_clear, load_notify, scan_notify, regVars
  <2>. QED
    BY <2>1, Zenon DEF guestVars, linkVars, kernelVars, WakeDue
<1>2. CASE scan_ack \/ scan_ack_clear
  <2>1. /\ dpc \in {"ack", "ackclear"} /\ dpc' \in {"ackclear", "load"}
        /\ value' = value /\ torn' = torn
    BY <1>2, Zenon DEF scan_ack, scan_ack_clear
  <2>2. value' = Unread
    BY <2>1, Zenon DEF KickInv, ValueInv
  <2>3. \A q \in Served : KickOnItsWay(q) => KickOnItsWay(q)'
    BY <1>1, <2>1, <2>2, Words, Zenon DEF KickOnItsWay, ScanDue, KickInv, ValueInv
  <2>. QED
    BY <1>1, <2>1, <2>2, <2>3, Words DEF KickInv, ValueInv, LoadInv, NoLostKick
<1>3. ASSUME NEW p \in Parts, load_notify(p) PROVE ValueInv' /\ LoadInv' /\ NoLostKick'
  <2>1. /\ dpc = "load" /\ dpc' = "load" /\ torn' = torn
        /\ value' = [value EXCEPT ![p] = notifyReg[p]]
    BY <1>3, Zenon DEF load_notify
  <2>2. value \in [lo : {-1, 0, 1, 255}, hi : {-1, 0, 255}]
    BY Zenon DEF KickInv, TypeInv, TypeOK, DaemonType
  <2>3. ASSUME NEW q \in Queues, notifyReg = Word(q), value'.lo = 255 \/ value'.hi = 255
        PROVE  value.lo = 255 \/ value.hi = 255
    <3>1. notifyReg.lo # 255 /\ notifyReg.hi # 255
      BY <2>3, Words
    <3>2. CASE p = "lo"
      BY <2>1, <2>2, <2>3, <3>1, <3>2, Zenon
    <3>3. CASE p = "hi"
      BY <2>1, <2>2, <2>3, <3>1, <3>3, Zenon
    <3>. QED
      BY <3>2, <3>3, Zenon DEF Parts
  <2>4. LoadInv'
    BY <1>1, <2>1, <2>3, Zenon DEF KickInv, LoadInv
  <2>5. \A q \in Served : KickOnItsWay(q) => KickOnItsWay(q)'
    BY <1>1, <2>1, Zenon DEF KickOnItsWay, ScanDue
  <2>. QED
    BY <1>1, <2>1, <2>4, <2>5, Zenon DEF KickInv, ValueInv, NoLostKick
<1>4. CASE scan_notify /\ value = UIO_NOTIFY_IDLE
  <2>1. dpc = "load" /\ dpc' = "refresh" /\ value' = Unread /\ (torn => torn')
    BY <1>4, Zenon DEF scan_notify
  <2>2. value.lo = 255
    BY <1>4, Zenon DEF UIO_NOTIFY_IDLE
  <2>3. \A q \in Served : KickOnItsWay(q) => KickOnItsWay(q)'
    BY <1>1, <2>1, <2>2, Words, Zenon DEF KickOnItsWay, ScanDue, KickInv, LoadInv
  <2>. QED
    BY <1>1, <2>1, <2>3, Zenon DEF KickInv, ValueInv, LoadInv, NoLostKick
<1>. QED
  BY <1>2, <1>3, <1>4, Zenon

\* The scan with one queue: a number it finds is the queue's.
LEMMA KickScan ==
  ASSUME Uncoalesced, KickInv,
         \/ scan_ack \/ scan_ack_clear \/ (\E p \in Parts : load_notify(p)) \/ scan_notify
  PROVE  ValueInv' /\ LoadInv' /\ NoLostKick'
<1>1. CASE scan_notify /\ value # UIO_NOTIFY_IDLE
  <2>1. dpc' = "store" /\ value' = value /\ (~torn' => \E q \in Queues : value = Word(q))
    BY <1>1, Zenon DEF scan_notify
  <2>2. ~torn' => \A q \in Served : KickOnItsWay(q)'
    BY <2>1, OneQueue, Zenon DEF KickOnItsWay
  <2>. QED
    BY <2>1, <2>2, Zenon DEF ValueInv, LoadInv, NoLostKick
<1>. QED
  BY <1>1, KickLoad, Zenon

\* The service: from the reset of the register to the end of the loop the daemon is
\* at work on the queue, and it ends the loop when the ring is empty.
LEMMA KickServe ==
  ASSUME Uncoalesced, KickInv, store_idle \/ notify_queue \/ process_one \/ notify_done
  PROVE  ValueInv' /\ LoadInv' /\ NoLostKick'
<1>0. dpc \in {"store", "store2", "notify", "loop"} /\ torn' = torn /\ dpc' # "load"
  BY Zenon DEF store_idle, notify_queue, process_one, notify_done
<1>1. ~torn => value = Word(0)
  BY <1>0, OneQueue, Zenon DEF KickInv, ValueInv
<1>2. LoadInv'
  BY <1>0, Zenon DEF LoadInv
<1>3. ASSUME value' = value, dpc' \in {"store2", "notify", "loop"}
      PROVE  ValueInv' /\ NoLostKick'
  <2>1. ValueInv'
    BY <1>0, <1>3, Zenon DEF KickInv, ValueInv
  <2>2. ~torn => \A q \in Served : KickOnItsWay(q)'
    BY <1>1, <1>3, OneQueue, Zenon DEF KickOnItsWay
  <2>. QED
    BY <1>0, <2>1, <2>2, Zenon DEF NoLostKick
<1>4. CASE store_idle
  BY <1>2, <1>3, <1>4, Zenon DEF store_idle
<1>5. CASE notify_queue /\ dpc' = "loop"
  <2>1. value' = value
    BY <1>5, Zenon DEF notify_queue
  <2>. QED
    BY <1>2, <1>3, <1>5, <2>1, Zenon
<1>6. CASE notify_queue /\ dpc' # "loop"
  <2>1. dpc' = "refresh" /\ value' = Unread /\ ~ \E q \in Served : value = Word(q)
    BY <1>6, Zenon DEF notify_queue
  <2>2. ~torn => Served = {}
    BY <1>1, <2>1, OneQueue, Zenon
  <2>. QED
    BY <1>0, <1>2, <2>1, <2>2, Zenon DEF ValueInv, NoLostKick
<1>7. CASE process_one
  BY <1>2, <1>3, <1>7, Zenon DEF process_one
<1>8. CASE notify_done
  <2>1. dpc' = "refresh" /\ value' = Unread /\ avail' = avail /\ avail[value.lo] = 0
    BY <1>8, Zenon DEF notify_done, RingEmpty, guestVars
  <2>2. ~torn => \A q \in Served : avail'[q] = 0
    BY <1>1, <2>1, OneQueue, Words
  <2>3. ValueInv'
    BY <2>1, Zenon DEF ValueInv
  <2>4. NoLostKick'
    BY <1>0, <2>2 DEF NoLostKick
  <2>. QED
    BY <1>2, <2>3, <2>4, Zenon
<1>. QED
  BY <1>4, <1>5, <1>6, <1>7, <1>8, Zenon

\* The end of the daemon's round touches neither kicks nor wake-ups.
LEMMA KickEnd ==
  ASSUME KickInv, refresh_read_registers \/ flush_pending_irq_level
  PROVE  ValueInv' /\ LoadInv' /\ NoLostKick'
<1>1. /\ dpc \in {"refresh", "flush"} /\ dpc' \in {"flush", "read"}
      /\ value' = value /\ torn' = torn
      /\ notifyReg' = notifyReg /\ avail' = avail /\ pc' = pc
      /\ WakeDue' <=> WakeDue
  BY DEF refresh_read_registers, flush_pending_irq_level, guestVars, regVars, linkVars,
         kernelVars, WakeDue
<1>2. value' = Unread
  BY <1>1, Zenon DEF KickInv, ValueInv
<1>3. \A q \in Served : KickOnItsWay(q) => KickOnItsWay(q)'
  BY <1>1, Zenon DEF KickOnItsWay, ScanDue
<1>. QED
  BY <1>1, <1>2, <1>3, Zenon DEF KickInv, ValueInv, LoadInv, NoLostKick

\* KickInv is inductive.
LEMMA KickStep ==
  ASSUME Uncoalesced, KickInv, [Next]_vars
  PROVE  KickInv'
<1>1. TypeInv'
  BY TypeGuest, TypeFront, TypeBack, TypeStutter, Zenon DEF KickInv, Next
<1>2. UNCHANGED vars => Elsewhere
  BY Zenon DEF vars, guestVars, regVars, linkVars, Elsewhere
<1>3. Driver \/ Take \/ Handler \/ FrontQemu \/ UNCHANGED vars =>
        ValueInv' /\ LoadInv' /\ NoLostKick'
  BY <1>2, MostElsewhere, KickElsewhere, Zenon DEF KickInv
<1>4. Kick => ValueInv' /\ LoadInv' /\ NoLostKick'
  BY KickKick, Zenon DEF Kick
<1>5. axi_notify_pulse \/ Daemon => ValueInv' /\ LoadInv' /\ NoLostKick'
  BY KickWake, KickScan, KickServe, KickEnd, Zenon DEF Daemon
<1>. QED
  BY <1>1, <1>3, <1>4, <1>5, Zenon DEF Next, KickInv

\* With one queue and no coalescing (notify-policy all, or notify-ack off) the inductive
\* invariant of the kicks holds, however long the daemon takes, whenever the frontend's
\* waits end and however many threads kick.
THEOREM KickInvAlways ==
  ASSUME Uncoalesced
  PROVE  Spec => []KickInv
<1>1. Init => ValueInv /\ LoadInv
  BY Zenon DEF Init, ValueInv, LoadInv
<1>2. Init => NoLostKick
  BY QueueNumbers DEF Init, NoLostKick
<1>3. Init => KickInv
  BY <1>1, <1>2, TypeInit, Zenon DEF KickInv
<1>4. KickInv /\ [Next]_vars => KickInv'
  BY KickStep, Zenon
<1>. QED
  BY <1>3, <1>4, PTL DEF Spec

\* Under the same conditions no kick is lost, except by a torn load of QUEUE_NOTIFY.
THEOREM NoLostKickAlways ==
  ASSUME Uncoalesced
  PROVE  Spec => []NoLostKick
<1>1. KickInv => NoLostKick
  BY Zenon DEF KickInv
<1>. QED
  BY <1>1, KickInvAlways, PTL

\* When nobody is doing anything, no kick is on its way.
LEMMA KickQuiet == KickInv => ServedWhenQuiet
<1>. SUFFICES ASSUME KickInv, Quiet, ~torn, NEW q \in Served PROVE avail[q] = 0
  BY Zenon DEF ServedWhenQuiet
<1>1. q \in Queues /\ avail[q] \in Nat
  BY QueueNumbers, ConstantsAssumption DEF ConstantsAssumption, KickInv, TypeInv, TypeOK, GuestType
<1>2. value = Unread /\ ~ScanDue
  BY DEF KickInv, ValueInv, Quiet, Settled, ScanDue, WakeDue
<1>3. ~KickOnItsWay(q)
  BY <1>1, <1>2, Words, Zenon DEF KickOnItsWay, Quiet
<1>4. ~(avail[q] > 0)
  BY <1>3, Zenon DEF KickInv, NoLostKick
<1>. QED
  BY <1>1, <1>4

\* Under the same conditions, when everything is quiet the daemon has served every kick.
THEOREM ServedWhenQuietAlways ==
  ASSUME Uncoalesced
  PROVE  Spec => []ServedWhenQuiet
BY KickQuiet, KickInvAlways, PTL

-----------------------------------------------------------------------------
(* The window and the line.                                                *)

\* The frontend's line will have the level of the device when its messages are read: the
\* last level among them is the device's, and if there is none the line has it.
Levels ==
  /\ \A i \in 1 .. Len(toFront) :
       toFront[i] # "ACK" /\ (\A j \in i + 1 .. Len(toFront) : toFront[j] = "ACK") =>
         (toFront[i] = "ASSERT" <=> interrupt_status)
  /\ (\A i \in 1 .. Len(toFront) : toFront[i] = "ACK") => line = interrupt_status

\* The level that the daemon has put off is the device's; when there is none, Levels.
LevelInv ==
  /\ pending_irq_level = "raise" => interrupt_status
  /\ pending_irq_level = "lower" => ~interrupt_status
  /\ pending_irq_level = "none" => Levels
  /\ dpc \in {"read", "enable", "ack", "flush"} => statusReg = interrupt_status
  /\ dpc \in {"read", "enable", "ack"} => pending_irq_level = "none"

\* The line is low, and the device has no interrupt pending.
LEMMA LevelInit == Init => LevelInv
<1>. SUFFICES ASSUME Init PROVE LevelInv
  BY Zenon
<1>1. Len(toFront) = 0 /\ line = interrupt_status
  BY Zenon DEF Init
<1>2. Levels
  BY <1>1 DEF Levels
<1>. QED
  BY <1>2, Zenon DEF Init, LevelInv

\* A step that leaves the device's interrupt alone and starts or ends no round.
LEMMA LevelFrame ==
  ASSUME LevelInv, UNCHANGED <<interrupt_status, pending_irq_level, toFront, line, statusReg>>,
         dpc' \in {"read", "enable", "ack"} => dpc \in {"read", "enable", "ack"},
         dpc' = "flush" => dpc = "flush"
  PROVE  LevelInv'
<1>1. Levels' <=> Levels
  BY Zenon DEF Levels
<1>. QED
  BY <1>1, Zenon DEF LevelInv

\* The frontend reads a message.
LEMMA LevelMessage ==
  ASSUME TypeInv, LevelInv, toFront # <<>>, toFront' = Tail(toFront),
         \/ Head(toFront) = "ACK" /\ line' = line
         \/ Head(toFront) # "ACK" /\ line' = (Head(toFront) = "ASSERT"),
         UNCHANGED <<interrupt_status, pending_irq_level, statusReg, dpc>>
  PROVE  LevelInv'
<1>. DEFINE n == Len(toFront)
<1>1. toFront \in Seq({"ASSERT", "DEASSERT", "ACK"}) /\ interrupt_status \in BOOLEAN
  BY Zenon DEF TypeInv, TypeOK, LinkType, DaemonType
<1>2. /\ n \in Nat /\ n > 0 /\ Len(toFront') = n - 1 /\ Head(toFront) = toFront[1]
      /\ \A i \in 1 .. n - 1 : toFront'[i] = toFront[i + 1]
  BY <1>1
<1>3. ASSUME Levels PROVE Levels'
  <2>1. ASSUME NEW i \in 1 .. n - 1, toFront'[i] # "ACK", \A j \in i + 1 .. n - 1 : toFront'[j] = "ACK"
        PROVE  toFront'[i] = "ASSERT" <=> interrupt_status
    <3>1. i + 1 \in 1 .. n /\ toFront[i + 1] # "ACK" /\ toFront'[i] = toFront[i + 1]
      BY <1>2, <2>1
    <3>2. ASSUME NEW j \in (i + 1) + 1 .. n PROVE toFront[j] = "ACK"
      <4>1. j - 1 \in i + 1 .. n - 1 /\ j - 1 \in 1 .. n - 1 /\ (j - 1) + 1 = j
        BY <1>2
      <4>. QED
        BY <1>2, <2>1, <4>1, Zenon
    <3>. QED
      BY <1>3, <3>1, <3>2, Zenon DEF Levels
  <2>2. ASSUME \A i \in 1 .. n - 1 : toFront'[i] = "ACK" PROVE line' = interrupt_status
    <3>1. ASSUME NEW j \in 2 .. n PROVE toFront[j] = "ACK"
      <4>1. j - 1 \in 1 .. n - 1 /\ (j - 1) + 1 = j
        BY <1>2
      <4>. QED
        BY <1>2, <2>2, <4>1, Zenon
    <3>2. CASE toFront[1] = "ACK"
      <4>1. \A i \in 1 .. n : toFront[i] = "ACK"
        <5>1. \A i \in 1 .. n : i = 1 \/ i \in 2 .. n
          BY <1>2
        <5>. QED
          BY <3>1, <3>2, <5>1, Zenon
      <4>. QED
        BY <1>2, <1>3, <3>2, <4>1, Zenon DEF Levels
    <3>3. CASE toFront[1] # "ACK"
      <4>1. 1 \in 1 .. n /\ 1 + 1 = 2
        BY <1>2
      <4>2. toFront[1] = "ASSERT" <=> interrupt_status
        BY <1>3, <3>1, <3>3, <4>1, Zenon DEF Levels
      <4>. QED
        BY <1>1, <1>2, <3>3, <4>2, Zenon
    <3>. QED
      BY <3>2, <3>3, Zenon
  <2>. QED
    BY <1>2, <2>1, <2>2, Zenon DEF Levels
<1>. QED
  BY <1>3, Zenon DEF LevelInv

\* The daemon ends its round, with a level for the line or without.
LEMMA LevelFlush ==
  ASSUME TypeInv, LevelInv, flush_pending_irq_level
  PROVE  LevelInv'
<1>. DEFINE n == Len(toFront)
<1>1. /\ toFront \in Seq({"ASSERT", "DEASSERT", "ACK"})
      /\ pending_irq_level \in {"none", "lower", "raise"}
  BY Zenon DEF TypeInv, TypeOK, LinkType, DaemonType
<1>2. /\ dpc = "flush" /\ dpc' = "read" /\ pending_irq_level' = "none"
      /\ UNCHANGED <<interrupt_status, line, statusReg>>
      /\ IF pending_irq_level = "none" THEN toFront' = toFront ELSE toFront' = toFront \o IrqMessages
  BY Zenon DEF flush_pending_irq_level, frontVars, regVars
<1>3. Levels'
  <2>1. CASE pending_irq_level = "none"
    BY <1>2, <2>1, Zenon DEF LevelInv, Levels
  <2>2. CASE pending_irq_level # "none"
    <3>. DEFINE m == IF pending_irq_level = "raise" THEN "ASSERT" ELSE "DEASSERT"
    <3>1. toFront' = toFront \o <<m, "ACK">> /\ m # "ACK" /\ (m = "ASSERT" <=> pending_irq_level = "raise")
      BY <1>2, <2>2, Zenon DEF IrqMessages
    <3>. HIDE DEF m
    <3>2. /\ n \in Nat /\ Len(toFront') = n + 2 /\ toFront'[n + 1] = m /\ toFront'[n + 2] = "ACK"
      BY <1>1, <3>1
    <3>3. m = "ASSERT" <=> interrupt_status
      BY <1>1, <2>2, <3>1, Zenon DEF LevelInv
    <3>4. ASSUME NEW i \in 1 .. n + 2, toFront'[i] # "ACK",
                 \A j \in i + 1 .. n + 2 : toFront'[j] = "ACK"
          PROVE  i = n + 1
      <4>1. i # n + 2
        BY <3>2, <3>4, Zenon
      <4>2. ~(n + 1 \in i + 1 .. n + 2)
        BY <3>1, <3>2, <3>4, Zenon
      <4>. QED
        BY <3>2, <4>1, <4>2
    <3>5. n + 1 \in 1 .. n + 2
      BY <3>2
    <3>. QED
      BY <1>2, <3>1, <3>2, <3>3, <3>4, <3>5, Zenon DEF Levels
  <2>. QED
    BY <2>1, <2>2, Zenon
<1>. QED
  BY <1>2, <1>3, Zenon DEF LevelInv

\* LevelInv is inductive.
LEMMA LevelStep ==
  ASSUME TypeInv, LevelInv, [Next]_vars
  PROVE  LevelInv'
<1>1. CASE Driver \/ Kick \/ Take \/ Handler \/ notify_deadline \/ axi_notify_pulse \/ UNCHANGED vars
  <2>1. UNCHANGED <<interrupt_status, pending_irq_level, toFront, line, statusReg, dpc>>
    BY <1>1, Zenon DEF Driver, submit, Kick, kick, Take, poll_used, Handler, isr_enter, isr_status, isr_ack,
       isr_drain, notify_deadline, axi_notify_pulse, vars, frontVars, regVars, linkVars, daemonVars
  <2>. QED
    BY <2>1, LevelFrame, Zenon
<1>2. CASE wait_for_notify_ack \/ axi_control_read
  <2>1. /\ toFront # <<>> /\ toFront' = Tail(toFront)
        /\ \/ Head(toFront) = "ACK" /\ line' = line
           \/ Head(toFront) # "ACK" /\ line' = (Head(toFront) = "ASSERT")
        /\ UNCHANGED <<interrupt_status, pending_irq_level, statusReg, dpc>>
    BY <1>2, Zenon DEF wait_for_notify_ack, axi_control_read, qemu_set_irq, regVars, daemonVars
  <2>. QED
    BY <2>1, LevelMessage, Zenon
<1>3. CASE uio_read \/ uio_enable \/ scan_ack_clear \/ (\E p \in Parts : load_notify(p)) \/ scan_notify
           \/ store_idle \/ process_one
  <2>1. UNCHANGED <<interrupt_status, pending_irq_level, toFront, line, statusReg>>
    BY <1>3, Zenon DEF uio_read, uio_enable, scan_ack_clear, load_notify, scan_notify, store_idle, process_one,
       frontVars, regVars, linkVars
  <2>2. /\ dpc' \in {"read", "enable", "ack"} => dpc \in {"read", "enable", "ack"}
        /\ dpc' = "flush" => dpc = "flush"
    BY <1>3, Zenon DEF uio_read, uio_enable, scan_ack_clear, load_notify, scan_notify, store_idle, process_one
  <2>. QED
    BY <2>1, <2>2, LevelFrame, Zenon
<1>4. CASE scan_ack
  <2>1. CASE ackReg
    BY <1>4, <2>1, Zenon DEF scan_ack, LevelInv
  <2>2. CASE ~ackReg
    <3>1. UNCHANGED <<interrupt_status, pending_irq_level, toFront, line, statusReg>> /\ dpc' = "load"
      BY <1>4, <2>2, Zenon DEF scan_ack, frontVars, regVars, linkVars
    <3>. QED
      BY <3>1, LevelFrame, Zenon
  <2>. QED
    BY <2>1, <2>2, Zenon
<1>5. CASE notify_queue
  <2>1. CASE pending_irq_level' = pending_irq_level
    <3>1. UNCHANGED <<interrupt_status, pending_irq_level, toFront, line, statusReg>> /\ dpc' \in {"loop", "refresh"}
      BY <1>5, <2>1, Zenon DEF notify_queue, frontVars, regVars, linkVars
    <3>. QED
      BY <3>1, LevelFrame, Zenon
  <2>2. CASE pending_irq_level' # pending_irq_level
    BY <1>5, <2>2, Zenon DEF notify_queue, ack_notify, LevelInv
  <2>. QED
    BY <2>1, <2>2, Zenon
<1>6. CASE notify_done
  BY <1>6, Zenon DEF notify_done, ack_notify, LevelInv
<1>7. CASE refresh_read_registers
  <2>1. /\ dpc' = "flush" /\ statusReg' = interrupt_status
        /\ UNCHANGED <<interrupt_status, pending_irq_level, toFront, line>>
    BY <1>7, Zenon DEF refresh_read_registers, PublishStatus, frontVars, linkVars
  <2>2. Levels' <=> Levels
    BY <2>1, Zenon DEF Levels
  <2>. QED
    BY <2>1, <2>2, Zenon DEF LevelInv
<1>. QED
  BY <1>1, <1>2, <1>3, <1>4, <1>5, <1>6, <1>7, LevelFlush, Zenon DEF Next, FrontQemu, Daemon

\* Under any policy, with any timeouts: whenever the daemon is back in read, the window's
\* INTERRUPT_STATUS is the device's, and so is the line once the messages are read.
THEOREM WindowConsistentAlways == Spec => []WindowConsistent
<1>1. Init => TypeInv
  BY TypeInit, Zenon
<1>2. Init => LevelInv
  BY LevelInit, Zenon
<1>3. TypeInv /\ [Next]_vars => TypeInv'
  BY TypeGuest, TypeFront, TypeBack, TypeStutter, Zenon DEF Next
<1>4. TypeInv /\ LevelInv /\ [Next]_vars => LevelInv'
  BY LevelStep, Zenon
<1>5. LevelInv => WindowConsistent
  <2>. SUFFICES ASSUME LevelInv, dpc = "read" 
                PROVE  statusReg = interrupt_status /\ (toFront = <<>> => line = interrupt_status)
    BY Zenon DEF WindowConsistent
  <2>1. statusReg = interrupt_status /\ Levels
    BY Zenon DEF LevelInv
  <2>2. toFront = <<>> => \A i \in 1 .. Len(toFront) : toFront[i] = "ACK"
    OBVIOUS
  <2>. QED
    BY <2>1, <2>2, Zenon DEF Levels
<1>. QED
  BY <1>1, <1>2, <1>3, <1>4, <1>5, PTL DEF Spec

-----------------------------------------------------------------------------
(* The synchronous frontend: any queues, any threads.                      *)

\* notify-policy all, and a deadline that outlasts the daemon's round.
Synchronous == Prompt /\ ~Barrier

\* One message is under way between frontend and daemon, and only during an access.
TokenInv ==
  /\ ~irqPending /\ toBack \in {0, 1}
  /\ toBack = 1 => ~uioEvent /\ dpc = "read" /\ toFront = <<>>
  /\ uioEvent => dpc = "read" /\ toFront = <<>>
  /\ dpc # "read" => toFront = <<>>
  /\ irqEnabled <=> ~uioEvent /\ dpc # "enable"
  /\ toFront \in {<<>>, <<"ACK">>, <<"ASSERT", "ACK">>, <<"DEASSERT", "ACK">>}
  /\ waiting = None => Settled

\* INTERRUPT_ACK is set only for the scan that its access waits for.
AckInv ==
  /\ ackReg => /\ waiting = Isr /\ isr = "ackwait" /\ isrStatus
               /\ toBack = 1 \/ uioEvent \/ dpc \in {"enable", "ack", "ackclear"}
  /\ dpc = "ackclear" => waiting = Isr /\ ~interrupt_status

\* QUEUE_NOTIFY is set only for the scan that the kick waits for, which loads one value.
NotifyInv ==
  /\ notifyReg # UIO_NOTIFY_IDLE =>
       /\ waiting \in Threads
       /\ toBack = 1 \/ uioEvent \/ dpc \in {"enable", "ack", "ackclear", "load", "store", "store2"}
  /\ dpc # "store2" => notifyReg \in {UIO_NOTIFY_IDLE} \cup {Word(q) : q \in Queues}
  /\ dpc = "store2" => notifyReg.lo = 255
  /\ dpc = "load" => \A p \in Parts : value[p] \in {Unread[p], notifyReg[p]}
  /\ dpc \in {"store", "store2", "notify", "loop"} => waiting \in Threads
  /\ ~torn

\* A round has at most one reason to change the line.
ReasonInv ==
  pending_irq_level # "none" =>
    dpc \in {"refresh", "flush"} \/ (dpc \in {"ackclear", "load"} /\ waiting = Isr)

\* The handler will see an interrupt that is asserted.
HandlerInv ==
  interrupt_status /\ line =>
    \/ irq \/ isr \in {"status", "statuswait"}
    \/ isr = "ack" /\ isrStatus
    \/ isr = "ackwait" /\ ackReg

\* A completion is followed by an interrupt or is about to be taken.
TakeInv ==
  \A q \in Served \ Polled : used[q] > 0 =>
    \/ dpc = "loop" /\ used_any
    \/ interrupt_status
    \/ isr = "drain"
    \/ isr = "ackwait" /\ isrStatus

RoundInv == TokenInv /\ AckInv /\ NotifyInv /\ ReasonInv

SyncInv == KickInv /\ LevelInv /\ RoundInv /\ HandlerInv /\ TakeInv

\* The constants of the synchronous frontend.
LEMMA SyncConstants ==
  ASSUME Synchronous
  PROVE  Prompt /\ NotifyAck /\ ~Barrier /\ None \notin Threads /\ None # Isr /\ Isr \notin Threads
BY ConstantsAssumption, Zenon DEF ConstantsAssumption, Synchronous

\* Between accesses nothing is under way.
LEMMA Still ==
  ASSUME KickInv, LevelInv, RoundInv, waiting = None
  PROVE  /\ toBack = 0 /\ toFront = <<>> /\ ~uioEvent /\ ~irqPending /\ irqEnabled /\ dpc = "read"
         /\ notifyReg = UIO_NOTIFY_IDLE /\ ~ackReg /\ pending_irq_level = "none" /\ value = Unread
         /\ line = interrupt_status
<1>0. None \notin Threads /\ None # Isr
  BY ConstantsAssumption, Zenon DEF ConstantsAssumption
<1>1. toBack = 0 /\ toFront = <<>> /\ ~uioEvent /\ ~irqPending /\ irqEnabled /\ dpc = "read"
  BY Zenon DEF RoundInv, TokenInv, Settled
<1>2. notifyReg = UIO_NOTIFY_IDLE /\ ~ackReg
  BY <1>0, Zenon DEF RoundInv, NotifyInv, AckInv
<1>3. pending_irq_level = "none" /\ value = Unread
  BY <1>1, Zenon DEF LevelInv, KickInv, ValueInv
<1>4. Levels
  BY <1>3, Zenon DEF LevelInv
<1>5. \A i \in 1 .. Len(toFront) : toFront[i] = "ACK"
  BY <1>1
<1>. QED
  BY <1>1, <1>2, <1>3, <1>4, <1>5, Zenon DEF Levels

\* Before the driver does anything.
LEMMA SyncInit == Init => RoundInv /\ HandlerInv /\ TakeInv
<1>. SUFFICES ASSUME Init PROVE RoundInv /\ HandlerInv /\ TakeInv
  BY Zenon
<1>1. TokenInv /\ AckInv /\ ReasonInv /\ HandlerInv
  BY Zenon DEF Init, TokenInv, AckInv, ReasonInv, HandlerInv, Settled
<1>2. NotifyInv
  BY Zenon DEF Init, NotifyInv
<1>3. TakeInv
  BY QueueNumbers DEF Init, TakeInv
<1>. QED
  BY <1>1, <1>2, <1>3, Zenon DEF RoundInv

\* A step that leaves window, messages, kernel, daemon and accesses alone.
LEMMA RoundFrame ==
  ASSUME RoundInv,
         UNCHANGED <<toBack, toFront, irqEnabled, irqPending, uioEvent, dpc, waiting, ackReg, notifyReg,
                     value, pending_irq_level, torn, interrupt_status>>,
         ackReg => isr' = isr /\ isrStatus' = isrStatus
  PROVE  RoundInv'
<1>1. TokenInv'
  BY Zenon DEF RoundInv, TokenInv, Settled
<1>2. AckInv' /\ ReasonInv'
  BY Zenon DEF RoundInv, AckInv, ReasonInv
<1>3. NotifyInv'
  BY ZenonT(40) DEF RoundInv, NotifyInv
<1>. QED
  BY <1>1, <1>2, <1>3, Zenon DEF RoundInv

\* The guest's steps that are no accesses.
LEMMA SyncGuest ==
  ASSUME SyncInv, Driver \/ Take \/ isr_enter \/ isr_drain \/ UNCHANGED vars
  PROVE  RoundInv' /\ HandlerInv' /\ TakeInv'
<1>1. UNCHANGED <<toBack, toFront, irqEnabled, irqPending, uioEvent, dpc, waiting, ackReg, notifyReg,
                  value, pending_irq_level, torn, interrupt_status, used_any, line>>
  BY Zenon DEF Driver, submit, Take, poll_used, isr_enter, isr_drain, vars, frontVars, regVars, linkVars, kernelVars,
     daemonVars
<1>2. CASE isr_enter
  <2>1. irq /\ isr = "idle" /\ isr' = "status" /\ UNCHANGED <<isrStatus, used>>
    BY <1>2, Zenon DEF isr_enter
  <2>2. ~ackReg
    BY <2>1, Zenon DEF SyncInv, RoundInv, AckInv
  <2>3. RoundInv'
    BY <1>1, <2>2, RoundFrame, Zenon DEF SyncInv
  <2>4. HandlerInv' /\ TakeInv'
    BY <1>1, <2>1, Zenon DEF SyncInv, HandlerInv, TakeInv
  <2>. QED
    BY <2>3, <2>4, Zenon
<1>3. CASE isr_drain
  <2>1. /\ isr = "drain" /\ isr' = "idle" /\ irq' = irq
        /\ used' = [q \in Queues |-> IF q \in Polled THEN used[q] ELSE 0]
    BY <1>3, Zenon DEF isr_drain, frontVars
  <2>2. ~ackReg
    BY <2>1, Zenon DEF SyncInv, RoundInv, AckInv
  <2>3. RoundInv'
    BY <1>1, <2>2, RoundFrame, Zenon DEF SyncInv
  <2>4. HandlerInv'
    BY <1>1, <2>1, Zenon DEF SyncInv, HandlerInv
  <2>5. TakeInv'
    BY <2>1, QueueNumbers DEF TakeInv
  <2>. QED
    BY <2>3, <2>4, <2>5, Zenon
<1>4. CASE Driver \/ Take \/ UNCHANGED vars
  <2>1. UNCHANGED <<isr, isrStatus, irq>>
    BY <1>4, Zenon DEF Driver, submit, Take, poll_used, vars, guestVars, frontVars
  <2>2. \A q \in Served \ Polled : used'[q] > 0 => used[q] > 0
    BY <1>4, QueueNumbers, Zenon DEF Driver, submit, Take, poll_used, vars, guestVars, SyncInv, KickInv, TypeInv, TypeOK,
       GuestType
  <2>3. RoundInv'
    BY <1>1, <2>1, RoundFrame, Zenon DEF SyncInv
  <2>4. HandlerInv'
    BY <1>1, <2>1, Zenon DEF SyncInv, HandlerInv
  <2>5. TakeInv'
    BY <1>1, <2>1, <2>2, Zenon DEF SyncInv, TakeInv
  <2>. QED
    BY <2>3, <2>4, <2>5, Zenon
<1>. QED
  BY <1>2, <1>3, <1>4, Zenon

\* The start of an access: nothing is under way, and its message is sent.
LEMMA SyncAccess ==
  ASSUME Synchronous, SyncInv, Kick \/ isr_status \/ isr_ack
  PROVE  RoundInv' /\ HandlerInv' /\ TakeInv'
<1>0. ~Barrier /\ None \notin Threads /\ None # Isr /\ Isr \notin Threads
  BY SyncConstants, Zenon
<1>1. waiting = None /\ waiting' # None
  BY <1>0, Zenon DEF Kick, kick, isr_status, isr_ack, axi_uio_notify_backend
<1>2. /\ toBack = 0 /\ toFront = <<>> /\ ~uioEvent /\ ~irqPending /\ irqEnabled /\ dpc = "read"
      /\ notifyReg = UIO_NOTIFY_IDLE /\ ~ackReg /\ pending_irq_level = "none" /\ value = Unread
  BY <1>1, Still, Zenon DEF SyncInv
<1>3. /\ toBack' = 1
      /\ UNCHANGED <<toFront, irqEnabled, irqPending, uioEvent, dpc, value, pending_irq_level, torn,
                     interrupt_status, used_any, used, irq, line>>
  <2>1. toBack' = toBack + 1
    BY <1>0, Zenon DEF Kick, kick, isr_status, isr_ack, axi_uio_notify_backend, axi_control_send
  <2>2. UNCHANGED <<toFront, used, irq, line, kernelVars, daemonVars>>
    BY Zenon DEF Kick, kick, isr_status, isr_ack
  <2>. QED
    BY <1>2, <2>1, <2>2 DEF kernelVars, daemonVars
<1>4. TokenInv' /\ ReasonInv'
  BY <1>1, <1>2, <1>3, Zenon DEF TokenInv, ReasonInv
<1>5. ~torn
  BY Zenon DEF SyncInv, RoundInv, NotifyInv
<1>6. CASE Kick
  <2>1. PICK t \in Threads : kick(t)
    BY <1>6, Zenon DEF Kick
  <2>2. notifyReg' = Word(QueueOf[t]) /\ waiting' = t /\ UNCHANGED <<isr, isrStatus, ackReg>>
    BY <1>0, <2>1, Zenon DEF kick, axi_uio_notify_backend
  <2>3. QueueOf[t] \in Queues
    BY QueueNumbers, Zenon
  <2>4. NotifyInv'
    BY <1>2, <1>3, <1>5, <2>2, <2>3, Zenon DEF NotifyInv
  <2>5. AckInv'
    BY <1>2, <1>3, <2>2, Zenon DEF AckInv
  <2>6. HandlerInv' /\ TakeInv'
    BY <1>3, <2>2, Zenon DEF SyncInv, HandlerInv, TakeInv
  <2>. QED
    BY <1>4, <2>4, <2>5, <2>6, Zenon DEF RoundInv
<1>7. CASE isr_status
  <2>1. isr = "status" /\ isr' = "statuswait" /\ UNCHANGED <<isrStatus, notifyReg, ackReg>>
    BY <1>0, <1>7, Zenon DEF isr_status, regVars
  <2>2. NotifyInv' /\ AckInv'
    BY <1>2, <1>3, <1>5, <2>1, Zenon DEF NotifyInv, AckInv
  <2>3. HandlerInv' /\ TakeInv'
    BY <1>3, <2>1, Zenon DEF SyncInv, HandlerInv, TakeInv
  <2>. QED
    BY <1>4, <2>2, <2>3, Zenon DEF RoundInv
<1>8. CASE isr_ack
  <2>1. isr = "ack" /\ isr' = "ackwait" /\ UNCHANGED <<isrStatus, notifyReg>> /\ ackReg' = isrStatus
        /\ waiting' = Isr
    BY <1>8, Zenon DEF isr_ack, axi_uio_notify_backend
  <2>2. NotifyInv' /\ AckInv'
    BY <1>2, <1>3, <1>5, <2>1, Zenon DEF NotifyInv, AckInv
  <2>3. HandlerInv' /\ TakeInv'
    BY <1>3, <2>1, Zenon DEF SyncInv, HandlerInv, TakeInv
  <2>. QED
    BY <1>4, <2>2, <2>3, Zenon DEF RoundInv
<1>. QED
  BY <1>6, <1>7, <1>8, Zenon

\* The end of an access: the daemon is back in read and its messages are read.
LEMMA SyncEnd ==
  ASSUME SyncInv, waiting # None, EndAccess, toBack = 0, ~uioEvent, ~irqPending, dpc = "read",
         toFront' = <<>>, toFront \in {<<>>, <<"ACK">>},
         UNCHANGED <<used, regVars, toBack, kernelVars, daemonVars, line, irq>>
  PROVE  RoundInv' /\ HandlerInv' /\ TakeInv'
<1>0. None \notin Threads /\ None # Isr
  BY ConstantsAssumption, Zenon DEF ConstantsAssumption
<1>1. /\ UNCHANGED <<notifyReg, statusReg, ackReg, irqEnabled, irqPending, uioEvent, dpc, value, used_any,
                     interrupt_status, pending_irq_level, torn>>
      /\ waiting' = None
  BY Zenon DEF regVars, kernelVars, daemonVars, EndAccess
<1>2. notifyReg = UIO_NOTIFY_IDLE /\ ~ackReg /\ pending_irq_level = "none" /\ ~torn /\ irqEnabled
  BY DEF SyncInv, RoundInv, NotifyInv, AckInv, LevelInv, TokenInv
<1>3. RoundInv'
  <2>1. TokenInv'
    BY <1>1, <1>2, Zenon DEF TokenInv, Settled
  <2>2. AckInv' /\ ReasonInv'
    BY <1>1, <1>2, Zenon DEF AckInv, ReasonInv
  <2>3. NotifyInv'
    BY <1>1, <1>2, Zenon DEF NotifyInv
  <2>. QED
    BY <2>1, <2>2, <2>3, Zenon DEF RoundInv
<1>4. statusReg = interrupt_status
  BY Zenon DEF SyncInv, LevelInv
<1>5. CASE waiting # Isr
  <2>1. UNCHANGED <<isr, isrStatus>>
    BY <1>5, Zenon DEF EndAccess
  <2>. QED
    BY <1>1, <1>3, <2>1, Zenon DEF SyncInv, HandlerInv, TakeInv
<1>6. CASE waiting = Isr /\ isr = "statuswait"
  <2>1. isr' = "ack" /\ isrStatus' = interrupt_status
    BY <1>4, <1>6, Zenon DEF EndAccess
  <2>. QED
    BY <1>1, <1>3, <1>6, <2>1, Zenon DEF SyncInv, HandlerInv, TakeInv
<1>7. CASE waiting = Isr /\ isr = "ackwait"
  <2>1. isr' = (IF isrStatus THEN "drain" ELSE "idle") /\ isrStatus' = isrStatus
    BY <1>7, Zenon DEF EndAccess
  <2>2. HandlerInv'
    BY <1>1, <1>2, <1>7, Zenon DEF SyncInv, HandlerInv
  <2>3. TakeInv'
    BY <1>1, <1>7, <2>1, Zenon DEF SyncInv, TakeInv
  <2>. QED
    BY <1>3, <2>2, <2>3, Zenon
<1>. QED
  BY <1>5, <1>6, <1>7, Zenon DEF SyncInv, KickInv, TypeInv

\* The frontend QEMU reads a message, or its wait ends.
LEMMA SyncFront ==
  ASSUME Synchronous, SyncInv, FrontQemu
  PROVE  RoundInv' /\ HandlerInv' /\ TakeInv'
<1>1. CASE axi_control_read
  <2>1. waiting = None /\ toFront # <<>>
    BY <1>1, Zenon DEF axi_control_read
  <2>. QED
    BY <2>1, Still, Zenon DEF SyncInv
<1>2. CASE notify_deadline
  <2>1. Settled /\ waiting # None /\ EndAccess
    BY <1>2, SyncConstants, Zenon DEF notify_deadline
  <2>2. UNCHANGED <<used, regVars, toBack, kernelVars, daemonVars, line, irq, toFront>>
    BY <1>2, Zenon DEF notify_deadline, linkVars
  <2>. QED
    BY <2>1, <2>2, SyncEnd, Zenon DEF Settled
<1>3. CASE wait_for_notify_ack
  <2>1. /\ waiting # None /\ toFront # <<>> /\ toFront' = Tail(toFront)
        /\ UNCHANGED <<used, regVars, toBack, kernelVars, daemonVars>>
    BY <1>3, Zenon DEF wait_for_notify_ack
  <2>2. toBack = 0 /\ ~uioEvent /\ ~irqPending /\ dpc = "read" /\ irqEnabled /\ ~torn
        /\ pending_irq_level = "none"
    BY <2>1, Zenon DEF SyncInv, RoundInv, TokenInv, NotifyInv, LevelInv
  <2>3. CASE toFront = <<"ACK">>
    <3>1. Head(toFront) = "ACK" /\ Tail(toFront) = <<>>
      BY <2>3
    <3>2. EndAccess /\ UNCHANGED <<line, irq>>
      BY <1>3, <3>1, Zenon DEF wait_for_notify_ack
    <3>. QED
      BY <2>1, <2>2, <2>3, <3>1, <3>2, SyncEnd, Zenon
  <2>4. CASE toFront \in {<<"ASSERT", "ACK">>, <<"DEASSERT", "ACK">>}
    <3>1. /\ Head(toFront) # "ACK" /\ Tail(toFront) = <<"ACK">>
          /\ Head(toFront) = toFront[1] /\ Len(toFront) = 2 /\ toFront[2] = "ACK"
      <4>1. CASE toFront = <<"ASSERT", "ACK">>
        BY <4>1
      <4>2. CASE toFront = <<"DEASSERT", "ACK">>
        BY <4>2
      <4>. QED
        BY <2>4, <4>1, <4>2, Zenon
    <3>2. /\ line' = (Head(toFront) = "ASSERT") /\ irq' = (irq \/ (Head(toFront) = "ASSERT" /\ ~line))
          /\ UNCHANGED <<waiting, isr, isrStatus>>
      BY <1>3, <3>1, Zenon DEF wait_for_notify_ack, qemu_set_irq
    <3>3. UNCHANGED <<notifyReg, ackReg, irqEnabled, irqPending, uioEvent, dpc, value, used_any,
                      interrupt_status, pending_irq_level, torn>>
      BY <2>1, Zenon DEF regVars, kernelVars, daemonVars
    <3>4. RoundInv'
      <4>1. TokenInv'
        <5>1. waiting' # None /\ toFront' = <<"ACK">>
          BY <2>1, <3>1, <3>2, Zenon
        <5>2. ~irqPending' /\ toBack' = 0 /\ ~uioEvent' /\ dpc' = "read" /\ irqEnabled'
          BY <2>1, <2>2, <3>3, Zenon
        <5>. QED
          BY <5>1, <5>2 DEF TokenInv
      <4>2. AckInv' /\ ReasonInv'
        BY <2>1, <3>2, <3>3, Zenon DEF SyncInv, RoundInv, AckInv, ReasonInv
      <4>3. NotifyInv'
        BY <2>1, <3>2, <3>3, ZenonT(40) DEF SyncInv, RoundInv, NotifyInv
      <4>. QED
        BY <4>1, <4>2, <4>3, Zenon DEF RoundInv
    <3>5. HandlerInv'
      BY <3>2, <3>3, Zenon DEF SyncInv, HandlerInv
    <3>6. TakeInv'
      BY <2>1, <3>2, <3>3, Zenon DEF SyncInv, TakeInv
    <3>. QED
      BY <3>4, <3>5, <3>6, Zenon
  <2>. QED
    BY <2>1, <2>3, <2>4, Zenon DEF SyncInv, RoundInv, TokenInv
<1>. QED
  BY <1>1, <1>2, <1>3, Zenon DEF FrontQemu

-----------------------------------------------------------------------------
\* The message becomes a wake-up, and the wake-up a scan.
LEMMA SyncWake ==
  ASSUME SyncInv, axi_notify_pulse \/ uio_read \/ uio_enable
  PROVE  RoundInv' /\ HandlerInv' /\ TakeInv'
<1>1. /\ UNCHANGED <<guestVars, frontVars, regVars, toFront, value, used_any, interrupt_status, pending_irq_level,
                     torn>>
      /\ dpc \in {"read", "enable"}
  BY DEF axi_notify_pulse, uio_read, uio_enable, daemonVars, linkVars, SyncInv, RoundInv, TokenInv
<1>2. TokenInv
  BY Zenon DEF SyncInv, RoundInv
<1>3. /\ TokenInv'
      /\ dpc' = "ack" \/ (dpc' = "enable" /\ dpc = "read") \/ (dpc' = "read" /\ uioEvent')
  <2>1. CASE axi_notify_pulse
    <3>1. toBack = 1 /\ ~uioEvent /\ dpc = "read" /\ irqEnabled /\ ~irqPending /\ waiting # None /\ toFront = <<>>
      BY <1>2, <2>1 DEF axi_notify_pulse, TokenInv, Settled
    <3>2. toBack' = 0 /\ uioEvent' /\ ~irqEnabled' /\ ~irqPending' /\ dpc' = "read" /\ waiting' # None
          /\ toFront' = <<>>
      BY <1>1, <2>1, <3>1 DEF axi_notify_pulse, chiplets_uio_irq, daemonVars, frontVars
    <3>. QED
      BY <3>2 DEF TokenInv
  <2>2. CASE uio_read
    <3>1. toBack = 0 /\ uioEvent /\ dpc = "read" /\ ~irqEnabled /\ ~irqPending /\ waiting # None /\ toFront = <<>>
      BY <1>2, <2>2, Zenon DEF uio_read, TokenInv, Settled
    <3>2. toBack' = 0 /\ ~uioEvent' /\ ~irqEnabled' /\ ~irqPending' /\ dpc' = "enable" /\ waiting' # None
          /\ toFront' = <<>>
      BY <1>1, <2>2, <3>1, Zenon DEF uio_read, frontVars, linkVars
    <3>. QED
      BY <3>1, <3>2 DEF TokenInv
  <2>3. CASE uio_enable
    <3>1. toBack = 0 /\ ~uioEvent /\ dpc = "enable" /\ ~irqPending /\ waiting # None /\ toFront = <<>>
      BY <1>2, <2>3, Zenon DEF uio_enable, TokenInv, Settled
    <3>2. toBack' = 0 /\ ~uioEvent' /\ irqEnabled' /\ ~irqPending' /\ dpc' = "ack" /\ waiting' # None
          /\ toFront' = <<>>
      BY <1>1, <2>3, <3>1, Zenon DEF uio_enable, irqcontrol, frontVars, linkVars
    <3>. QED
      BY <3>2 DEF TokenInv
  <2>. QED
    BY <2>1, <2>2, <2>3, Zenon
<1>4. AckInv' /\ ReasonInv'
  BY <1>1, <1>3, Zenon DEF SyncInv, RoundInv, AckInv, ReasonInv, guestVars, frontVars, regVars
<1>5. NotifyInv'
  BY <1>1, <1>3 DEF SyncInv, RoundInv, NotifyInv, frontVars, regVars
<1>6. HandlerInv'
  BY <1>1, Zenon DEF SyncInv, HandlerInv, guestVars, frontVars, regVars
<1>7. TakeInv'
  BY <1>1, Zenon DEF SyncInv, TakeInv, guestVars
<1>. QED
  BY <1>3, <1>4, <1>5, <1>6, <1>7, Zenon DEF RoundInv

\* Within a round of the daemon nothing is on its way, and its access waits.
LEMMA SyncWork ==
  ASSUME RoundInv, dpc \notin {"read", "enable"}, dpc' \notin {"read", "enable"},
         UNCHANGED <<frontVars, linkVars, kernelVars>>
  PROVE  /\ toBack = 0 /\ ~uioEvent /\ ~irqPending /\ toFront = <<>> /\ waiting # None
         /\ TokenInv' /\ UNCHANGED <<waiting, line, irq, toBack, uioEvent>>
<1>1. toBack = 0 /\ ~uioEvent /\ ~irqPending /\ toFront = <<>> /\ waiting # None /\ irqEnabled
  BY Zenon DEF RoundInv, TokenInv, Settled
<1>2. UNCHANGED <<waiting, line, irq, toBack, uioEvent, irqPending, irqEnabled, toFront>>
  BY Zenon DEF frontVars, linkVars, kernelVars
<1>. QED
  BY <1>1, <1>2 DEF TokenInv

\* The scan of INTERRUPT_ACK.
LEMMA SyncAck ==
  ASSUME SyncInv, scan_ack \/ scan_ack_clear
  PROVE  RoundInv' /\ HandlerInv' /\ TakeInv'
<1>1. /\ dpc \in {"ack", "ackclear"} /\ dpc' \in {"ackclear", "load"}
      /\ UNCHANGED <<guestVars, frontVars, linkVars, kernelVars, notifyReg, value, used_any, torn>>
  BY Zenon DEF scan_ack, scan_ack_clear, regVars
<1>2. /\ toBack = 0 /\ ~uioEvent /\ waiting # None
      /\ TokenInv' /\ UNCHANGED <<waiting, line, irq, toBack, uioEvent>>
  BY <1>1, SyncWork, Zenon DEF SyncInv
<1>3. UNCHANGED <<used, isr, isrStatus>>
  BY <1>1, Zenon DEF guestVars
<1>4. NotifyInv'
  <2>1. value = Unread
    BY <1>1, Zenon DEF SyncInv, KickInv, ValueInv
  <2>. QED
    BY <1>1, <1>2, <2>1, Zenon DEF SyncInv, RoundInv, NotifyInv
<1>5. CASE scan_ack /\ ackReg
  <2>1. dpc' = "ackclear" /\ ~interrupt_status' /\ ackReg' = ackReg
    BY <1>5, Zenon DEF scan_ack, regVars
  <2>2. waiting = Isr /\ isr = "ackwait" /\ isrStatus
    BY <1>5, Zenon DEF SyncInv, RoundInv, AckInv
  <2>. QED
    BY <1>2, <1>3, <1>4, <2>1, <2>2, Zenon DEF RoundInv, AckInv, ReasonInv, HandlerInv, TakeInv
<1>6. CASE scan_ack /\ ~ackReg
  <2>1. dpc = "ack" /\ dpc' = "load" /\ ~ackReg' /\ UNCHANGED <<interrupt_status, pending_irq_level>>
    BY <1>6, Zenon DEF scan_ack, regVars
  <2>2. pending_irq_level = "none"
    BY <2>1, Zenon DEF SyncInv, LevelInv
  <2>3. AckInv' /\ ReasonInv'
    BY <2>1, <2>2, Zenon DEF AckInv, ReasonInv
  <2>4. HandlerInv' /\ TakeInv'
    BY <1>2, <1>3, <1>6, <2>1, Zenon DEF SyncInv, HandlerInv, TakeInv
  <2>. QED
    BY <1>2, <1>4, <2>3, <2>4, Zenon DEF RoundInv
<1>7. CASE scan_ack_clear
  <2>1. dpc = "ackclear" /\ dpc' = "load" /\ ~ackReg' /\ UNCHANGED <<interrupt_status, pending_irq_level>>
    BY <1>7, Zenon DEF scan_ack_clear
  <2>2. waiting = Isr /\ ~interrupt_status
    BY <2>1, Zenon DEF SyncInv, RoundInv, AckInv
  <2>3. AckInv' /\ ReasonInv' /\ HandlerInv'
    BY <1>2, <2>1, <2>2, Zenon DEF AckInv, ReasonInv, HandlerInv
  <2>4. TakeInv'
    BY <1>3, <2>1, Zenon DEF SyncInv, TakeInv
  <2>. QED
    BY <1>2, <1>4, <2>3, <2>4, Zenon DEF RoundInv
<1>. QED
  BY <1>5, <1>6, <1>7, Zenon

\* A step of the round that leaves device and handler alone.
LEMMA SyncPlain ==
  ASSUME SyncInv, dpc \notin {"read", "enable", "ack", "ackclear", "loop"},
         dpc' \notin {"read", "enable", "ack", "ackclear"},
         UNCHANGED <<guestVars, frontVars, linkVars, kernelVars, ackReg, interrupt_status>>
  PROVE  /\ toBack = 0 /\ ~uioEvent /\ waiting # None /\ ~ackReg /\ waiting' = waiting
         /\ toFront = <<>> /\ toBack' = 0 /\ ~uioEvent'
         /\ TokenInv' /\ AckInv' /\ HandlerInv' /\ TakeInv'
<1>1. /\ toBack = 0 /\ ~uioEvent /\ waiting # None /\ toFront = <<>>
      /\ TokenInv' /\ UNCHANGED <<waiting, line, irq, toBack, uioEvent>>
  BY SyncWork, Zenon DEF SyncInv
<1>2. UNCHANGED <<used, isr, isrStatus>>
  BY Zenon DEF guestVars
<1>3. ~ackReg
  BY <1>1 DEF SyncInv, RoundInv, AckInv
<1>4. AckInv'
  BY <1>3, Zenon DEF AckInv
<1>5. HandlerInv' /\ TakeInv'
  BY <1>1, <1>2, Zenon DEF SyncInv, HandlerInv, TakeInv
<1>. QED
  BY <1>1, <1>3, <1>4, <1>5, Zenon

\* The load of QUEUE_NOTIFY finds what is there: nobody writes during a scan.
LEMMA SyncLoad ==
  ASSUME SyncInv, (\E p \in Parts : load_notify(p)) \/ scan_notify
  PROVE  /\ RoundInv' /\ HandlerInv' /\ TakeInv'
         /\ scan_notify => value = notifyReg
<1>1. /\ dpc = "load" /\ dpc' \in {"load", "store", "refresh"}
      /\ UNCHANGED <<guestVars, frontVars, linkVars, kernelVars, regVars, interrupt_status, pending_irq_level>>
  BY Zenon DEF load_notify, scan_notify
<1>2. UNCHANGED <<ackReg, notifyReg>>
  BY <1>1, Zenon DEF regVars
<1>3. /\ toBack = 0 /\ ~uioEvent /\ waiting # None /\ waiting' = waiting
      /\ TokenInv' /\ AckInv' /\ HandlerInv' /\ TakeInv'
  BY <1>1, <1>2, SyncPlain, Zenon
<1>4. /\ value \in [lo : {-1, 0, 1, 255}, hi : {-1, 0, 255}] /\ notifyReg \in [lo : {0, 1, 255}, hi : {0, 255}]
      /\ \A p \in Parts : value[p] \in {Unread[p], notifyReg[p]}
      /\ notifyReg # UIO_NOTIFY_IDLE => waiting \in Threads
      /\ notifyReg \in {UIO_NOTIFY_IDLE} \cup {Word(q) : q \in Queues} /\ ~torn
      /\ pending_irq_level # "none" => waiting = Isr
  BY <1>1, Zenon DEF SyncInv, KickInv, TypeInv, TypeOK, DaemonType, RegType, RoundInv, NotifyInv, ReasonInv
<1>5. CASE scan_notify
  <2>1. value = notifyReg
    <3>1. \A p \in Parts : value[p] = notifyReg[p]
      BY <1>4, <1>5 DEF scan_notify
    <3>. QED
      BY <1>4, <3>1 DEF Parts
  <2>2. CASE value = UIO_NOTIFY_IDLE
    <3>1. dpc' = "refresh" /\ ~torn' /\ notifyReg' = UIO_NOTIFY_IDLE
      BY <1>2, <1>4, <1>5, <2>1, <2>2, Zenon DEF scan_notify
    <3>2. NotifyInv' /\ ReasonInv'
      BY <3>1, Zenon DEF NotifyInv, ReasonInv
    <3>. QED
      BY <1>3, <2>1, <3>2, Zenon DEF RoundInv
  <2>3. CASE value # UIO_NOTIFY_IDLE
    <3>1. dpc' = "store" /\ ~torn' /\ waiting \in Threads
      BY <1>4, <1>5, <2>1, <2>3, Zenon DEF scan_notify
    <3>2. pending_irq_level' = "none"
      BY <1>1, <1>4, <3>1, ConstantsAssumption, Zenon DEF ConstantsAssumption
    <3>3. NotifyInv' /\ ReasonInv'
      BY <1>2, <1>3, <1>4, <3>1, <3>2, Zenon DEF NotifyInv, ReasonInv
    <3>. QED
      BY <1>3, <2>1, <3>3, Zenon DEF RoundInv
  <2>. QED
    BY <2>2, <2>3, Zenon
<1>6. ASSUME NEW p \in Parts, load_notify(p) PROVE RoundInv'
  <2>1. dpc' = "load" /\ torn' = torn /\ value' = [value EXCEPT ![p] = notifyReg[p]]
    BY <1>6, Zenon DEF load_notify
  <2>2. \A r \in Parts : value'[r] \in {Unread[r], notifyReg[r]}
    <3>1. \A r \in Parts : value'[r] = IF r = p THEN notifyReg[r] ELSE value[r]
      BY <1>4, <2>1, Zenon DEF Parts
    <3>. QED
      BY <1>4, <3>1, Zenon
  <2>3. NotifyInv'
    BY <1>2, <1>3, <1>4, <2>1, <2>2, ZenonT(40) DEF NotifyInv
  <2>4. ReasonInv'
    BY <1>1, <1>3, <1>4, <2>1, Zenon DEF ReasonInv
  <2>. QED
    BY <1>3, <2>3, <2>4, Zenon DEF RoundInv
<1>7. ~(scan_notify /\ \E p \in Parts : load_notify(p))
  BY Zenon DEF scan_notify, load_notify
<1>. QED
  BY <1>3, <1>5, <1>6, <1>7, Zenon

\* The service of a queue.
LEMMA SyncServe ==
  ASSUME SyncInv, store_idle \/ notify_queue \/ process_one \/ notify_done
  PROVE  RoundInv' /\ HandlerInv' /\ TakeInv'
<1>1. /\ dpc \in {"store", "store2", "notify", "loop"} /\ dpc' \in {"store2", "notify", "loop", "refresh"}
      /\ UNCHANGED <<frontVars, linkVars, kernelVars, ackReg, torn, isr, isrStatus>>
  BY Zenon DEF store_idle, notify_queue, process_one, notify_done, regVars, guestVars
<1>2. waiting \in Threads /\ ~torn /\ pending_irq_level = "none" /\ waiting # Isr
  BY <1>1, ConstantsAssumption DEF ConstantsAssumption, SyncInv, RoundInv, NotifyInv, ReasonInv
<1>3. /\ toBack = 0 /\ ~uioEvent /\ toFront = <<>>
      /\ TokenInv' /\ UNCHANGED <<waiting, line, irq, toBack, uioEvent>>
  BY <1>1, SyncWork, Zenon DEF SyncInv
<1>4. AckInv'
  BY <1>1, <1>2, <1>3, Zenon DEF SyncInv, RoundInv, AckInv
<1>5. notifyReg \in [lo : {0, 1, 255}, hi : {0, 255}]
  BY Zenon DEF SyncInv, KickInv, TypeInv, TypeOK, RegType
<1>6. CASE store_idle
  <2>1. UNCHANGED <<used, used_any, interrupt_status, pending_irq_level>>
    BY <1>6, Zenon DEF store_idle, guestVars
  <2>2. dpc # "loop"
    BY <1>6, Zenon DEF store_idle
  <2>3. HandlerInv' /\ TakeInv'
    BY <1>1, <1>3, <2>1, <2>2, Zenon DEF SyncInv, HandlerInv, TakeInv
  <2>4. NotifyInv'
    <3>1. CASE dpc = "store"
      <4>1. dpc' = "store2" /\ notifyReg' = [notifyReg EXCEPT !.lo = 255]
        BY <1>6, <3>1, Zenon DEF store_idle
      <4>2. notifyReg'.lo = 255
        BY <1>5, <4>1, Zenon
      <4>. QED
        BY <1>1, <1>2, <1>3, <4>1, <4>2, Zenon DEF NotifyInv
    <3>2. CASE dpc = "store2"
      <4>1. dpc' = "notify" /\ notifyReg' = [notifyReg EXCEPT !.hi = 255] /\ notifyReg.lo = 255
        BY <1>6, <3>2, Zenon DEF store_idle, SyncInv, RoundInv, NotifyInv
      <4>2. notifyReg' = UIO_NOTIFY_IDLE
        BY <1>5, <4>1, Zenon DEF UIO_NOTIFY_IDLE
      <4>. QED
        BY <1>1, <1>2, <1>3, <4>1, <4>2, Zenon DEF NotifyInv
    <3>. QED
      BY <1>6, <3>1, <3>2, Zenon DEF store_idle
  <2>. QED
    BY <1>2, <1>3, <1>4, <2>1, <2>3, <2>4, Zenon DEF RoundInv, ReasonInv
<1>7. CASE notify_queue \/ process_one \/ notify_done
  <2>1. dpc \in {"notify", "loop"} /\ notifyReg' = notifyReg
    BY <1>7, Zenon DEF notify_queue, process_one, notify_done, regVars
  <2>2. notifyReg = UIO_NOTIFY_IDLE
    BY <1>3, <2>1 DEF SyncInv, RoundInv, NotifyInv
  <2>3. dpc' \in {"loop", "refresh"}
    BY <1>7, Zenon DEF notify_queue, process_one, notify_done
  <2>4. NotifyInv'
    BY <1>1, <1>2, <1>3, <2>1, <2>2, <2>3, Zenon DEF NotifyInv
  <2>5. dpc' = "loop" => pending_irq_level' = pending_irq_level
    BY <1>7, Zenon DEF notify_queue, process_one, notify_done
  <2>6. ReasonInv'
    BY <1>2, <2>3, <2>5, Zenon DEF ReasonInv
  <2>7. HandlerInv' /\ TakeInv'
    <3>1. CASE notify_queue
      BY <1>1, <1>3, <3>1 DEF notify_queue, guestVars, SyncInv, HandlerInv, TakeInv
    <3>2. CASE process_one
      BY <1>1, <1>3, <3>2 DEF process_one, SyncInv, HandlerInv, TakeInv
    <3>3. CASE notify_done
      <4>1. line = interrupt_status
        <5>1. \A i \in 1 .. Len(toFront) : toFront[i] = "ACK"
          BY <1>3
        <5>. QED
          BY <1>2, <5>1, Zenon DEF SyncInv, LevelInv, Levels
      <4>2. used' = used
        BY <3>3, Zenon DEF notify_done, guestVars
      <4>3. CASE used_any
        <5>1. interrupt_status'
          BY <3>3, <4>3, Zenon DEF notify_done
        <5>. QED
          BY <1>1, <1>3, <4>1, <5>1, Zenon DEF SyncInv, HandlerInv, TakeInv
      <4>4. CASE ~used_any
        <5>1. interrupt_status' = interrupt_status
          BY <3>3, <4>4, Zenon DEF notify_done
        <5>. QED
          BY <1>1, <1>3, <4>2, <4>4, <5>1, Zenon DEF SyncInv, HandlerInv, TakeInv
      <4>. QED
        BY <4>3, <4>4, Zenon
    <3>. QED
      BY <1>7, <3>1, <3>2, <3>3, Zenon
  <2>. QED
    BY <1>3, <1>4, <2>4, <2>6, <2>7, Zenon DEF RoundInv
<1>. QED
  BY <1>6, <1>7, Zenon

\* The end of the round: at most one level and its ACK go back.
LEMMA SyncFlush ==
  ASSUME SyncInv, refresh_read_registers \/ flush_pending_irq_level
  PROVE  RoundInv' /\ HandlerInv' /\ TakeInv'
<1>1. CASE refresh_read_registers
  <2>1. /\ dpc = "refresh" /\ dpc' = "flush"
        /\ UNCHANGED <<guestVars, frontVars, linkVars, kernelVars, ackReg, notifyReg, interrupt_status,
                       pending_irq_level, torn>>
    BY <1>1, Zenon DEF refresh_read_registers
  <2>2. /\ toBack = 0 /\ ~uioEvent /\ TokenInv' /\ AckInv' /\ HandlerInv' /\ TakeInv'
    BY <2>1, SyncPlain, Zenon
  <2>3. NotifyInv' /\ ReasonInv'
    BY <2>1, <2>2 DEF SyncInv, RoundInv, NotifyInv, ReasonInv
  <2>. QED
    BY <2>2, <2>3, Zenon DEF RoundInv
<1>2. CASE flush_pending_irq_level
  <2>1. /\ dpc = "flush" /\ dpc' = "read" /\ pending_irq_level' = "none"
        /\ UNCHANGED <<guestVars, frontVars, regVars, toBack, kernelVars, interrupt_status, torn>>
        /\ toFront' = toFront \/ toFront' = toFront \o IrqMessages
    BY <1>2, Zenon DEF flush_pending_irq_level
  <2>2. UNCHANGED <<ackReg, notifyReg, waiting, line, irq, used, isr, isrStatus, irqEnabled, irqPending, uioEvent>>
    BY <2>1, Zenon DEF regVars, frontVars, guestVars, kernelVars
  <2>3. toBack = 0 /\ ~uioEvent /\ ~irqPending /\ toFront = <<>> /\ waiting # None /\ irqEnabled
    BY <2>1, Zenon DEF SyncInv, RoundInv, TokenInv, Settled
  <2>4. toFront' \in {<<>>, <<"ACK">>, <<"ASSERT", "ACK">>, <<"DEASSERT", "ACK">>}
    <3>1. CASE toFront' = toFront \o IrqMessages
      <4>1. IrqMessages \in {<<"ASSERT", "ACK">>, <<"DEASSERT", "ACK">>}
        BY Zenon DEF IrqMessages
      <4>2. \A m \in {"ASSERT", "DEASSERT"} : <<>> \o <<m, "ACK">> = <<m, "ACK">>
        OBVIOUS
      <4>. QED
        BY <2>3, <3>1, <4>1, <4>2, Zenon
    <3>. QED
      BY <2>1, <2>3, <3>1, Zenon
  <2>5. TokenInv'
    BY <2>1, <2>2, <2>3, <2>4 DEF TokenInv
  <2>6. ~ackReg /\ notifyReg = UIO_NOTIFY_IDLE /\ ~torn
    BY <2>1, <2>3 DEF SyncInv, RoundInv, AckInv, NotifyInv
  <2>7. AckInv' /\ ReasonInv' /\ NotifyInv'
    BY <2>1, <2>2, <2>6, Zenon DEF AckInv, ReasonInv, NotifyInv
  <2>8. HandlerInv' /\ TakeInv'
    BY <2>1, <2>2, Zenon DEF SyncInv, HandlerInv, TakeInv
  <2>. QED
    BY <2>5, <2>7, <2>8, Zenon DEF RoundInv
<1>. QED
  BY <1>1, <1>2, Zenon

-----------------------------------------------------------------------------
\* A kick is the only one in the window.
LEMMA SyncKick ==
  ASSUME Synchronous, SyncInv, NEW t \in Threads, kick(t)
  PROVE  ValueInv' /\ LoadInv' /\ NoLostKick'
<1>0. ~Barrier
  BY SyncConstants, Zenon
<1>1. dpc = "read" /\ toBack = 0 /\ notifyReg = UIO_NOTIFY_IDLE /\ value = Unread
  BY Still, Zenon DEF SyncInv, kick
<1>2. /\ notifyReg' = Word(QueueOf[t]) /\ toBack' = toBack + 1 /\ pc' = [pc EXCEPT ![t] = "wait"]
      /\ avail' = avail /\ UNCHANGED daemonVars
  BY <1>0, Zenon DEF kick, axi_uio_notify_backend, axi_control_send
<1>3. dpc' = "read" /\ value' = Unread /\ torn' = torn /\ WakeDue'
  BY <1>1, <1>2 DEF daemonVars, WakeDue
<1>4. ASSUME NEW q \in Served, KickOnItsWay(q) PROVE KickOnItsWay(q)'
  <2>1. PICK u \in Threads : pc[u] = "kick" /\ QueueOf[u] = q
    BY <1>1, <1>4, Words, Zenon DEF KickOnItsWay
  <2>2. CASE u = t
    BY <1>2, <1>3, <2>1, <2>2, Zenon DEF KickOnItsWay, ScanDue
  <2>3. CASE u # t
    <3>1. pc'[u] = "kick"
      BY <1>2, <2>1, <2>3, Zenon DEF SyncInv, KickInv, TypeInv, TypeOK, GuestType
    <3>. QED
      BY <2>1, <3>1, Zenon DEF KickOnItsWay
  <2>. QED
    BY <2>2, <2>3, Zenon
<1>. QED
  BY <1>2, <1>3, <1>4, Zenon DEF SyncInv, KickInv, ValueInv, LoadInv, NoLostKick

\* The number the scan has found is the one that was written.
LEMMA SyncScan ==
  ASSUME SyncInv, scan_notify, value # UIO_NOTIFY_IDLE
  PROVE  ValueInv' /\ LoadInv' /\ NoLostKick'
<1>1. value = notifyReg
  BY SyncLoad, Zenon
<1>2. dpc = "load" /\ dpc' = "store" /\ value' = value /\ UNCHANGED <<avail, pc, torn>>
  <2>1. torn' = FALSE
    BY SyncLoad DEF RoundInv, NotifyInv
  <2>2. torn = FALSE
    BY Zenon DEF SyncInv, RoundInv, NotifyInv, KickInv, TypeInv, TypeOK, DaemonType
  <2>. QED
    BY <2>1, <2>2, Zenon DEF scan_notify, guestVars
<1>3. notifyReg \in {Word(q) : q \in Queues}
  BY <1>1, <1>2, Zenon DEF SyncInv, RoundInv, NotifyInv
<1>4. ASSUME NEW q \in Served, KickOnItsWay(q) PROVE KickOnItsWay(q)'
  BY <1>1, <1>2, <1>4, Zenon DEF KickOnItsWay
<1>. QED
  BY <1>1, <1>2, <1>3, <1>4, Zenon DEF SyncInv, KickInv, ValueInv, LoadInv, NoLostKick

\* During the service of a queue the kicks of the others are still to come.
LEMMA SyncOthers ==
  ASSUME SyncInv, dpc \in {"store", "store2", "notify", "loop"}, NEW q \in Served, value # Word(q), avail[q] > 0
  PROVE  \E t \in Threads : pc[t] = "kick" /\ QueueOf[t] = q
<1>1. ~WakeDue /\ ~torn
  BY DEF SyncInv, RoundInv, TokenInv, NotifyInv, WakeDue
<1>. QED
  BY <1>1, Zenon DEF SyncInv, KickInv, NoLostKick, KickOnItsWay, ScanDue

\* The service of a queue loses no kick of any queue.
LEMMA SyncServed ==
  ASSUME SyncInv, store_idle \/ notify_queue \/ process_one \/ notify_done
  PROVE  ValueInv' /\ LoadInv' /\ NoLostKick'
<1>1. /\ dpc \in {"store", "store2", "notify", "loop"} /\ torn' = torn /\ pc' = pc
      /\ dpc' \in {"store2", "notify", "loop", "refresh"}
  BY Zenon DEF store_idle, notify_queue, process_one, notify_done, guestVars
<1>2. ~torn
  BY Zenon DEF SyncInv, RoundInv, NotifyInv
<1>3. PICK q0 \in Queues : value = Word(q0)
  BY <1>1, <1>2, Zenon DEF SyncInv, KickInv, ValueInv
<1>4. value.lo = q0
  BY <1>3, Words, Zenon
<1>5. avail \in [Queues -> 0 .. MaxRequests]
  BY Zenon DEF SyncInv, KickInv, TypeInv, TypeOK, GuestType
<1>6. \A q \in Served : value # Word(q) => avail'[q] = avail[q]
  <2>1. CASE process_one
    <3>1. avail' = [avail EXCEPT ![q0] = @ - 1]
      BY <1>4, <2>1, Zenon DEF process_one
    <3>. QED
      BY <1>3, <1>5, <3>1, QueueNumbers, Zenon
  <2>2. CASE ~process_one
    BY <2>2, Zenon DEF store_idle, notify_queue, notify_done, guestVars
  <2>. QED
    BY <2>1, <2>2, Zenon
<1>7. ASSUME NEW q \in Served, value # Word(q), avail'[q] > 0 PROVE KickOnItsWay(q)'
  <2>1. \E t \in Threads : pc[t] = "kick" /\ QueueOf[t] = q
    BY <1>1, <1>6, <1>7, SyncOthers, Zenon
  <2>. QED
    BY <1>1, <2>1, Zenon DEF KickOnItsWay
<1>8. LoadInv'
  BY <1>1, Zenon DEF LoadInv
<1>9. CASE dpc' # "refresh"
  <2>1. value' = value
    BY <1>9, Zenon DEF store_idle, notify_queue, process_one, notify_done
  <2>2. \A q \in Served : value = Word(q) => KickOnItsWay(q)'
    BY <1>1, <2>1, Zenon DEF KickOnItsWay
  <2>3. ValueInv'
    BY <1>1, <1>3, <1>9, <2>1, Zenon DEF ValueInv
  <2>4. NoLostKick'
    BY <1>7, <2>2, Zenon DEF NoLostKick
  <2>. QED
    BY <1>8, <2>3, <2>4, Zenon
<1>10. CASE dpc' = "refresh"
  <2>1. value' = Unread
    BY <1>1, <1>10, Zenon DEF store_idle, notify_queue, process_one, notify_done
  <2>2. \A q \in Served : value = Word(q) => ~(avail'[q] > 0)
    <3>1. CASE notify_queue
      BY <1>1, <1>10, <3>1, Zenon DEF notify_queue
    <3>2. CASE notify_done
      <4>1. avail' = avail /\ avail[q0] = 0
        BY <1>4, <3>2, Zenon DEF notify_done, RingEmpty, guestVars
      <4>2. \A q \in Served : value = Word(q) => q = q0
        BY <1>4, Words, Zenon
      <4>. QED
        BY <4>1, <4>2
    <3>. QED
      BY <1>1, <1>10, <3>1, <3>2, Zenon DEF store_idle, process_one
  <2>3. ValueInv'
    BY <1>10, <2>1, Zenon DEF ValueInv
  <2>4. NoLostKick'
    BY <1>7, <2>2, Zenon DEF NoLostKick
  <2>. QED
    BY <1>8, <2>3, <2>4, Zenon
<1>. QED
  BY <1>9, <1>10, Zenon

\* SyncInv is inductive.
LEMMA SyncStep ==
  ASSUME Synchronous, SyncInv, [Next]_vars
  PROVE  SyncInv'
<1>0. KickInv /\ TypeInv /\ LevelInv
  BY Zenon DEF SyncInv, KickInv
<1>1. TypeInv' /\ LevelInv'
  BY <1>0, TypeGuest, TypeFront, TypeBack, TypeStutter, LevelStep, Zenon DEF Next
<1>2. RoundInv' /\ HandlerInv' /\ TakeInv'
  BY SyncGuest, SyncAccess, SyncFront, SyncWake, SyncAck, SyncLoad, SyncServe, SyncFlush, Zenon
  DEF Next, Handler, Daemon
<1>3. UNCHANGED vars => Elsewhere
  BY Zenon DEF vars, guestVars, regVars, linkVars, Elsewhere
<1>4. Driver \/ Take \/ Handler \/ FrontQemu \/ UNCHANGED vars => ValueInv' /\ LoadInv' /\ NoLostKick'
  BY <1>0, <1>3, MostElsewhere, KickElsewhere, Zenon
<1>5. Kick => ValueInv' /\ LoadInv' /\ NoLostKick'
  BY SyncKick, Zenon DEF Kick
<1>6. axi_notify_pulse \/ Daemon => ValueInv' /\ LoadInv' /\ NoLostKick'
  BY <1>0, KickWake, KickLoad, SyncScan, SyncServed, KickEnd, Zenon DEF Daemon
<1>. QED
  BY <1>1, <1>2, <1>4, <1>5, <1>6, Zenon DEF Next, SyncInv, KickInv

\* SyncInv holds in every state of a synchronous frontend.
LEMMA SyncInvAlways ==
  ASSUME Synchronous
  PROVE  Spec => []SyncInv
<1>1. Init => KickInv
  BY TypeInit, QueueNumbers DEF Init, KickInv, ValueInv, LoadInv, NoLostKick
<1>2. Init => SyncInv
  BY <1>1, LevelInit, SyncInit, Zenon DEF SyncInv
<1>3. SyncInv /\ [Next]_vars => SyncInv'
  BY SyncStep, Zenon
<1>. QED
  BY <1>2, <1>3, PTL DEF Spec

\* With notify-policy all and deadlines that outlast the daemon's rounds: when everything
\* is quiet the driver has taken every completion, with any threads, any queues and any
\* polling; no interrupt is dropped on the edge-triggered line.
THEOREM TakenWhenQuietAlways ==
  ASSUME Synchronous
  PROVE  Spec => []TakenWhenQuiet
<1>1. SyncInv => TakenWhenQuiet
  <2>. SUFFICES ASSUME SyncInv, Quiet, NEW q \in Served \ Polled PROVE used[q] = 0
    BY Zenon DEF TakenWhenQuiet
  <2>1. waiting = None /\ ~irq /\ isr = "idle" /\ dpc = "read"
    BY Zenon DEF Quiet, Settled
  <2>2. line = interrupt_status
    BY <2>1, Still, Zenon DEF SyncInv
  <2>3. interrupt_status \in BOOLEAN /\ used[q] \in Nat
    BY QueueNumbers, ConstantsAssumption DEF ConstantsAssumption, SyncInv, KickInv, TypeInv, TypeOK, GuestType,
       DaemonType
  <2>4. ~interrupt_status
    BY <2>1, <2>2, Zenon DEF SyncInv, HandlerInv
  <2>5. ~(used[q] > 0)
    BY <2>1, <2>4, Zenon DEF SyncInv, TakeInv
  <2>. QED
    BY <2>3, <2>5
<1>. QED
  BY <1>1, SyncInvAlways, PTL

\* Under the same conditions, with any queues, every kick has then been served too; no load
\* of QUEUE_NOTIFY is ever torn, so that the exception NoLostKick makes does not arise.
THEOREM SynchronousKicks ==
  ASSUME Synchronous
  PROVE  Spec => [](NoLostKick /\ ServedWhenQuiet /\ ~torn)
<1>1. SyncInv => NoLostKick /\ ServedWhenQuiet /\ ~torn
  BY KickQuiet, Zenon DEF SyncInv, KickInv, RoundInv, NotifyInv
<1>. QED
  BY <1>1, SyncInvAlways, PTL
=============================================================================

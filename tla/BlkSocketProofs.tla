--------------------------- MODULE BlkSocketProofs ---------------------------
(***************************************************************************)
(* Proofs about BlkSocket for any number of threads, any queue size that   *)
(* divides the range of the indices, and any failures.  First the service: *)
(* no kick is lost, no completion is stranded, and a device that has lost  *)
(* its connection is silent.  Then the rings: completions are in order, no *)
(* request is executed twice, and BlkSocket implements BlkService.         *)
(***************************************************************************)
EXTENDS BlkSocket, FiniteSetTheorems, TLAPS

\* The variables these proofs are about have values the code can give them.
TypeInv ==
  /\ pc \in [Threads -> {"idle", "publish", "kick", "wait"}]
  /\ mmio \in Threads \cup {None}
  /\ dpc \in {"accept", "serve", "down"} \cup Notifying
  /\ running \in BOOLEAN /\ lost \in BOOLEAN /\ ready \in BOOLEAN /\ irq \in BOOLEAN
  /\ used_any \in BOOLEAN /\ interrupt_status \in BOOLEAN /\ isrStatus \in BOOLEAN
  /\ usedIdx \in Int /\ lastUsed \in Int /\ used_idx \in Int

\* A QUEUE_NOTIFY write is served exactly while its thread waits, and a thread that is
\* not idle keeps the driver from being removed.
WriteInv ==
  /\ mmio # None => dpc \in {"serve"} \cup Notifying
  /\ dpc \in Notifying => mmio # None
  /\ \A t \in Threads : pc[t] = "wait" <=> mmio = t
  /\ \A t \in Threads : pc[t] # "idle" => running

\* The device that the driver has set up is there as long as the connection lasts; one
\* that took its place is not ready.
DeviceInv ==
  /\ running /\ ~lost => ready /\ dpc \in {"serve"} \cup Notifying
  /\ lost => dpc \notin Notifying /\ (dpc = "serve" => ~ready)

\* A completion that the driver has not taken is on its way: an interrupt whose status
\* bit is set, a handler that has read the bit, or a service that will set it.
Announced ==
  \/ irq /\ interrupt_status
  \/ isr = "status" /\ interrupt_status
  \/ isr = "ack" /\ isrStatus
  \/ isr = "drain"
  \/ mmio # None /\ used_any

ServiceInv ==
  /\ TypeInv
  /\ WriteInv
  /\ DeviceInv
  /\ NoLostKick
  /\ running /\ ~lost /\ usedIdx # lastUsed => Announced

\* An index starts at an integer.
LEMMA ZeroInt == 0 \in Int
OBVIOUS

\* The invariant holds before the driver is bound.
LEMMA ServiceInit == Init => ServiceInv
<1>. SUFFICES ASSUME Init PROVE ServiceInv
  BY Zenon
<1>1. TypeInv
  <2>1. pc \in [Threads -> {"idle", "publish", "kick", "wait"}]
    BY Zenon DEF Init
  <2>. QED
    BY <2>1, ZeroInt, Zenon DEF Init, TypeInv
<1>2. WriteInv
  BY ConstantsAssumption, Zenon DEF Init, WriteInv, Notifying, ConstantsAssumption
<1>. QED
  BY <1>1, <1>2, Zenon DEF Init, ServiceInv, DeviceInv, NoLostKick, Notifying

\* uint16_t increment.
LEMMA IncType == ASSUME NEW i \in Int PROVE Inc(i) \in Int
BY ConstantsAssumption DEF Inc, ConstantsAssumption

\* The connection comes and goes, and the daemon with it.
LEMMA ConnectionSteps ==
  ASSUME ServiceInv, axi_connect \/ axi_close \/ DaemonStart
  PROVE  ServiceInv'
<1>1. CASE axi_close
  BY <1>1, Zenon DEF axi_close, ServiceInv, TypeInv, WriteInv, DeviceInv, NoLostKick, Announced,
     memVars, driverVars, isrVars, devVars, loopVars, history
<1>2. CASE axi_connect \/ DaemonStart
  <2>1. /\ mmio = None /\ mmio' = None /\ dpc \in {"accept", "down"} /\ dpc' \in {"accept", "serve"}
        /\ ready' = FALSE /\ interrupt_status' = FALSE
        /\ UNCHANGED <<pc, running, lost, irq, used_any, isrStatus, usedIdx, lastUsed, used_idx>>
    BY <1>2, Zenon DEF axi_connect, DaemonStart, virtio_device_reset, memVars, driverVars, isrVars, qemuVars,
       history, ServiceInv, WriteInv, Notifying
  <2>2. ~(running /\ ~lost)
    BY <2>1, Zenon DEF ServiceInv, DeviceInv, Notifying
  <2>3. TypeInv'
    BY <2>1, Zenon DEF ServiceInv, TypeInv
  <2>4. WriteInv' /\ DeviceInv'
    BY <2>1, <2>2, Zenon DEF ServiceInv, WriteInv, DeviceInv, Notifying
  <2>. QED
    BY <2>1, <2>2, <2>3, <2>4, Zenon DEF ServiceInv, NoLostKick
<1>. QED
  BY <1>1, <1>2, Zenon

\* A connection that is lost ends the service under way and leaves a device that is not ready.
LEMMA DisconnectStep ==
  ASSUME ServiceInv, NEW l \in {"accept", "down"}, Disconnect(l)
  PROVE  ServiceInv'
<1>1. /\ mmio' = None /\ dpc' = l /\ lost' = running /\ used_any' = FALSE /\ used_idx' = 0
      /\ UNCHANGED <<running, ready, irq, interrupt_status, isrStatus, usedIdx, lastUsed>>
  BY Zenon DEF Disconnect, memVars, isrVars, devVars
<1>2. pc' = IF mmio = None THEN pc ELSE [pc EXCEPT ![mmio] = "idle"]
  BY Zenon DEF Disconnect
<1>3. /\ pc' \in [Threads -> {"idle", "publish", "kick", "wait"}]
      /\ \A t \in Threads : pc'[t] # "wait" /\ (pc'[t] # "idle" => running)
  BY <1>2, ConstantsAssumption, Zenon DEF ServiceInv, TypeInv, WriteInv, ConstantsAssumption
<1>4. TypeInv'
  BY <1>1, <1>3, ZeroInt, Zenon DEF ServiceInv, TypeInv
<1>5. WriteInv' /\ DeviceInv'
  BY <1>1, <1>3, ConstantsAssumption, Zenon DEF WriteInv, DeviceInv, Notifying, ConstantsAssumption
<1>. QED
  BY <1>1, <1>4, <1>5, Zenon DEF ServiceInv, NoLostKick

\* The driver sets the queue up and tears it down.
LEMMA ProbeSteps ==
  ASSUME ServiceInv, driver_setup \/ driver_remove
  PROVE  ServiceInv'
<1>1. /\ mmio = None /\ dpc = "serve" /\ UNCHANGED <<pc, mmio, irq, isrStatus, dpc, used_any, used_idx>>
      /\ usedIdx' = 0 /\ lastUsed' = 0 /\ interrupt_status' = FALSE
      /\ \A t \in Threads : pc[t] = "idle"
  BY Zenon DEF driver_setup, driver_remove, Served, virtio_device_reset, isrVars, loopVars, ServiceInv, WriteInv
<1>2. CASE driver_setup
  <2>1. running' = TRUE /\ ready' = TRUE /\ lost' = FALSE /\ availIdx' = 0 /\ last_avail_idx' = 0
    BY <1>2, Zenon DEF driver_setup
  <2>2. TypeInv'
    BY <1>1, <2>1, ZeroInt, Zenon DEF ServiceInv, TypeInv
  <2>3. WriteInv' /\ DeviceInv'
    BY <1>1, <2>1, Zenon DEF ServiceInv, WriteInv, DeviceInv, Notifying
  <2>. QED
    BY <1>1, <2>1, <2>2, <2>3, Zenon DEF ServiceInv, NoLostKick
<1>3. CASE driver_remove
  <2>1. running' = FALSE /\ ready' = FALSE /\ UNCHANGED lost
    BY <1>3, Zenon DEF driver_remove, virtio_device_reset
  <2>2. TypeInv'
    BY <1>1, <2>1, ZeroInt, Zenon DEF ServiceInv, TypeInv
  <2>3. WriteInv' /\ DeviceInv'
    BY <1>1, <2>1, Zenon DEF ServiceInv, WriteInv, DeviceInv, Notifying
  <2>. QED
    BY <2>1, <2>2, <2>3, Zenon DEF ServiceInv, NoLostKick
<1>. QED
  BY <1>2, <1>3, Zenon

\* A thread adds a buffer, publishes it and kicks.
LEMMA SubmitSteps ==
  ASSUME ServiceInv, NEW t \in Threads,
         (\E h \in Heads : driver_add(t, h)) \/ driver_publish(t) \/ driver_kick(t)
  PROVE  ServiceInv'
<1>1. /\ UNCHANGED <<running, lost, ready, irq, used_any, interrupt_status, isr, isrStatus, usedIdx,
                     lastUsed, used_idx, last_avail_idx, dpc>>
  BY Zenon DEF driver_add, driver_publish, driver_kick, isrVars, qemuVars, devVars, loopVars, history, memVars
<1>2. /\ mmio' \in Threads \cup {None}
      /\ pc' \in [Threads -> {"idle", "publish", "kick", "wait"}]
  BY Zenon DEF driver_add, driver_publish, driver_kick, qemuVars, ServiceInv, TypeInv
<1>3. TypeInv'
  BY <1>1, <1>2, Zenon DEF ServiceInv, TypeInv
<1>4. DeviceInv'
  BY <1>1, Zenon DEF ServiceInv, DeviceInv
<1>5. CASE \E h \in Heads : driver_add(t, h)
  <2>1. pc[t] = "idle" /\ pc' = [pc EXCEPT ![t] = "publish"] /\ mmio' = mmio /\ running /\ availIdx' = availIdx
    BY <1>5, Zenon DEF driver_add, qemuVars
  <2>2. WriteInv'
    BY <1>1, <2>1, Zenon DEF ServiceInv, TypeInv, WriteInv
  <2>3. NoLostKick'
    BY <1>1, <2>1, Zenon DEF ServiceInv, TypeInv, NoLostKick
  <2>. QED
    BY <1>1, <1>3, <1>4, <2>1, <2>2, <2>3, Zenon DEF ServiceInv, Announced
<1>6. CASE driver_publish(t)
  <2>1. pc[t] = "publish" /\ pc' = [pc EXCEPT ![t] = "kick"] /\ mmio' = mmio
    BY <1>6, Zenon DEF driver_publish, qemuVars
  <2>2. WriteInv'
    BY <1>1, <2>1, Zenon DEF ServiceInv, TypeInv, WriteInv
  <2>3. pc'[t] = "kick"
    BY <2>1, Zenon DEF ServiceInv, TypeInv
  <2>. QED
    BY <1>1, <1>3, <1>4, <2>1, <2>2, <2>3, Zenon DEF ServiceInv, NoLostKick, Announced
<1>7. CASE driver_kick(t) /\ Served
  <2>1. mmio = None /\ dpc = "serve" /\ pc[t] = "kick"
    BY <1>7, Zenon DEF driver_kick, Served
  <2>2. mmio' = t /\ pc' = [pc EXCEPT ![t] = "wait"]
    BY <1>7, <2>1, Zenon DEF driver_kick, Dropped
  <2>3. None \notin Threads
    BY ConstantsAssumption, Zenon DEF ConstantsAssumption
  <2>4. WriteInv'
    BY <1>1, <2>1, <2>2, <2>3, Zenon DEF ServiceInv, TypeInv, WriteInv
  <2>. QED
    BY <1>1, <1>3, <1>4, <2>1, <2>2, <2>3, <2>4, Zenon DEF ServiceInv, NoLostKick, Announced
<1>8. CASE driver_kick(t) /\ ~Served
  <2>1. dpc \in {"accept", "down"} /\ pc[t] = "kick" /\ pc' = [pc EXCEPT ![t] = "idle"] /\ mmio' = mmio
    BY <1>8, Zenon DEF driver_kick, Dropped
  <2>2. ~(running /\ ~lost)
    BY <2>1, Zenon DEF ServiceInv, DeviceInv, Notifying
  <2>3. WriteInv'
    BY <1>1, <2>1, Zenon DEF ServiceInv, TypeInv, WriteInv
  <2>. QED
    BY <1>1, <1>3, <1>4, <2>2, <2>3, Zenon DEF ServiceInv, NoLostKick
<1>. QED
  BY <1>5, <1>6, <1>7, <1>8, Zenon

\* The interrupt handler.
LEMMA InterruptSteps ==
  ASSUME ServiceInv, Interrupt
  PROVE  ServiceInv'
<1>1. UNCHANGED <<pc, mmio, dpc, running, lost, ready, used_any, usedIdx, used_idx, availIdx,
                  last_avail_idx>>
  BY Zenon DEF Interrupt, isr_enter, isr_status, isr_ack, isr_take, isr_done, memVars, driverVars, qemuVars,
     devVars, loopVars, history
<1>2. WriteInv' /\ DeviceInv' /\ NoLostKick'
  BY <1>1, Zenon DEF ServiceInv, WriteInv, DeviceInv, NoLostKick
<1>3. CASE isr_enter
  <2>1. irq /\ irq' = FALSE /\ isr = "idle" /\ isr' = "status" /\ UNCHANGED <<isrStatus, interrupt_status, lastUsed>>
    BY <1>3, Zenon DEF isr_enter, driverVars, devVars
  <2>2. TypeInv'
    BY <1>1, <2>1, Zenon DEF ServiceInv, TypeInv
  <2>. QED
    BY <1>1, <1>2, <2>1, <2>2, Zenon DEF ServiceInv, Announced
<1>4. CASE isr_status
  <2>1. /\ isr = "status" /\ isr' = "ack" /\ UNCHANGED <<irq, interrupt_status, lastUsed>>
        /\ isrStatus' = interrupt_status \/ (isrStatus' = FALSE /\ dpc \in {"accept", "down"})
    BY <1>4, Zenon DEF isr_status, Dropped, driverVars, devVars
  <2>2. TypeInv'
    BY <1>1, <2>1, Zenon DEF ServiceInv, TypeInv
  <2>3. running /\ ~lost => isrStatus' = interrupt_status
    BY <2>1, Zenon DEF ServiceInv, DeviceInv, Notifying
  <2>. QED
    BY <1>1, <1>2, <2>1, <2>2, <2>3, Zenon DEF ServiceInv, Announced
<1>5. CASE isr_ack
  <2>1. /\ isr = "ack" /\ isr' = (IF isrStatus THEN "drain" ELSE "idle") /\ isrStatus' = FALSE
        /\ UNCHANGED <<irq, lastUsed>>
        /\ interrupt_status' = (interrupt_status /\ ~isrStatus) \/ UNCHANGED interrupt_status
    BY <1>5, Zenon DEF isr_ack, driverVars
  <2>2. TypeInv'
    BY <1>1, <2>1, Zenon DEF ServiceInv, TypeInv
  <2>. QED
    BY <1>1, <1>2, <2>1, <2>2, Zenon DEF ServiceInv, TypeInv, Announced
<1>6. CASE isr_take
  <2>1. isr = "drain" /\ UNCHANGED <<isr, isrStatus, irq, interrupt_status>> /\ lastUsed' = Inc(lastUsed)
    BY <1>6, Zenon DEF isr_take, isrVars, qemuVars, devVars
  <2>2. lastUsed' \in Int
    BY <2>1, IncType, Zenon DEF ServiceInv, TypeInv
  <2>3. TypeInv'
    BY <1>1, <2>1, <2>2, Zenon DEF ServiceInv, TypeInv
  <2>. QED
    BY <1>1, <1>2, <2>1, <2>3, Zenon DEF ServiceInv, Announced
<1>7. CASE isr_done
  <2>1. lastUsed = usedIdx /\ UNCHANGED <<isrStatus, irq, interrupt_status, lastUsed>>
    BY <1>7, Zenon DEF isr_done, driverVars, qemuVars, devVars
  <2>2. TypeInv'
    BY <1>1, <2>1, Zenon DEF ServiceInv, TypeInv
  <2>. QED
    BY <1>1, <1>2, <2>1, <2>2, Zenon DEF ServiceInv
<1>. QED
  BY <1>3, <1>4, <1>5, <1>6, <1>7, Zenon DEF Interrupt

\* The acknowledgement of a QUEUE_NOTIFY write.
LEMMA EndWriteFacts ==
  ASSUME ServiceInv, mmio # None, EndWrite
  PROVE  /\ mmio' = None /\ dpc' = "serve" /\ used_any' = FALSE /\ used_idx' = 0
         /\ pc' \in [Threads -> {"idle", "publish", "kick", "wait"}]
         /\ \A t \in Threads : /\ pc'[t] # "wait"
                               /\ pc'[t] # "idle" => running
                               /\ pc[t] = "kick" => pc'[t] = "kick"
         /\ running
<1>1. mmio \in Threads /\ pc' = [pc EXCEPT ![mmio] = "idle"] /\ pc[mmio] = "wait"
  BY Zenon DEF ServiceInv, TypeInv, WriteInv, EndWrite
<1>. QED
  BY <1>1, Zenon DEF ServiceInv, TypeInv, WriteInv, EndWrite

\* The daemon serves a kick.
LEMMA DaemonSteps ==
  ASSUME ServiceInv, Daemon
  PROVE  ServiceInv'
<1>n. None \notin Threads
  BY ConstantsAssumption, Zenon DEF ConstantsAssumption
<1>1. /\ UNCHANGED <<running, lost, ready, lastUsed, isr, isrStatus, availIdx>>
      /\ mmio # None
  BY Zenon DEF Daemon, notify_queue, next_avail, notify_done, next_avail_head, process_chain, add_used_read,
     add_used_elem, add_used_publish, memVars, isrVars, devVars, history, ServiceInv, WriteInv, Notifying
<1>2. CASE notify_queue /\ ~ready
  <2>1. EndWrite /\ UNCHANGED <<interrupt_status, usedIdx>> /\ (irq' = irq \/ irq' = TRUE)
    BY <1>2, Zenon DEF notify_queue, blkd_ack_notify, fabric_raise_irq, fabric_lower_irq, memVars, devVars
  <2>2. /\ mmio' = None /\ dpc' = "serve" /\ used_any' = FALSE /\ used_idx' = 0
        /\ pc' \in [Threads -> {"idle", "publish", "kick", "wait"}]
        /\ \A t \in Threads : pc'[t] # "wait" /\ (pc'[t] # "idle" => running)
        /\ running
    BY <1>1, <2>1, EndWriteFacts, Zenon
  <2>3. lost
    BY <1>2, <2>2, Zenon DEF ServiceInv, DeviceInv
  <2>4. TypeInv'
    BY <1>1, <2>1, <2>2, ZeroInt, Zenon DEF ServiceInv, TypeInv
  <2>5. WriteInv' /\ DeviceInv'
    BY <1>1, <1>2, <1>n, <2>2, Zenon DEF ServiceInv, WriteInv, DeviceInv, Notifying
  <2>. QED
    BY <1>1, <2>3, <2>4, <2>5, Zenon DEF ServiceInv, NoLostKick
<1>3. CASE notify_done
  <2>1. /\ EndWrite /\ dpc = "avail" /\ UNCHANGED <<usedIdx, last_avail_idx>> /\ availIdx = last_avail_idx
        /\ \/ used_any /\ interrupt_status' = TRUE /\ irq' = TRUE
           \/ ~used_any /\ UNCHANGED interrupt_status /\ interrupt_status /\ irq' = TRUE
           \/ ~used_any /\ UNCHANGED <<interrupt_status, irq>>
    BY <1>3, Zenon DEF notify_done, RingEmpty, SetVring, blkd_ack_notify, fabric_raise_irq, fabric_lower_irq, memVars
  <2>2. /\ mmio' = None /\ dpc' = "serve" /\ used_any' = FALSE /\ used_idx' = 0
        /\ pc' \in [Threads -> {"idle", "publish", "kick", "wait"}]
        /\ \A t \in Threads : pc'[t] # "wait" /\ (pc'[t] # "idle" => running)
        /\ running
    BY <1>1, <2>1, EndWriteFacts, Zenon
  <2>3. TypeInv'
    <3>1. interrupt_status' \in BOOLEAN /\ irq' \in BOOLEAN
      BY <2>1, Zenon DEF ServiceInv, TypeInv
    <3>. QED
      BY <1>1, <2>1, <2>2, <3>1, ZeroInt, Zenon DEF ServiceInv, TypeInv
  <2>4. WriteInv' /\ DeviceInv'
    BY <1>1, <1>n, <2>1, <2>2, Zenon DEF ServiceInv, WriteInv, DeviceInv, Notifying
  <2>5. NoLostKick'
    BY <1>1, <2>1, Zenon DEF NoLostKick
  <2>6. (running /\ ~lost /\ usedIdx # lastUsed => Announced)'
    BY <1>1, <2>1 DEF ServiceInv, Announced
  <2>. QED
    BY <2>3, <2>4, <2>5, <2>6, Zenon DEF ServiceInv
<1>4. CASE \/ notify_queue /\ ready
           \/ next_avail \/ next_avail_head \/ process_chain \/ add_used_read \/ add_used_elem
           \/ add_used_publish
  <2>1. /\ UNCHANGED <<pc, mmio, irq, interrupt_status>> /\ dpc' \in Notifying
        /\ used_any' = used_any \/ used_any' = TRUE
        /\ dpc \in Notifying \/ (dpc = "serve" /\ ready)
    BY <1>4, Zenon DEF notify_queue, next_avail, next_avail_head, process_chain, add_used_read, add_used_elem,
       add_used_publish, Continue, Notifying, devVars, loopVars
  <2>2. usedIdx' \in Int /\ used_idx' \in Int /\ (usedIdx' = usedIdx \/ used_any' = TRUE)
    BY <1>4, IncType DEF notify_queue, next_avail, next_avail_head, process_chain, add_used_read,
       add_used_elem, add_used_publish, memVars, ServiceInv, TypeInv
  <2>3. ~lost
    BY <2>1, Zenon DEF ServiceInv, DeviceInv
  <2>4. TypeInv'
    BY <1>1, <2>1, <2>2, Zenon DEF ServiceInv, TypeInv
  <2>5. WriteInv' /\ DeviceInv'
    BY <1>1, <2>1, <2>3, Zenon DEF ServiceInv, WriteInv, DeviceInv
  <2>6. (running /\ ~lost /\ usedIdx # lastUsed => Announced)'
    BY <1>1, <2>1, <2>2 DEF ServiceInv, Announced
  <2>. QED
    BY <1>1, <2>1, <2>4, <2>5, <2>6, Zenon DEF ServiceInv, NoLostKick
<1>. QED
  BY <1>2, <1>3, <1>4, Zenon DEF Daemon, notify_queue

\* ServiceInv is preserved by every step.
LEMMA ServiceStep == ServiceInv /\ [Next]_vars => ServiceInv'
<1>. SUFFICES ASSUME ServiceInv, [Next]_vars PROVE ServiceInv'
  BY Zenon
<1>1. CASE notify_fails \/ DaemonCrash
  BY <1>1, DisconnectStep, Zenon DEF notify_fails, DaemonCrash
<1>2. CASE UNCHANGED vars
  BY <1>2, Zenon DEF ServiceInv, TypeInv, WriteInv, DeviceInv, NoLostKick, Announced, vars, memVars, driverVars,
     isrVars, qemuVars, devVars, loopVars, history
<1>. QED
  BY <1>1, <1>2, ConnectionSteps, ProbeSteps, SubmitSteps, InterruptSteps, DaemonSteps, Zenon
  DEF Next, Submit, Kick, Failure

\* The inductive invariant holds in every reachable state.
LEMMA ServiceInvAlways == Spec => []ServiceInv
BY ServiceInit, ServiceStep, PTL DEF Spec

\* The loop of blkd_virtio_notify_queue never returns with a buffer left behind whose
\* QUEUE_NOTIFY write is over, for any number of threads and any queue size.
THEOREM NoLostKickAlways == Spec => []NoLostKick
<1>1. ServiceInv => NoLostKick
  BY Zenon DEF ServiceInv
<1>. QED
  BY <1>1, ServiceInvAlways, PTL

\* While the connection lasts, a completion the driver has not taken always has an
\* interrupt on its way or a handler that will find it.
THEOREM NoStrandedCompletionAlways == Spec => []NoStrandedCompletion
<1>1. ServiceInv => NoStrandedCompletion
  <2>. SUFFICES ASSUME ServiceInv, running, ~lost, mmio = None, Untaken > 0 PROVE Announced
    BY Zenon DEF NoStrandedCompletion, Announced
  <2>1. usedIdx # lastUsed
    <3>. SUFFICES ASSUME usedIdx = lastUsed PROVE FALSE
      BY Zenon
    <3>1. usedIdx - lastUsed = 0
      BY DEF ServiceInv, TypeInv
    <3>2. 0 % IdxMod = 0
      BY ConstantsAssumption DEF ConstantsAssumption
    <3>. QED
      BY <3>1, <3>2 DEF Untaken
  <2>. QED
    BY <2>1, Zenon DEF ServiceInv
<1>. QED
  BY <1>1, ServiceInvAlways, PTL

\* A device that was initialised again behind the driver's back writes nothing into the
\* rings until the driver sets it up.
THEOREM SilentAfterLossAlways == Spec => SilentAfterLoss
<1>1. ServiceInv /\ [Next]_vars => [lost /\ lost' /\ running' => UNCHANGED <<usedIdx, usedRing>>]_vars
  <2>. SUFFICES ASSUME ServiceInv, Next, lost, lost', running' PROVE UNCHANGED <<usedIdx, usedRing>>
    BY Zenon DEF vars
  <2>1. dpc \notin Notifying
    BY Zenon DEF ServiceInv, DeviceInv
  <2>2. ~driver_setup /\ ~driver_remove
    BY Zenon DEF driver_setup, driver_remove
  <2>3. ~add_used_elem /\ ~add_used_publish
    BY <2>1, Zenon DEF add_used_elem, add_used_publish, Notifying
  <2>. QED
    BY <2>2, <2>3, Zenon DEF Next, axi_connect, axi_close, Submit, driver_add, driver_publish, Kick, driver_kick,
       Interrupt, isr_enter, isr_status, isr_ack, isr_take, isr_done, Daemon, notify_queue, next_avail,
       notify_done, next_avail_head, process_chain, add_used_read, Failure, notify_fails, DaemonCrash,
       Disconnect, DaemonStart, memVars
<1>. QED
  BY <1>1, ServiceInvAlways, PTL DEF Spec, SilentAfterLoss

-----------------------------------------------------------------------------
(* Arithmetic of ring indices.                                             *)

\* A remainder is what is left over after a multiple.
LEMMA ModUnique ==
  ASSUME NEW n \in Nat \ {0}, NEW q \in Int, NEW r \in 0 .. n - 1
  PROVE  (n * q + r) % n = r
OBVIOUS

\* Quotient and remainder.
LEMMA DivMod ==
  ASSUME NEW n \in Nat \ {0}, NEW a \in Nat
  PROVE  /\ a \div n \in Nat
         /\ a % n \in 0 .. n - 1
         /\ a = n * (a \div n) + (a % n)
<1>1. a \div n \in Nat
  OBVIOUS
<1>2. a % n \in 0 .. n - 1
  OBVIOUS
<1>3. a = n * (a \div n) + (a % n)
  OBVIOUS
<1>. QED
  BY <1>1, <1>2, <1>3, Zenon

\* Remainders may be taken before or after an addition.
LEMMA ModAdd ==
  ASSUME NEW n \in Nat \ {0}, NEW a \in Nat, NEW b \in Nat
  PROVE  ((a % n) + b) % n = (a + b) % n
<1>1. PICK q \in Nat, s \in 0 .. n - 1 : a = n * q + s /\ s = a % n
  BY DivMod, Zenon
<1>2. s + b \in Nat
  OBVIOUS
<1>3. PICK p \in Nat, r \in 0 .. n - 1 : s + b = n * p + r /\ r = (s + b) % n
  BY <1>2, DivMod, Zenon
<1>4. n * (q + p) = n * q + n * p /\ n * q \in Nat /\ n * p \in Nat
  OBVIOUS
<1>5. a + b = n * (q + p) + r
  <2>1. a = n * q + s
    BY <1>1, Zenon
  <2>2. s + b = n * p + r
    BY <1>3, Zenon
  <2>. QED
    BY <1>4, <2>1, <2>2
<1>6. (n * (q + p) + r) % n = r
  BY ModUnique
<1>. QED
  BY <1>1, <1>3, <1>5, <1>6, Zenon

\* Numbers with the same remainder that are less than n apart are equal.
LEMMA ModClose ==
  ASSUME NEW n \in Nat \ {0}, NEW a \in Nat, NEW b \in Nat, a % n = b % n, a <= b, b < a + n
  PROVE  a = b
<1>1. PICK p \in Nat, s \in 0 .. n - 1 : a = n * p + s /\ s = a % n
  BY DivMod, Zenon
<1>2. PICK q \in Nat, r \in 0 .. n - 1 : b = n * q + r /\ r = b % n
  BY DivMod, Zenon
<1>3. r = s
  BY <1>1, <1>2, Zenon
<1>4. CASE p < q
  <2>1. n * p + n <= n * q /\ n * p \in Nat /\ n * q \in Nat
    BY <1>4
  <2>. QED
    BY <1>1, <1>2, <1>3, <2>1
<1>5. CASE q < p
  <2>1. n * q + n <= n * p /\ n * p \in Nat /\ n * q \in Nat
    BY <1>5
  <2>. QED
    BY <1>1, <1>2, <1>3, <2>1
<1>6. CASE p = q
  BY <1>1, <1>2, <1>3, <1>6, Zenon
<1>. QED
  BY <1>4, <1>5, <1>6

\* What the constants say about queue size and index width.
LEMMA Widths ==
  /\ QueueNum \in Nat \ {0} /\ IdxMod \in Nat \ {0} /\ QueueNum < IdxMod
  /\ IdxMod % QueueNum = 0
BY ConstantsAssumption DEF ConstantsAssumption

\* The slot of an index does not depend on the wrap of the index.
LEMMA SlotWrap ==
  ASSUME NEW a \in Nat, NEW b \in Nat
  PROVE  Slot((a % IdxMod) + b) = Slot(a + b)
<1>0. IdxMod \in Nat \ {0} /\ IdxMod \in Nat /\ QueueNum \in Nat \ {0} /\ IdxMod % QueueNum = 0
  BY Widths, Zenon
<1>1. PICK k \in Nat, s \in 0 .. IdxMod - 1 : a = IdxMod * k + s /\ s = a % IdxMod
  BY <1>0, DivMod, Zenon
<1>2. PICK w \in Nat, z \in 0 .. QueueNum - 1 : IdxMod = QueueNum * w + z /\ z = IdxMod % QueueNum
  BY <1>0, DivMod, Zenon
<1>3. IdxMod = QueueNum * w /\ s + b \in Nat
  <2>1. z = 0
    BY <1>0, <1>2, Zenon
  <2>2. IdxMod = QueueNum * w + 0
    BY <1>2, <2>1, Zenon
  <2>3. QueueNum * w \in Nat
    BY <1>0
  <2>. QED
    BY <1>0, <2>2, <2>3
<1>4. PICK m \in Nat : m = w * k
  OBVIOUS
<1>5. IdxMod * k = QueueNum * m /\ QueueNum * m \in Nat
  BY <1>0, <1>3, <1>4
<1>6. a + b = QueueNum * m + (s + b)
  BY <1>0, <1>1, <1>5
<1>7. (QueueNum * m) % QueueNum = 0
  <2>1. (QueueNum * m + 0) % QueueNum = 0
    BY <1>0, ModUnique
  <2>. QED
    BY <1>5, <2>1
<1>8. (((QueueNum * m) % QueueNum) + (s + b)) % QueueNum = (QueueNum * m + (s + b)) % QueueNum
  BY <1>0, <1>3, <1>5, ModAdd, Zenon
<1>9. (s + b) % QueueNum = (a + b) % QueueNum
  BY <1>3, <1>6, <1>7, <1>8
<1>. QED
  BY <1>1, <1>9, Zenon DEF Slot

\* Entries that are less than a queue apart have different slots.
LEMMA SlotApart ==
  ASSUME NEW l \in Nat, NEW a \in 0 .. QueueNum - 1, NEW b \in 0 .. QueueNum - 1,
         Slot(l + a) = Slot(l + b)
  PROVE  a = b
<1>1. QueueNum \in Nat \ {0} /\ l + a \in Nat /\ l + b \in Nat
  BY Widths
<1>2. (l + a) % QueueNum = (l + b) % QueueNum
  BY Zenon DEF Slot
<1>3. CASE a <= b
  <2>1. l + a <= l + b /\ l + b < (l + a) + QueueNum
    BY <1>1, <1>3
  <2>2. l + a = l + b
    BY <1>1, <1>2, <2>1, ModClose, Zenon
  <2>. QED
    BY <2>2
<1>4. CASE b <= a
  <2>1. l + b <= l + a /\ l + a < (l + b) + QueueNum
    BY <1>1, <1>4
  <2>2. l + b = l + a
    BY <1>1, <1>2, <2>1, ModClose, Zenon
  <2>. QED
    BY <2>2
<1>. QED
  BY <1>1, <1>3, <1>4

\* A slot is a head's number.
LEMMA SlotType == ASSUME NEW i \in Nat PROVE Slot(i) \in Heads
BY Widths DEF Slot, Heads

\* An index that is n entries ahead of another one is found to be so.
LEMMA Ahead ==
  ASSUME NEW l \in Indices, NEW n \in 0 .. IdxMod - 1
  PROVE  (((l + n) % IdxMod) - l) % IdxMod = n
<1>0. IdxMod \in Nat \ {0} /\ l \in 0 .. IdxMod - 1
  BY Widths, Zenon DEF Indices
<1>1. CASE l + n < IdxMod
  <2>1. (l + n) % IdxMod = l + n
    BY <1>0, <1>1
  <2>2. (l + n) - l = n /\ n % IdxMod = n
    BY <1>0
  <2>. QED
    BY <2>1, <2>2, Zenon
<1>2. CASE l + n >= IdxMod
  <2>1. l + n - IdxMod \in 0 .. IdxMod - 1 /\ l + n = IdxMod * 1 + (l + n - IdxMod)
    BY <1>0, <1>2
  <2>2. (l + n) % IdxMod = l + n - IdxMod
    BY <1>0, <2>1, ModUnique
  <2>3. (l + n - IdxMod) - l = IdxMod * (-1) + n
    BY <1>0
  <2>4. (IdxMod * (-1) + n) % IdxMod = n
    BY <1>0, ModUnique
  <2>. QED
    BY <2>2, <2>3, <2>4, Zenon
<1>. QED
  BY <1>0, <1>1, <1>2

\* The distance between two indices.
LEMMA Distance ==
  ASSUME NEW l \in Indices, NEW u \in Indices
  PROVE  /\ (u - l) % IdxMod \in 0 .. IdxMod - 1
         /\ u = (l + ((u - l) % IdxMod)) % IdxMod
<1>0. IdxMod \in Nat \ {0} /\ l \in 0 .. IdxMod - 1 /\ u \in 0 .. IdxMod - 1
  BY Widths, Zenon DEF Indices
<1>1. CASE l <= u
  <2>1. (u - l) % IdxMod = u - l
    BY <1>0, <1>1
  <2>2. l + (u - l) = u /\ u % IdxMod = u
    BY <1>0
  <2>. QED
    BY <1>0, <1>1, <2>1, <2>2
<1>2. CASE u < l
  <2>1. u - l = IdxMod * (-1) + (u - l + IdxMod) /\ u - l + IdxMod \in 0 .. IdxMod - 1
    BY <1>0, <1>2
  <2>2. (u - l) % IdxMod = u - l + IdxMod
    BY <1>0, <2>1, ModUnique
  <2>3. l + (u - l + IdxMod) = IdxMod * 1 + u
    BY <1>0
  <2>4. (IdxMod * 1 + u) % IdxMod = u
    BY <1>0, ModUnique
  <2>. QED
    BY <1>0, <2>1, <2>2, <2>3, <2>4, Zenon
<1>. QED
  BY <1>0, <1>1, <1>2

\* The successor of an index.
LEMMA Successor ==
  ASSUME NEW l \in Nat, NEW n \in Nat
  PROVE  /\ Inc(l) \in Indices
         /\ Inc((l + n) % IdxMod) = (l + (n + 1)) % IdxMod
         /\ (Inc(l) + n) % IdxMod = (l + (n + 1)) % IdxMod
<1>1. IdxMod \in Nat \ {0} /\ l + n \in Nat /\ l + 1 \in Nat
  BY Widths
<1>2. (((l + n) % IdxMod) + 1) % IdxMod = ((l + n) + 1) % IdxMod
  BY <1>1, ModAdd, Zenon
<1>3. (((l + 1) % IdxMod) + n) % IdxMod = ((l + 1) + n) % IdxMod
  BY <1>1, ModAdd, Zenon
<1>4. (l + n) + 1 = l + (n + 1) /\ (l + 1) + n = l + (n + 1)
  OBVIOUS
<1>5. (l + 1) % IdxMod \in 0 .. IdxMod - 1
  BY <1>1
<1>. QED
  BY <1>2, <1>3, <1>4, <1>5, Zenon DEF Inc, Indices

\* Heads that are all different are no more than the queue has.
LEMMA Pigeons ==
  ASSUME NEW s \in Seq(Heads), \A j, k \in DOMAIN s : s[j] = s[k] => j = k
  PROVE  Len(s) <= QueueNum
<1>1. Len(s) \in Nat /\ DOMAIN s = 1 .. Len(s) /\ s \in [1 .. Len(s) -> Heads]
  OBVIOUS
<1>2. IsFiniteSet(1 .. Len(s)) /\ Cardinality(1 .. Len(s)) = Len(s)
  BY <1>1, FS_Interval
<1>3. IsFiniteSet(Heads) /\ Cardinality(Heads) = QueueNum
  BY FS_Interval, Widths DEF Heads
<1>. SUFFICES ASSUME QueueNum < Len(s) PROVE FALSE
  BY <1>1, Widths
<1>4. PICK j, k \in 1 .. Len(s) : j # k /\ s[j] = s[k]
  BY <1>1, <1>2, <1>3, FS_PigeonHole
<1>. QED
  BY <1>1, <1>4, Zenon

-----------------------------------------------------------------------------
(* The rings.                                                              *)

\* The daemon has executed the request it is at work on and not completed it.
Executing == {"used", "id", "len", "idx"}

\* Types of what is in the rings, and of what the driver and the history know of it.
RingType ==
  /\ availIdx \in Indices /\ usedIdx \in Indices /\ lastUsed \in Indices
  /\ last_avail_idx \in Indices
  /\ availRing \in [Heads -> Heads]
  /\ usedRing \in [Heads -> [id : Heads, len : Heads]]
  /\ inflight \subseteq Heads
  /\ want \in [Threads -> Heads]
  /\ execs \in [Heads -> {0, 1}]
  /\ order \in Seq(Heads)

\* The outstanding requests are different heads that are in flight, and the available ring
\* has them, from the driver's place in the used ring on.
QueueInv ==
  /\ availIdx = (lastUsed + Len(order)) % IdxMod
  /\ Untaken <= Len(order)
  /\ \A j, k \in 1 .. Len(order) : order[j] = order[k] => j = k
  /\ \A k \in 1 .. Len(order) : order[k] \in inflight
  /\ \A k \in 1 .. Len(order) : availRing[Slot(lastUsed + (k - 1))] = order[k]
  /\ ~running => order = <<>> /\ inflight = {}

\* A thread that holds the queue's lock has put a new head after them.
PublishInv ==
  \A t \in Threads : pc[t] = "publish" =>
    /\ want[t] \in inflight
    /\ \A k \in 1 .. Len(order) : order[k] # want[t]
    /\ availRing[Slot(availIdx)] = want[t]
    /\ \A u \in Threads : pc[u] = "publish" => u = t

\* The daemon is at work on the oldest request that is not completed.
WorkInv ==
  /\ running /\ ~lost => last_avail_idx = usedIdx
  /\ dpc \in {"ring", "chain"} \cup Executing => Untaken < Len(order)
  /\ dpc \in {"chain"} \cup Executing => head = order[Untaken + 1]
  /\ dpc \in {"id", "len", "idx"} => used_idx = usedIdx
  /\ dpc \in {"len", "idx"} => usedRing[Slot(usedIdx)].id = head
  /\ dpc = "idx" => usedRing[Slot(usedIdx)].len = head

\* The used ring has the completions that the driver has not taken.
UsedInv ==
  \A k \in 1 .. Untaken :
    /\ usedRing[Slot(lastUsed + (k - 1))].id = order[k]
    /\ usedRing[Slot(lastUsed + (k - 1))].len = order[k]

\* The completed requests were executed, and at most one more, which was under way when
\* the connection was lost if it is not under way now.
ExecInv ==
  /\ \A k \in 1 .. Untaken : execs[order[k]] = 1
  /\ \A h \in Heads : execs[h] = 1 =>
       \E k \in 1 .. Len(order) : order[k] = h /\ k <= Untaken + 1
  /\ running /\ ~lost /\ dpc \notin Executing =>
       \A h \in Heads : execs[h] = 1 => \E k \in 1 .. Untaken : order[k] = h
  /\ dpc \in Executing => execs[head] = 1

RingInv == RingType /\ QueueInv /\ PublishInv /\ WorkInv /\ UsedInv /\ ExecInv

\* The rings have room, and the indices are as far apart as there are requests.
LEMMA RingFacts ==
  ASSUME RingInv
  PROVE  /\ Len(order) \in Nat /\ Len(order) <= QueueNum
         /\ Untaken \in Nat /\ Untaken <= Len(order)
         /\ \A k \in 1 .. Len(order) : order[k] \in Heads
         /\ DOMAIN order = 1 .. Len(order)
         /\ lastUsed \in Nat
<1>1. Len(order) \in Nat /\ DOMAIN order = 1 .. Len(order) /\ \A k \in 1 .. Len(order) : order[k] \in Heads
  BY DEF RingInv, RingType
<1>2. Len(order) <= QueueNum
  BY <1>1, Pigeons, Zenon DEF RingInv, RingType, QueueInv
<1>3. Untaken \in 0 .. IdxMod - 1
  <2>1. lastUsed \in Indices /\ usedIdx \in Indices
    BY Zenon DEF RingInv, RingType
  <2>2. (usedIdx - lastUsed) % IdxMod \in 0 .. IdxMod - 1
    BY <2>1, Distance, Zenon
  <2>. QED
    BY <2>2, Zenon DEF Untaken
<1>4. Untaken \in Nat
  BY <1>3, Widths
<1>5. lastUsed \in Nat
  BY Widths DEF RingInv, RingType, Indices
<1>. QED
  BY <1>1, <1>2, <1>4, <1>5, Zenon DEF RingInv, QueueInv

\* The used index is as far ahead of the driver as there are completions to take.
LEMMA RingUsed == ASSUME RingInv PROVE usedIdx = (lastUsed + Untaken) % IdxMod
<1>1. lastUsed \in Indices /\ usedIdx \in Indices
  BY Zenon DEF RingInv, RingType
<1>2. usedIdx = (lastUsed + ((usedIdx - lastUsed) % IdxMod)) % IdxMod
  BY <1>1, Distance, Zenon
<1>. QED
  BY <1>2, Zenon DEF Untaken

\* The slots that driver and daemon will fill next.
LEMMA RingSlots ==
  ASSUME RingInv
  PROVE  /\ Slot(availIdx) = Slot(lastUsed + Len(order))
         /\ Slot(usedIdx) = Slot(lastUsed + Untaken)
<1>1. ASSUME NEW i \in Nat PROVE Slot((lastUsed + i) % IdxMod) = Slot(lastUsed + i)
  <2>1. lastUsed + i \in Nat
    BY RingFacts
  <2>2. Slot(((lastUsed + i) % IdxMod) + 0) = Slot((lastUsed + i) + 0)
    BY <2>1, SlotWrap, Zenon
  <2>3. (lastUsed + i) + 0 = lastUsed + i /\ ((lastUsed + i) % IdxMod) + 0 = (lastUsed + i) % IdxMod
    BY <2>1, Widths
  <2>. QED
    BY <2>2, <2>3, Zenon
<1>2. availIdx = (lastUsed + Len(order)) % IdxMod /\ usedIdx = (lastUsed + Untaken) % IdxMod
  BY RingUsed, Zenon DEF RingInv, QueueInv
<1>3. Len(order) \in Nat /\ Untaken \in Nat
  BY RingFacts, Zenon
<1>. QED
  BY <1>1, <1>2, <1>3, Zenon

\* The rings before the driver is bound.
LEMMA RingInit == Init => RingInv
<1>. SUFFICES ASSUME Init PROVE RingInv
  BY Zenon
<1>1. 0 \in Indices /\ 0 \in Heads
  BY Widths DEF Indices, Heads
<1>2. RingType
  BY <1>1 DEF Init, RingType
<1>3. 0 % IdxMod = 0
  BY Widths
<1>4. Untaken = 0 /\ order = <<>> /\ Len(order) = 0
  BY <1>3 DEF Init, Untaken
<1>5. QueueInv
  BY <1>3, <1>4 DEF Init, QueueInv
<1>6. PublishInv /\ WorkInv /\ UsedInv /\ ExecInv
  BY <1>4 DEF Init, PublishInv, WorkInv, UsedInv, ExecInv, Executing
<1>. QED
  BY <1>2, <1>5, <1>6, Zenon DEF RingInv

\* A step that leaves the rings, and the driver's and the history's knowledge of them, alone.
LEMMA RingFrame ==
  ASSUME RingInv,
         UNCHANGED <<memVars, running, inflight, lastUsed, want, order, execs>>,
         last_avail_idx' \in Indices,
         \A t \in Threads : pc'[t] = "publish" => pc[t] = "publish",
         running' /\ ~lost' /\ dpc' \notin Executing => running /\ ~lost /\ dpc \notin Executing,
         dpc' \in Executing => execs[head'] = 1,
         WorkInv'
  PROVE  RingInv'
<1>1. UNCHANGED <<availIdx, usedIdx, availRing, usedRing>>
  BY Zenon DEF memVars
<1>2. Untaken' = Untaken
  BY <1>1, Zenon DEF Untaken
<1>3. RingType'
  BY <1>1, Zenon DEF RingInv, RingType
<1>4. QueueInv' /\ UsedInv'
  BY <1>1, <1>2, Zenon DEF RingInv, QueueInv, UsedInv
<1>5. PublishInv'
  BY <1>1, Zenon DEF RingInv, PublishInv
<1>6. ExecInv'
  BY <1>2, Zenon DEF RingInv, ExecInv
<1>. QED
  BY <1>3, <1>4, <1>5, <1>6, Zenon DEF RingInv

\* The connection comes and goes.
LEMMA RingConnection ==
  ASSUME RingInv, ServiceInv, ServiceInv',
         \/ axi_connect \/ axi_close \/ DaemonStart
         \/ \E l \in {"accept", "down"} : Disconnect(l)
  PROVE  RingInv'
<1>0. 0 \in Indices
  BY Widths DEF Indices
<1>1. CASE axi_close
  <2>1. UNCHANGED <<memVars, running, inflight, lastUsed, want, order, execs, pc, lost, dpc, head,
                    used_idx, last_avail_idx>>
    BY <1>1, Zenon DEF axi_close, driverVars, devVars, loopVars, history
  <2>2. WorkInv'
    BY <2>1, Zenon DEF RingInv, WorkInv, Untaken, memVars
  <2>3. last_avail_idx' \in Indices /\ (dpc' \in Executing => execs[head'] = 1)
    BY <2>1, Zenon DEF RingInv, RingType, ExecInv
  <2>. QED
    BY <2>1, <2>2, <2>3, RingFrame, Zenon
<1>2. CASE axi_connect \/ DaemonStart
  <2>1. /\ UNCHANGED <<memVars, running, inflight, lastUsed, want, order, execs, pc, lost>>
        /\ last_avail_idx' = 0 /\ dpc \in {"accept", "down"} /\ dpc' \in {"accept", "serve"}
    BY <1>2, Zenon DEF axi_connect, DaemonStart, virtio_device_reset, driverVars, history
  <2>2. ~(running /\ ~lost)
    BY <2>1, Zenon DEF ServiceInv, DeviceInv, Notifying
  <2>3. WorkInv'
    <3>1. dpc' \notin Notifying /\ ~(running' /\ ~lost')
      BY <2>1, <2>2, Zenon DEF Notifying
    <3>. QED
      BY <3>1, Zenon DEF WorkInv, Notifying, Executing
  <2>4. dpc' \notin Executing
    BY <2>1, Zenon DEF Executing
  <2>. QED
    BY <1>0, <2>1, <2>2, <2>3, <2>4, RingFrame, Zenon
<1>3. CASE \E l \in {"accept", "down"} : Disconnect(l)
  <2>1. /\ UNCHANGED <<memVars, running, inflight, lastUsed, want, order, execs, last_avail_idx>>
        /\ dpc' \in {"accept", "down"} /\ lost' = running
        /\ pc' = IF mmio = None THEN pc ELSE [pc EXCEPT ![mmio] = "idle"]
    BY <1>3, Zenon DEF Disconnect, devVars
  <2>2. \A t \in Threads : pc'[t] = "publish" => pc[t] = "publish"
    BY <2>1, Zenon DEF ServiceInv, TypeInv
  <2>3. WorkInv'
    <3>1. dpc' \notin Notifying /\ ~(running' /\ ~lost')
      BY <2>1, Zenon DEF Notifying
    <3>. QED
      BY <3>1, Zenon DEF WorkInv, Notifying, Executing
  <2>4. dpc' \notin Executing /\ last_avail_idx' \in Indices
    BY <2>1, Zenon DEF Executing, RingInv, RingType
  <2>. QED
    BY <2>1, <2>2, <2>3, <2>4, RingFrame, Zenon
<1>. QED
  BY <1>1, <1>2, <1>3, Zenon

\* The driver sets the queue up and tears it down.
LEMMA RingProbe ==
  ASSUME RingInv, ServiceInv, driver_setup \/ driver_remove
  PROVE  RingInv'
<1>0. 0 \in Indices /\ 0 % IdxMod = 0
  BY Widths DEF Indices
<1>1. /\ availIdx' = 0 /\ usedIdx' = 0 /\ lastUsed' = 0 /\ last_avail_idx' = 0
      /\ UNCHANGED <<availRing, usedRing, want, dpc, pc>> /\ dpc = "serve"
  BY Zenon DEF driver_setup, driver_remove, Served, virtio_device_reset, loopVars
<1>2. order' = <<>> /\ inflight' = {} /\ \A h \in Heads : execs'[h] = 0
  <2>1. CASE driver_remove
    BY <2>1, Zenon DEF driver_remove
  <2>2. CASE driver_setup
    <3>1. order = <<>> /\ inflight = {} /\ UNCHANGED <<order, inflight, execs>>
      BY <2>2, Zenon DEF driver_setup, RingInv, QueueInv
    <3>2. \A h \in Heads : execs[h] # 1
      BY <3>1 DEF RingInv, ExecInv
    <3>. QED
      BY <3>1, <3>2, Zenon DEF RingInv, RingType
  <2>. QED
    BY <2>1, <2>2, Zenon
<1>3. \A t \in Threads : pc[t] = "idle"
  BY Zenon DEF driver_setup, driver_remove, ServiceInv, WriteInv
<1>4. Untaken' = 0 /\ Len(order') = 0
  BY <1>0, <1>1, <1>2 DEF Untaken
<1>5. RingType'
  <2>1. execs' \in [Heads -> {0, 1}]
    BY Zenon DEF driver_setup, driver_remove, RingInv, RingType
  <2>. QED
    BY <1>0, <1>1, <1>2, <2>1 DEF RingInv, RingType
<1>6. QueueInv'
  BY <1>0, <1>1, <1>2, <1>4 DEF QueueInv
<1>7. PublishInv' /\ WorkInv' /\ UsedInv' /\ ExecInv'
  BY <1>1, <1>2, <1>3, <1>4 DEF PublishInv, WorkInv, UsedInv, ExecInv, Executing
<1>. QED
  BY <1>5, <1>6, <1>7, Zenon DEF RingInv

\* A thread publishes and kicks.
LEMMA RingSubmit ==
  ASSUME RingInv, ServiceInv, NEW t \in Threads,
         (\E h \in Heads : driver_add(t, h)) \/ driver_publish(t) \/ driver_kick(t)
  PROVE  RingInv'
<1>. DEFINE n == Len(order)
<1>0. /\ n \in Nat /\ n <= QueueNum /\ Untaken \in Nat /\ Untaken <= n
      /\ lastUsed \in Nat /\ QueueNum \in Nat \ {0} /\ QueueNum < IdxMod /\ IdxMod \in Nat
  BY RingFacts, Widths, Zenon
<1>s. order \in Seq(Heads)
  BY Zenon DEF RingInv, RingType
<1>p. pc \in [Threads -> {"idle", "publish", "kick", "wait"}]
  BY Zenon DEF ServiceInv, TypeInv
<1>1. CASE driver_kick(t)
  <2>1. /\ UNCHANGED <<memVars, running, inflight, lastUsed, want, order, execs, lost, dpc, head,
                       used_idx, last_avail_idx>>
        /\ \A u \in Threads : pc'[u] = "publish" => pc[u] = "publish"
    BY <1>p, <1>1, Zenon DEF driver_kick, devVars, loopVars, history
  <2>2. WorkInv'
    BY <2>1, Zenon DEF RingInv, WorkInv, Untaken, memVars
  <2>3. last_avail_idx' \in Indices /\ (dpc' \in Executing => execs[head'] = 1)
    BY <2>1, Zenon DEF RingInv, RingType, ExecInv
  <2>. QED
    BY <2>1, <2>2, <2>3, RingFrame, Zenon
<1>2. ASSUME NEW h \in Heads, driver_add(t, h) PROVE RingInv'
  <2>1. /\ UNCHANGED <<availIdx, usedIdx, usedRing, running, lastUsed, order, execs, lost, dpc, head,
                       used_idx, last_avail_idx>>
        /\ running /\ h \notin inflight /\ inflight' = inflight \cup {h}
        /\ availRing' = [availRing EXCEPT ![Slot(availIdx)] = h]
        /\ want' = [want EXCEPT ![t] = h] /\ pc' = [pc EXCEPT ![t] = "publish"]
        /\ \A u \in Threads : pc[u] # "publish"
    BY <1>2, Zenon DEF driver_add, devVars, loopVars, history
  <2>2. n < QueueNum
    <3>. DEFINE s == Append(order, h)
    <3>1. s \in Seq(Heads) /\ Len(s) = n + 1 /\ DOMAIN s = 1 .. n + 1
          /\ s[n + 1] = h /\ \A k \in 1 .. n : s[k] = order[k]
      BY <1>s
    <3>2. \A k \in 1 .. n : order[k] # h
      BY <2>1, Zenon DEF RingInv, QueueInv
    <3>. HIDE DEF s
    <3>3. \A j, k \in DOMAIN s : s[j] = s[k] => j = k
      <4>. SUFFICES ASSUME NEW j \in 1 .. n + 1, NEW k \in 1 .. n + 1, s[j] = s[k] PROVE j = k
        BY <3>1, Zenon
      <4>1. CASE j = n + 1 \/ k = n + 1
        BY <1>0, <3>1, <3>2, <4>1
      <4>2. CASE j \in 1 .. n /\ k \in 1 .. n
        BY <3>1, <4>2, Zenon DEF RingInv, QueueInv
      <4>. QED
        BY <1>0, <4>1, <4>2
    <3>4. Len(s) <= QueueNum
      BY <3>1, <3>3, Pigeons, Zenon
    <3>5. Len(s) = n + 1
      BY <3>1, Zenon
    <3>. QED
      BY <1>0, <3>4, <3>5
  <2>3. Slot(availIdx) = Slot(lastUsed + n)
    BY RingSlots, Zenon
  <2>4. Slot(availIdx) \in Heads
    BY <1>0, <2>3, SlotType
  <2>5. \A k \in 1 .. n : Slot(lastUsed + (k - 1)) # Slot(availIdx)
    <3>. SUFFICES ASSUME NEW k \in 1 .. n, Slot(lastUsed + (k - 1)) = Slot(lastUsed + n) PROVE FALSE
      BY <2>3, Zenon
    <3>1. k - 1 \in 0 .. QueueNum - 1 /\ n \in 0 .. QueueNum - 1
      BY <1>0, <2>2
    <3>2. k - 1 = n
      BY <1>0, <3>1, SlotApart, Zenon
    <3>. QED
      BY <1>0, <3>2
  <2>6. Untaken' = Untaken
    BY <2>1, Zenon DEF Untaken
  <2>7. RingType'
    BY <2>1, Zenon DEF RingInv, RingType
  <2>8. QueueInv'
    <3>1. \A k \in 1 .. n : availRing'[Slot(lastUsed + (k - 1))] = order[k]
      <4>1. \A k \in 1 .. n : Slot(lastUsed + (k - 1)) \in Heads
        BY <1>0, SlotType
      <4>. QED
        BY <2>1, <2>5, <4>1, Zenon DEF RingInv, RingType, QueueInv
    <3>. QED
      BY <2>1, <2>6, <3>1, Zenon DEF RingInv, QueueInv
  <2>9. PublishInv'
    <3>1. \A u \in Threads : pc'[u] = "publish" => u = t
      BY <1>p, <2>1, Zenon
    <3>2. want'[t] = h /\ availRing'[Slot(availIdx')] = h
      BY <2>1, <2>4, Zenon DEF RingInv, RingType
    <3>3. \A k \in 1 .. n : order[k] # h
      BY <2>1, Zenon DEF RingInv, QueueInv
    <3>. QED
      BY <2>1, <3>1, <3>2, <3>3 DEF PublishInv
  <2>10. WorkInv' /\ UsedInv' /\ ExecInv'
    BY <2>1, <2>6, Zenon DEF RingInv, WorkInv, UsedInv, ExecInv
  <2>. QED
    BY <2>7, <2>8, <2>9, <2>10, Zenon DEF RingInv
<1>3. CASE driver_publish(t)
  <2>1. /\ UNCHANGED <<availRing, usedIdx, usedRing, running, inflight, lastUsed, execs, lost, dpc, head,
                       used_idx, last_avail_idx>>
        /\ pc[t] = "publish" /\ pc' = [pc EXCEPT ![t] = "kick"]
        /\ availIdx' = Inc(availIdx) /\ order' = Append(order, want[t])
        /\ want' = [want EXCEPT ![t] = 0]
    BY <1>3, Zenon DEF driver_publish, isrVars, devVars, loopVars
  <2>. DEFINE h == want[t]
  <2>2. /\ h \in Heads /\ h \in inflight /\ availRing[Slot(availIdx)] = h
        /\ \A k \in 1 .. n : order[k] # h
        /\ \A u \in Threads : pc[u] = "publish" => u = t
    BY <2>1, Zenon DEF RingInv, RingType, PublishInv
  <2>. HIDE DEF h
  <2>3. /\ order' \in Seq(Heads) /\ Len(order') = n + 1 /\ order'[n + 1] = h
        /\ \A k \in 1 .. n : order'[k] = order[k]
    BY <1>s, <2>1, <2>2 DEF h
  <2>4. availIdx' = (lastUsed + (n + 1)) % IdxMod /\ availIdx' \in Indices
    <3>1. availIdx = (lastUsed + n) % IdxMod /\ availIdx \in Nat
      BY Widths DEF RingInv, QueueInv, RingType, Indices
    <3>. QED
      BY <1>0, <2>1, <3>1, Successor, Zenon
  <2>5. Slot(availIdx) = Slot(lastUsed + n)
    BY RingSlots, Zenon
  <2>6. Untaken' = Untaken
    BY <2>1, Zenon DEF Untaken
  <2>7. RingType'
    <3>1. 0 \in Heads
      BY Widths DEF Heads
    <3>. QED
      BY <2>1, <2>3, <2>4, <3>1, Zenon DEF RingInv, RingType
  <2>8. QueueInv'
    <3>1. \A j, k \in 1 .. n + 1 : order'[j] = order'[k] => j = k
      <4>. SUFFICES ASSUME NEW j \in 1 .. n + 1, NEW k \in 1 .. n + 1, order'[j] = order'[k] PROVE j = k
        BY Zenon
      <4>1. CASE j = n + 1 \/ k = n + 1
        BY <1>0, <2>2, <2>3, <4>1
      <4>2. CASE j \in 1 .. n /\ k \in 1 .. n
        BY <2>3, <4>2, Zenon DEF RingInv, QueueInv
      <4>. QED
        BY <1>0, <4>1, <4>2
    <3>2. \A k \in 1 .. n + 1 : order'[k] \in inflight
      BY <1>0, <2>2, <2>3 DEF RingInv, QueueInv
    <3>3. \A k \in 1 .. n + 1 : availRing[Slot(lastUsed + (k - 1))] = order'[k]
      <4>. SUFFICES ASSUME NEW k \in 1 .. n + 1 PROVE availRing[Slot(lastUsed + (k - 1))] = order'[k]
        BY Zenon
      <4>1. CASE k = n + 1
        <5>1. k - 1 = n
          BY <1>0, <4>1
        <5>. QED
          BY <2>2, <2>3, <2>5, <4>1, <5>1, Zenon
      <4>2. CASE k \in 1 .. n
        BY <2>3, <4>2, Zenon DEF RingInv, QueueInv
      <4>3. k = n + 1 \/ k \in 1 .. n
        BY <1>0
      <4>. QED
        BY <4>1, <4>2, <4>3, Zenon
    <3>4. Untaken' <= Len(order') /\ running
      <4>1. Len(order') = n + 1 /\ Untaken' = Untaken
        BY <2>3, <2>6, Zenon
      <4>2. running
        BY <2>1, Zenon DEF ServiceInv, WriteInv
      <4>. QED
        BY <1>0, <4>1, <4>2
    <3>. QED
      BY <2>1, <2>3, <2>4, <3>1, <3>2, <3>3, <3>4, Zenon DEF QueueInv
  <2>9. PublishInv'
    BY <1>p, <2>1, <2>2, Zenon DEF PublishInv
  <2>10. WorkInv'
    <3>1. Untaken < n => Untaken < Len(order') /\ order'[Untaken + 1] = order[Untaken + 1]
      BY <1>0, <2>3
    <3>. QED
      BY <2>1, <2>6, <3>1, Zenon DEF RingInv, WorkInv
  <2>11. UsedInv'
    <3>1. \A k \in 1 .. Untaken : order'[k] = order[k]
      BY <1>0, <2>3
    <3>. QED
      BY <2>1, <2>6, <3>1, Zenon DEF RingInv, UsedInv
  <2>12. ExecInv'
    <3>1. \A k \in 1 .. Untaken : order'[k] = order[k]
      BY <1>0, <2>3
    <3>2. \A g \in Heads : execs[g] = 1 => \E k \in 1 .. n + 1 : order'[k] = g /\ k <= Untaken + 1
      BY <1>0, <2>3 DEF RingInv, ExecInv
    <3>3. \A k \in 1 .. Untaken : execs[order'[k]] = 1
      BY <3>1, Zenon DEF RingInv, ExecInv
    <3>4. running /\ ~lost /\ dpc \notin Executing =>
            \A g \in Heads : execs[g] = 1 => \E k \in 1 .. Untaken : order'[k] = g
      BY <3>1, Zenon DEF RingInv, ExecInv
    <3>5. dpc \in Executing => execs[head] = 1
      BY Zenon DEF RingInv, ExecInv
    <3>. QED
      BY <2>1, <2>3, <2>6, <3>2, <3>3, <3>4, <3>5, Zenon DEF ExecInv
  <2>. QED
    BY <2>7, <2>8, <2>9, <2>10, <2>11, <2>12, Zenon DEF RingInv
<1>. QED
  BY <1>1, <1>2, <1>3, Zenon

\* The interrupt handler takes the oldest completion.
LEMMA RingTake ==
  ASSUME RingInv, isr_take
  PROVE  /\ RingInv'
         /\ Untaken > 0 /\ Untaken' = Untaken - 1
         /\ order # <<>> /\ usedRing[Slot(lastUsed)].id = order[1]
<1>. DEFINE n == Len(order)
            u == Untaken
            l == lastUsed
<1>0. /\ n \in Nat /\ n <= QueueNum /\ u \in Nat /\ u <= n /\ l \in Nat
      /\ QueueNum \in Nat \ {0} /\ QueueNum < IdxMod /\ IdxMod \in Nat
      /\ \A k \in 1 .. n : order[k] \in Heads
  BY RingFacts, Widths, Zenon
<1>i. l \in Indices /\ usedIdx = (l + u) % IdxMod /\ availIdx = (l + n) % IdxMod
  BY RingUsed, Zenon DEF RingInv, RingType, QueueInv
<1>s. order \in Seq(Heads) /\ DOMAIN order = 1 .. n
  BY RingFacts, Zenon DEF RingInv, RingType
<1>1. /\ UNCHANGED <<availIdx, availRing, usedIdx, usedRing, running, pc, want, last_avail_idx, dpc, head,
                     used_idx, lost>>
      /\ lastUsed' = Inc(l) /\ l # usedIdx
      /\ \A t \in Threads : pc[t] # "publish"
      /\ inflight' = inflight \ {usedRing[Slot(l)].id}
      /\ execs' = [execs EXCEPT ![usedRing[Slot(l)].id] = 0]
      /\ order' = IF order = <<>> THEN order ELSE Tail(order)
  BY Zenon DEF isr_take, memVars, devVars, loopVars
<1>2. u > 0
  <2>. SUFFICES ASSUME u = 0 PROVE FALSE
    BY <1>0
  <2>1. l + 0 = l /\ l % IdxMod = l
    BY <1>0, <1>i, Widths DEF Indices
  <2>. QED
    BY <1>i, <1>1, <2>1, Zenon
<1>3. /\ order # <<>> /\ order' = Tail(order) /\ order' \in Seq(Heads) /\ Len(order') = n - 1
      /\ \A k \in 1 .. n - 1 : order'[k] = order[k + 1]
  <2>1. order # <<>>
    <3>1. n > 0
      BY <1>0, <1>2
    <3>. QED
      BY <3>1, <1>s
  <2>. QED
    BY <1>s, <1>1, <2>1
<1>. DEFINE h == order[1]
<1>4. usedRing[Slot(l)].id = h /\ h \in Heads
  <2>1. usedRing[Slot(l + (1 - 1))].id = order[1]
    BY <1>0, <1>2 DEF RingInv, UsedInv
  <2>2. l + (1 - 1) = l
    BY <1>0
  <2>. QED
    BY <1>0, <1>2, <2>1, <2>2
<1>5. \A k \in 2 .. n : order[k] # h
  BY <1>0, <1>2 DEF RingInv, QueueInv
<1>. HIDE DEF h
<1>6. Inc(l) \in Indices /\ \A i \in Nat : (Inc(l) + i) % IdxMod = (l + (i + 1)) % IdxMod
  BY <1>0, Successor, Zenon
<1>7. availIdx = (Inc(l) + (n - 1)) % IdxMod
  <2>1. n - 1 \in Nat /\ (n - 1) + 1 = n
    BY <1>0, <1>2
  <2>. QED
    BY <1>i, <1>6, <2>1, Zenon
<1>8. Untaken' = u - 1
  <2>1. u - 1 \in Nat /\ (u - 1) + 1 = u /\ u - 1 \in 0 .. IdxMod - 1
    BY <1>0, <1>2
  <2>2. usedIdx = (Inc(l) + (u - 1)) % IdxMod
    BY <1>i, <1>6, <2>1, Zenon
  <2>3. (((Inc(l) + (u - 1)) % IdxMod) - Inc(l)) % IdxMod = u - 1
    BY <1>6, <2>1, Ahead, Zenon
  <2>4. Untaken' = (usedIdx - Inc(l)) % IdxMod
    BY <1>1, Zenon DEF Untaken
  <2>. QED
    BY <2>2, <2>3, <2>4, Zenon
<1>9. \A k \in 1 .. n - 1 : Slot(Inc(l) + (k - 1)) = Slot(l + ((k + 1) - 1))
  <2>. SUFFICES ASSUME NEW k \in 1 .. n - 1 PROVE Slot(Inc(l) + (k - 1)) = Slot(l + ((k + 1) - 1))
    BY Zenon
  <2>1. l + 1 \in Nat /\ k - 1 \in Nat /\ (l + 1) + (k - 1) = l + ((k + 1) - 1)
    BY <1>0
  <2>2. Slot(((l + 1) % IdxMod) + (k - 1)) = Slot((l + 1) + (k - 1))
    BY <2>1, SlotWrap, Zenon
  <2>. QED
    BY <2>1, <2>2, Zenon DEF Inc
<1>. HIDE DEF u, l, n
<1>10. RingType'
  BY <1>1, <1>3, <1>4, <1>6, Zenon DEF RingInv, RingType
<1>11. QueueInv'
  <2>1. availIdx' = (lastUsed' + Len(order')) % IdxMod
    BY <1>1, <1>3, <1>7, Zenon
  <2>2. Untaken' <= Len(order')
    BY <1>0, <1>3, <1>8
  <2>3. \A j, k \in 1 .. Len(order') : order'[j] = order'[k] => j = k
    <3>. SUFFICES ASSUME NEW j \in 1 .. n - 1, NEW k \in 1 .. n - 1, order'[j] = order'[k] PROVE j = k
      BY <1>3, Zenon
    <3>1. j + 1 \in 1 .. n /\ k + 1 \in 1 .. n /\ order[j + 1] = order[k + 1]
      BY <1>0, <1>3
    <3>2. j + 1 = k + 1
      BY <3>1, Zenon DEF RingInv, QueueInv, n
    <3>. QED
      BY <3>2
  <2>4. \A k \in 1 .. Len(order') : order'[k] \in inflight'
    <3>. SUFFICES ASSUME NEW k \in 1 .. n - 1 PROVE order[k + 1] \in inflight /\ order[k + 1] # h
      BY <1>1, <1>3, <1>4, Zenon
    <3>1. k + 1 \in 2 .. n /\ k + 1 \in 1 .. n
      BY <1>0
    <3>. QED
      BY <1>5, <3>1, Zenon DEF RingInv, QueueInv, n
  <2>5. \A k \in 1 .. Len(order') : availRing'[Slot(lastUsed' + (k - 1))] = order'[k]
    <3>. SUFFICES ASSUME NEW k \in 1 .. n - 1 PROVE availRing[Slot(Inc(l) + (k - 1))] = order[k + 1]
      BY <1>1, <1>3, Zenon
    <3>1. k + 1 \in 1 .. n
      BY <1>0
    <3>2. availRing[Slot(l + ((k + 1) - 1))] = order[k + 1]
      BY <3>1, Zenon DEF RingInv, QueueInv, n, l
    <3>. QED
      BY <1>9, <3>2, Zenon
  <2>6. running'
    BY <1>1, <1>3, Zenon DEF RingInv, QueueInv
  <2>. QED
    BY <2>1, <2>2, <2>3, <2>4, <2>5, <2>6, Zenon DEF QueueInv
<1>12. PublishInv'
  BY <1>1, Zenon DEF PublishInv
<1>13. WorkInv'
  <2>1. u < n => Untaken' < Len(order') /\ order'[Untaken' + 1] = order[u + 1]
    <3>. SUFFICES ASSUME u < n PROVE u - 1 < n - 1 /\ order'[(u - 1) + 1] = order[u + 1]
      BY <1>3, <1>8, Zenon
    <3>1. u \in 1 .. n - 1 /\ (u - 1) + 1 = u
      BY <1>0, <1>2
    <3>. QED
      BY <1>0, <1>3, <3>1
  <2>. QED
    BY <1>1, <2>1, Zenon DEF RingInv, WorkInv, Executing, u, n
<1>14. UsedInv'
  <2>. SUFFICES ASSUME NEW k \in 1 .. u - 1
                PROVE  /\ usedRing[Slot(Inc(l) + (k - 1))].id = order'[k]
                       /\ usedRing[Slot(Inc(l) + (k - 1))].len = order'[k]
    BY <1>1, <1>8, Zenon DEF UsedInv
  <2>1. k \in 1 .. n - 1 /\ k + 1 \in 1 .. u
    BY <1>0
  <2>2. usedRing[Slot(l + ((k + 1) - 1))].id = order[k + 1] /\ usedRing[Slot(l + ((k + 1) - 1))].len = order[k + 1]
    BY <2>1, Zenon DEF RingInv, UsedInv, u, l
  <2>. QED
    BY <1>3, <1>9, <2>1, <2>2, Zenon
<1>15. ExecInv'
  <2>1. execs'[h] = 0 /\ \A g \in Heads : g # h => execs'[g] = execs[g]
    BY <1>1, <1>4, Zenon DEF RingInv, RingType
  <2>2. \A k \in 1 .. u - 1 : execs'[order'[k]] = 1
    <3>. SUFFICES ASSUME NEW k \in 1 .. u - 1 PROVE execs'[order[k + 1]] = 1
      BY <1>0, <1>3
    <3>1. k + 1 \in 2 .. n /\ k + 1 \in 1 .. u /\ order[k + 1] \in Heads
      BY <1>0
    <3>. QED
      <4>1. execs[order[k + 1]] = 1
        BY <3>1, Zenon DEF RingInv, ExecInv, u
      <4>. QED
        BY <1>5, <2>1, <3>1, <4>1, Zenon
  <2>3. \A g \in Heads, k \in 1 .. n : execs'[g] = 1 /\ order[k] = g =>
          k - 1 \in 1 .. n - 1 /\ order'[k - 1] = g
    <3>. SUFFICES ASSUME NEW g \in Heads, NEW k \in 1 .. n, execs'[g] = 1, order[k] = g
                  PROVE  k - 1 \in 1 .. n - 1 /\ order'[k - 1] = g
      BY Zenon
    <3>1. k # 1
      BY <2>1 DEF h
    <3>2. k - 1 \in 1 .. n - 1 /\ (k - 1) + 1 = k
      BY <1>0, <3>1
    <3>. QED
      BY <1>3, <3>2, Zenon
  <2>4. \A g \in Heads : execs'[g] = 1 => execs[g] = 1
    BY <2>1
  <2>5. \A g \in Heads : execs'[g] = 1 => \E k \in 1 .. Len(order') : order'[k] = g /\ k <= Untaken' + 1
    <3>. SUFFICES ASSUME NEW g \in Heads, execs'[g] = 1
                  PROVE  \E k \in 1 .. n - 1 : order'[k] = g /\ k <= (u - 1) + 1
      BY <1>3, <1>8, Zenon
    <3>1. PICK k \in 1 .. n : order[k] = g /\ k <= u + 1
      BY <2>4, Zenon DEF RingInv, ExecInv, u, n
    <3>. QED
      BY <1>0, <2>3, <3>1
  <2>6. running' /\ ~lost' /\ dpc' \notin Executing =>
          \A g \in Heads : execs'[g] = 1 => \E k \in 1 .. Untaken' : order'[k] = g
    <3>. SUFFICES ASSUME running, ~lost, dpc \notin Executing, NEW g \in Heads, execs'[g] = 1
                  PROVE  \E k \in 1 .. u - 1 : order'[k] = g
      BY <1>1, <1>8, Zenon
    <3>1. PICK k \in 1 .. u : order[k] = g
      BY <2>4, Zenon DEF RingInv, ExecInv, u
    <3>2. k \in 1 .. n
      BY <1>0
    <3>3. k - 1 \in 1 .. u - 1 /\ order'[k - 1] = g
      BY <1>0, <2>3, <3>1, <3>2
    <3>. QED
      BY <3>3, Zenon
  <2>7. dpc' \in Executing => execs'[head'] = 1
    <3>. SUFFICES ASSUME dpc \in Executing PROVE execs'[head] = 1
      BY <1>1, Zenon
    <3>1. u < n /\ head = order[u + 1]
      BY Zenon DEF RingInv, WorkInv, u, n
    <3>2. u + 1 \in 2 .. n /\ u + 1 \in 1 .. n
      BY <1>0, <1>2, <3>1
    <3>3. head # h /\ head \in Heads
      BY <1>0, <1>5, <3>1, <3>2, Zenon
    <3>. QED
      BY <2>1, <3>3, Zenon DEF RingInv, ExecInv
  <2>. QED
    BY <1>8, <2>2, <2>5, <2>6, <2>7, Zenon DEF ExecInv
<1>. QED
  BY <1>2, <1>3, <1>4, <1>8, <1>10, <1>11, <1>12, <1>13, <1>14, <1>15, Zenon DEF RingInv, u, l, h

\* The other steps of the interrupt handler.
LEMMA RingInterrupt ==
  ASSUME RingInv, isr_enter \/ isr_status \/ isr_ack \/ isr_done
  PROVE  RingInv'
<1>1. UNCHANGED <<memVars, running, inflight, lastUsed, want, order, execs, pc, lost, dpc, head,
                  used_idx, last_avail_idx>>
  BY Zenon DEF isr_enter, isr_status, isr_ack, isr_done, driverVars, devVars, loopVars, history
<1>2. WorkInv'
  BY <1>1, Zenon DEF RingInv, WorkInv, Untaken, memVars
<1>3. last_avail_idx' \in Indices /\ (dpc' \in Executing => execs[head'] = 1)
  BY <1>1, Zenon DEF RingInv, RingType, ExecInv
<1>. QED
  BY <1>1, <1>2, <1>3, RingFrame, Zenon

\* While the daemon serves a QUEUE_NOTIFY write the connection is there.
LEMMA ServiceRuns == ASSUME ServiceInv, dpc \in Notifying PROVE running /\ ~lost
<1>1. mmio # None /\ mmio \in Threads
  BY Zenon DEF ServiceInv, WriteInv, TypeInv
<1>2. pc[mmio] = "wait"
  BY <1>1, Zenon DEF ServiceInv, WriteInv
<1>. QED
  BY <1>1, <1>2, Zenon DEF ServiceInv, WriteInv, DeviceInv

\* The steps of the loop that only read.
LEMMA RingRead ==
  ASSUME ServiceInv, RingInv,
         notify_queue \/ next_avail \/ notify_done \/ next_avail_head \/ add_used_read
  PROVE  RingInv'
<1>1. /\ UNCHANGED <<memVars, running, inflight, lastUsed, want, order, execs, lost, last_avail_idx>>
      /\ UNCHANGED <<availIdx, usedIdx, availRing, usedRing>>
  BY Zenon DEF notify_queue, next_avail, notify_done, next_avail_head, add_used_read, devVars, history, memVars
<1>2. Untaken' = Untaken
  BY <1>1, Zenon DEF Untaken
<1>3. \A t \in Threads : pc'[t] = "publish" => pc[t] = "publish"
  BY Zenon DEF notify_queue, next_avail, notify_done, next_avail_head, add_used_read, Continue, EndWrite,
     ServiceInv, TypeInv
<1>4. last_avail_idx' \in Indices
  BY <1>1, Zenon DEF RingInv, RingType
<1>5. CASE notify_queue \/ notify_done
  <2>1. dpc \notin Executing /\ dpc' \in {"serve", "avail"}
    BY <1>5, Zenon DEF notify_queue, notify_done, Continue, EndWrite, Executing
  <2>2. WorkInv'
    BY <1>1, <2>1, Zenon DEF RingInv, WorkInv, Executing
  <2>3. dpc' \notin Executing
    BY <2>1, Zenon DEF Executing
  <2>. QED
    BY <1>1, <1>3, <1>4, <2>1, <2>2, <2>3, RingFrame, Zenon
<1>6. CASE next_avail
  <2>1. /\ dpc = "avail" /\ dpc' \in {"avail", "ring"}
        /\ dpc' = "ring" => availIdx # last_avail_idx
    BY <1>6, Zenon DEF next_avail, Continue, RingEmpty
  <2>2. last_avail_idx = usedIdx
    BY <2>1, ServiceRuns, Zenon DEF Notifying, RingInv, WorkInv
  <2>3. dpc' = "ring" => Untaken < Len(order)
    <3>. SUFFICES ASSUME availIdx # usedIdx PROVE Untaken < Len(order)
      BY <2>1, <2>2, Zenon
    <3>1. availIdx = (lastUsed + Len(order)) % IdxMod
      BY Zenon DEF RingInv, QueueInv
    <3>2. usedIdx = (lastUsed + Untaken) % IdxMod
      BY RingUsed, Zenon
    <3>3. Untaken # Len(order)
      BY <3>1, <3>2, Zenon
    <3>. QED
      BY <3>3, RingFacts
  <2>4. WorkInv'
    BY <1>1, <1>2, <2>1, <2>3, Zenon DEF RingInv, WorkInv, Executing
  <2>5. dpc \notin Executing /\ dpc' \notin Executing
    BY <2>1, Zenon DEF Executing
  <2>. QED
    BY <1>1, <1>3, <1>4, <2>4, <2>5, RingFrame, Zenon
<1>7. CASE next_avail_head
  <2>1. dpc = "ring" /\ dpc' = "chain" /\ head' = availRing[Slot(last_avail_idx)]
    BY <1>7, Zenon DEF next_avail_head, Continue
  <2>2. last_avail_idx = usedIdx /\ Untaken < Len(order)
    BY <2>1, ServiceRuns, Zenon DEF Notifying, RingInv, WorkInv
  <2>3. Untaken + 1 \in 1 .. Len(order) /\ lastUsed + ((Untaken + 1) - 1) = lastUsed + Untaken
    BY <2>2, RingFacts
  <2>4. availRing[Slot(lastUsed + ((Untaken + 1) - 1))] = order[Untaken + 1]
    BY <2>3, Zenon DEF RingInv, QueueInv
  <2>5. head' = order[Untaken + 1]
    BY <2>1, <2>2, <2>3, <2>4, RingSlots, Zenon
  <2>6. WorkInv'
    BY <1>1, <1>2, <2>1, <2>2, <2>5, Zenon DEF RingInv, WorkInv, Executing
  <2>7. dpc \notin Executing /\ dpc' \notin Executing
    BY <2>1, Zenon DEF Executing
  <2>. QED
    BY <1>1, <1>3, <1>4, <2>6, <2>7, RingFrame, Zenon
<1>8. CASE add_used_read
  <2>1. dpc = "used" /\ dpc' = "id" /\ used_idx' = usedIdx /\ head' = head
    BY <1>8, Zenon DEF add_used_read, Continue
  <2>2. WorkInv'
    BY <1>1, <1>2, <2>1, Zenon DEF RingInv, WorkInv, Executing
  <2>3. dpc \in Executing /\ dpc' \in Executing
    BY <2>1, Zenon DEF Executing
  <2>4. execs[head'] = 1
    BY <2>1, <2>3, Zenon DEF RingInv, ExecInv
  <2>. QED
    BY <1>1, <1>3, <1>4, <2>2, <2>3, <2>4, RingFrame, Zenon
<1>. QED
  BY <1>5, <1>6, <1>7, <1>8, Zenon

\* The request that the daemon executes was not executed before.
LEMMA FreshChain ==
  ASSUME ServiceInv, RingInv, dpc = "chain"
  PROVE  execs[head] = 0 /\ head \in Heads
<1>1. running /\ ~lost /\ dpc \notin Executing
  BY ServiceRuns, Zenon DEF Notifying, Executing
<1>2. Untaken < Len(order) /\ head = order[Untaken + 1]
  BY Zenon DEF RingInv, WorkInv
<1>3. Untaken + 1 \in 1 .. Len(order) /\ \A k \in 1 .. Untaken : k \in 1 .. Len(order) /\ k # Untaken + 1
  BY <1>2, RingFacts
<1>4. head \in Heads
  BY <1>2, <1>3, RingFacts, Zenon
<1>5. execs[head] # 1
  <2>. SUFFICES ASSUME execs[head] = 1 PROVE FALSE
    BY Zenon
  <2>1. PICK k \in 1 .. Untaken : order[k] = head
    BY <1>1, <1>4, Zenon DEF RingInv, ExecInv
  <2>. QED
    BY <1>2, <1>3, <2>1, Zenon DEF RingInv, QueueInv
<1>. QED
  BY <1>4, <1>5, Zenon DEF RingInv, RingType

\* The daemon executes a request.
LEMMA RingExecute == ASSUME ServiceInv, RingInv, process_chain PROVE RingInv'
<1>1. /\ dpc = "chain" /\ dpc' = "used"
      /\ execs' = [execs EXCEPT ![head] = IF @ < 2 THEN @ + 1 ELSE @]
      /\ UNCHANGED <<availIdx, usedIdx, availRing, usedRing, running, inflight, lastUsed, want, order, lost,
                     pc, last_avail_idx, head, used_idx>>
  BY Zenon DEF process_chain, Continue, memVars, devVars
<1>2. execs[head] = 0 /\ head \in Heads
  BY <1>1, FreshChain, Zenon
<1>3. execs' = [execs EXCEPT ![head] = 1]
  <2>1. execs' = [execs EXCEPT ![head] = IF execs[head] < 2 THEN execs[head] + 1 ELSE execs[head]]
    BY <1>1, Zenon
  <2>2. (IF execs[head] < 2 THEN execs[head] + 1 ELSE execs[head]) = 1
    BY <1>2
  <2>. QED
    BY <2>1, <2>2, Zenon
<1>4. execs'[head] = 1 /\ \A h \in Heads : h # head => execs'[h] = execs[h]
  BY <1>2, <1>3, Zenon DEF RingInv, RingType
<1>5. Untaken' = Untaken
  BY <1>1, Zenon DEF Untaken
<1>6. RingType'
  <2>1. execs' \in [Heads -> {0, 1}]
    BY <1>3, Zenon DEF RingInv, RingType
  <2>. QED
    BY <1>1, <2>1, Zenon DEF RingInv, RingType
<1>7. QueueInv' /\ UsedInv'
  BY <1>1, <1>5, Zenon DEF RingInv, QueueInv, UsedInv
<1>8. PublishInv'
  BY <1>1, Zenon DEF RingInv, PublishInv
<1>9. Untaken < Len(order) /\ head = order[Untaken + 1]
  BY <1>1, Zenon DEF RingInv, WorkInv
<1>10. WorkInv'
  BY <1>1, <1>5, <1>9, Zenon DEF RingInv, WorkInv, Executing
<1>11. ExecInv'
  <2>1. Untaken + 1 \in 1 .. Len(order) /\ Untaken + 1 <= Untaken + 1
        /\ \A k \in 1 .. Untaken : k \in 1 .. Len(order) /\ order[k] \in Heads
    BY <1>9, RingFacts
  <2>2. \A k \in 1 .. Untaken' : execs'[order'[k]] = 1
    BY <1>1, <1>4, <1>5, <2>1, Zenon DEF RingInv, ExecInv
  <2>3. \A h \in Heads : execs'[h] = 1 =>
          \E k \in 1 .. Len(order') : order'[k] = h /\ k <= Untaken' + 1
    <3>. SUFFICES ASSUME NEW h \in Heads, execs'[h] = 1
                  PROVE  \E k \in 1 .. Len(order) : order[k] = h /\ k <= Untaken + 1
      BY <1>1, <1>5, Zenon
    <3>1. CASE h = head
      BY <1>9, <2>1, <3>1, Zenon
    <3>2. CASE h # head
      BY <1>4, <3>2, Zenon DEF RingInv, ExecInv
    <3>. QED
      BY <3>1, <3>2, Zenon
  <2>4. dpc' \in Executing /\ execs'[head'] = 1
    BY <1>1, <1>4, Zenon DEF Executing
  <2>. QED
    BY <2>2, <2>3, <2>4, Zenon DEF ExecInv
<1>. QED
  BY <1>6, <1>7, <1>8, <1>10, <1>11, Zenon DEF RingInv

\* The daemon fills the used element of its request, which holds no completion.
LEMMA RingElement == ASSUME RingInv, add_used_elem PROVE RingInv'
<1>. DEFINE s == Slot(usedIdx)
<1>1. /\ UNCHANGED <<availIdx, usedIdx, availRing, running, inflight, lastUsed, want, order, lost, execs,
                     pc, last_avail_idx, head, used_idx>>
      /\ \/ dpc = "id" /\ dpc' = "len" /\ usedRing' = [usedRing EXCEPT ![Slot(used_idx)].id = head]
         \/ dpc = "len" /\ dpc' = "idx" /\ usedRing' = [usedRing EXCEPT ![Slot(used_idx)].len = head]
  BY Zenon DEF add_used_elem, UsedSlot, Continue, devVars, history
<1>2. Untaken < Len(order) /\ head = order[Untaken + 1] /\ used_idx = usedIdx
      /\ (dpc = "len" => usedRing[s].id = head)
  BY <1>1, Zenon DEF RingInv, WorkInv, Executing
<1>3. s \in Heads /\ s = Slot(lastUsed + Untaken) /\ head \in Heads
  <2>1. lastUsed + Untaken \in Nat /\ Untaken + 1 \in 1 .. Len(order)
    BY <1>2, RingFacts
  <2>. QED
    BY <1>2, <2>1, RingFacts, RingSlots, SlotType, Zenon
<1>4. Untaken' = Untaken
  BY <1>1, Zenon DEF Untaken
<1>5. \A k \in 1 .. Untaken : Slot(lastUsed + (k - 1)) # s /\ Slot(lastUsed + (k - 1)) \in Heads
  <2>. SUFFICES ASSUME NEW k \in 1 .. Untaken
                PROVE  Slot(lastUsed + (k - 1)) # s /\ Slot(lastUsed + (k - 1)) \in Heads
    BY Zenon
  <2>1. k - 1 \in 0 .. QueueNum - 1 /\ Untaken \in 0 .. QueueNum - 1 /\ k - 1 # Untaken
        /\ lastUsed \in Nat /\ lastUsed + (k - 1) \in Nat
    BY <1>2, RingFacts, Widths
  <2>. QED
    BY <1>3, <2>1, SlotApart, SlotType, Zenon
<1>. HIDE DEF s
<1>6. /\ usedRing' \in [Heads -> [id : Heads, len : Heads]]
      /\ \A i \in Heads : i # s => usedRing'[i] = usedRing[i]
      /\ usedRing'[s].id = head
      /\ dpc' = "idx" => usedRing'[s].len = head
  <2>0. usedRing \in [Heads -> [id : Heads, len : Heads]] /\ used_idx = usedIdx
    BY <1>2, Zenon DEF RingInv, RingType
  <2>1. CASE dpc = "id"
    <3>1. usedRing' = [usedRing EXCEPT ![s] = [usedRing[s] EXCEPT !.id = head]] /\ dpc' = "len"
      BY <1>1, <2>0, <2>1, Zenon DEF s
    <3>. QED
      BY <1>3, <2>0, <3>1
  <2>2. CASE dpc = "len"
    <3>1. usedRing' = [usedRing EXCEPT ![s] = [usedRing[s] EXCEPT !.len = head]] /\ usedRing[s].id = head
      BY <1>1, <1>2, <2>0, <2>2, Zenon DEF s
    <3>. QED
      BY <1>3, <2>0, <3>1, Zenon
  <2>. QED
    BY <1>1, <2>1, <2>2, Zenon
<1>7. RingType'
  BY <1>1, <1>6, Zenon DEF RingInv, RingType
<1>8. QueueInv'
  BY <1>1, <1>4, Zenon DEF RingInv, QueueInv
<1>9. PublishInv'
  BY <1>1, Zenon DEF RingInv, PublishInv
<1>10. WorkInv'
  BY <1>1, <1>2, <1>4, <1>6, Zenon DEF RingInv, WorkInv, Executing, s
<1>11. UsedInv'
  BY <1>1, <1>4, <1>5, <1>6, Zenon DEF RingInv, UsedInv
<1>12. dpc \in Executing /\ dpc' \in Executing
  BY <1>1, Zenon DEF Executing
<1>13. ExecInv'
  BY <1>1, <1>4, <1>12, Zenon DEF RingInv, ExecInv
<1>. QED
  BY <1>7, <1>8, <1>9, <1>10, <1>11, <1>13, Zenon DEF RingInv

\* The daemon completes its request.
LEMMA RingComplete ==
  ASSUME ServiceInv, RingInv, add_used_publish
  PROVE  RingInv' /\ Untaken' = Untaken + 1
<1>. DEFINE u == Untaken
            l == lastUsed
<1>1. /\ UNCHANGED <<availIdx, availRing, usedRing, running, inflight, lastUsed, want, order, lost, execs, pc>>
      /\ dpc = "idx" /\ dpc' = "avail"
      /\ usedIdx' = Inc(used_idx) /\ last_avail_idx' = Inc(last_avail_idx)
  BY Zenon DEF add_used_publish, Advance, Continue, history
<1>2. /\ running /\ ~lost /\ last_avail_idx = usedIdx /\ used_idx = usedIdx
      /\ u < Len(order) /\ head = order[u + 1] /\ execs[head] = 1
      /\ usedRing[Slot(usedIdx)].id = head /\ usedRing[Slot(usedIdx)].len = head
  BY <1>1, ServiceRuns, Zenon DEF Notifying, RingInv, WorkInv, ExecInv, Executing
<1>n. u \in Nat /\ l \in Nat /\ Len(order) \in Nat /\ Len(order) <= QueueNum
  BY RingFacts, Zenon
<1>3. u \in Nat /\ l \in Nat /\ u + 1 \in 0 .. IdxMod - 1 /\ u + 1 <= Len(order)
  <2>1. u < Len(order)
    BY <1>2, Zenon
  <2>. QED
    BY <1>n, <2>1, Widths
<1>i. l \in Indices /\ usedIdx = (l + u) % IdxMod
  BY RingUsed, Zenon DEF RingInv, RingType
<1>4. Slot(usedIdx) = Slot(l + u)
  BY RingSlots, Zenon
<1>5. usedIdx' = (l + (u + 1)) % IdxMod /\ usedIdx' \in Indices /\ last_avail_idx' = usedIdx'
  <2>1. Inc((l + u) % IdxMod) = (l + (u + 1)) % IdxMod
    BY <1>3, Successor, Zenon
  <2>2. usedIdx \in Nat
    BY Widths DEF RingInv, RingType, Indices
  <2>3. Inc(usedIdx) \in Indices
    BY <2>2, <1>3, Successor, Zenon
  <2>. QED
    BY <1>1, <1>2, <1>i, <2>1, <2>3, Zenon
<1>6. Untaken' = u + 1
  <2>1. (((l + (u + 1)) % IdxMod) - l) % IdxMod = u + 1
    BY <1>3, <1>i, Ahead, Zenon
  <2>2. Untaken' = (usedIdx' - l) % IdxMod
    BY <1>1, Zenon DEF Untaken
  <2>. QED
    BY <1>5, <2>1, <2>2, Zenon
<1>. HIDE DEF u, l
<1>7. RingType'
  BY <1>1, <1>5, Zenon DEF RingInv, RingType
<1>8. QueueInv'
  <2>1. Untaken' <= Len(order')
    BY <1>1, <1>3, <1>6, Zenon
  <2>. QED
    BY <1>1, <2>1, Zenon DEF RingInv, QueueInv
<1>9. PublishInv'
  BY <1>1, Zenon DEF RingInv, PublishInv
<1>10. WorkInv'
  BY <1>1, <1>5, Zenon DEF WorkInv, Executing
<1>11. UsedInv'
  <2>. SUFFICES ASSUME NEW k \in 1 .. u + 1
                PROVE  /\ usedRing[Slot(l + (k - 1))].id = order[k]
                       /\ usedRing[Slot(l + (k - 1))].len = order[k]
    BY <1>1, <1>6, Zenon DEF UsedInv, l
  <2>1. CASE k = u + 1
    <3>1. l + (k - 1) = l + u
      BY <1>3, <2>1
    <3>. QED
      BY <1>2, <1>4, <2>1, <3>1, Zenon
  <2>2. CASE k # u + 1
    <3>1. k \in 1 .. u
      BY <1>3, <2>2
    <3>. QED
      BY <3>1, Zenon DEF RingInv, UsedInv, u, l
  <2>. QED
    BY <2>1, <2>2, Zenon
<1>12. ExecInv'
  <2>1. \A k \in 1 .. u + 1 : execs[order[k]] = 1
    <3>. SUFFICES ASSUME NEW k \in 1 .. u + 1 PROVE execs[order[k]] = 1
      BY Zenon
    <3>1. k = u + 1 \/ k \in 1 .. u
      BY <1>3
    <3>. QED
      BY <1>2, <3>1, Zenon DEF RingInv, ExecInv, u
  <2>2. \A h \in Heads : execs[h] = 1 => \E k \in 1 .. u + 1 : order[k] = h
    <3>. SUFFICES ASSUME NEW h \in Heads, execs[h] = 1 PROVE \E k \in 1 .. u + 1 : order[k] = h
      BY Zenon
    <3>1. PICK k \in 1 .. Len(order) : order[k] = h /\ k <= u + 1
      BY Zenon DEF RingInv, ExecInv, u
    <3>2. k \in 1 .. u + 1
      BY <1>3, <3>1
    <3>. QED
      BY <3>1, <3>2, Zenon
  <2>3. \A k \in 1 .. u + 1 : k \in 1 .. Len(order) /\ k <= (u + 1) + 1
    BY <1>2, <1>3
  <2>4. dpc' \notin Executing
    BY <1>1, Zenon DEF Executing
  <2>5. \A h \in Heads : execs[h] = 1 => \E k \in 1 .. Len(order) : order[k] = h /\ k <= (u + 1) + 1
    BY <2>2, <2>3, Zenon
  <2>. QED
    BY <1>1, <1>6, <2>1, <2>2, <2>4, <2>5, Zenon DEF ExecInv
<1>. QED
  BY <1>6, <1>7, <1>8, <1>9, <1>10, <1>11, <1>12, Zenon DEF RingInv, u

\* RingInv is preserved by every step.
LEMMA RingStep == ServiceInv /\ ServiceInv' /\ RingInv /\ [Next]_vars => RingInv'
<1>. SUFFICES ASSUME ServiceInv, ServiceInv', RingInv, [Next]_vars PROVE RingInv'
  BY Zenon
<1>1. CASE notify_fails \/ DaemonCrash
  BY <1>1, RingConnection, Zenon DEF notify_fails, DaemonCrash
<1>2. CASE Daemon
  BY <1>2, RingRead, RingExecute, RingElement, RingComplete, Zenon DEF Daemon
<1>3. CASE Interrupt
  BY <1>3, RingInterrupt, RingTake, Zenon DEF Interrupt
<1>4. CASE UNCHANGED vars
  <2>1. UNCHANGED <<memVars, running, inflight, lastUsed, want, order, execs, pc, lost, dpc, head,
                    used_idx, last_avail_idx>>
    BY <1>4, Zenon DEF vars, driverVars, devVars, loopVars, history
  <2>2. WorkInv'
    BY <2>1, Zenon DEF RingInv, WorkInv, Untaken, memVars
  <2>3. last_avail_idx' \in Indices /\ (dpc' \in Executing => execs[head'] = 1)
    BY <2>1, Zenon DEF RingInv, RingType, ExecInv
  <2>. QED
    BY <2>1, <2>2, <2>3, RingFrame, Zenon
<1>. QED
  BY <1>1, <1>2, <1>3, <1>4, RingConnection, RingProbe, RingSubmit, Zenon
  DEF Next, Submit, Kick, Failure

\* Both inductive invariants hold in every reachable state.
LEMMA RingInvAlways == Spec => []RingInv
<1>1. Init => ServiceInv /\ RingInv
  BY ServiceInit, RingInit, Zenon
<1>. QED
  BY <1>1, ServiceStep, RingStep, ServiceInvAlways, PTL DEF Spec

\* The driver finds the completions of its oldest requests, whole and in the order of
\* submission, for any queue size that divides the range of the indices.
THEOREM CompletionsInOrderAlways == Spec => []CompletionsInOrder
<1>1. RingInv => CompletionsInOrder
  <2>. SUFFICES ASSUME RingInv PROVE CompletionsInOrder
    BY Zenon
  <2>1. ASSUME NEW k \in 1 .. Untaken
        PROVE  /\ usedRing[Slot(lastUsed + k - 1)].id = order[k]
               /\ usedRing[Slot(lastUsed + k - 1)].len = order[k]
               /\ execs[order[k]] = 1
    <3>1. lastUsed + k - 1 = lastUsed + (k - 1)
      BY RingFacts, Zenon
    <3>. QED
      BY <3>1, Zenon DEF RingInv, UsedInv, ExecInv
  <2>. QED
    BY <2>1, Zenon DEF CompletionsInOrder, RingInv, QueueInv
<1>. QED
  BY <1>1, RingInvAlways, PTL

\* No request is executed twice, over any number of broken connections.
THEOREM ExecutedAtMostOnceAlways == Spec => []ExecutedAtMostOnce
<1>1. RingInv => ExecutedAtMostOnce
  BY DEF RingInv, RingType, ExecutedAtMostOnce
<1>. QED
  BY <1>1, RingInvAlways, PTL

-----------------------------------------------------------------------------
(* The refinement.                                                         *)

\* The requests that are executed can be counted.
LEMMA ExecutedFinite == IsFiniteSet(Executed) /\ Executed \subseteq Heads
<1>1. IsFiniteSet(Heads)
  <2>1. 0 \in Int /\ QueueNum - 1 \in Int
    BY Widths
  <2>. QED
    BY <2>1, FS_Interval, Zenon DEF Heads
<1>2. Executed \subseteq Heads
  BY Zenon DEF Executed
<1>. QED
  BY <1>1, <1>2, FS_Subset, Zenon

\* There are as many as the prefix of the queue that they are is long.
LEMMA ExecutedCount ==
  ASSUME RingInv, NEW m \in Nat, m <= Len(order),
         \A h \in Heads : execs[h] = 1 <=> \E k \in 1 .. m : order[k] = h
  PROVE  Cardinality(Executed) = m
<1>. DEFINE f == [k \in 1 .. m |-> order[k]]
<1>1. \A k \in 1 .. m : k \in 1 .. Len(order) /\ order[k] \in Heads
  BY RingFacts
<1>2. \A h \in Heads : h \in Executed <=> \E k \in 1 .. m : order[k] = h
  BY DEF Executed, RingInv, RingType
<1>3. f \in Bijection(1 .. m, Executed)
  <2>1. f \in [1 .. m -> Executed]
    BY <1>1, <1>2, Zenon
  <2>2. \A j, k \in 1 .. m : f[j] = f[k] => j = k
    BY <1>1, Zenon DEF RingInv, QueueInv
  <2>3. \A h \in Executed : \E k \in 1 .. m : f[k] = h
    BY <1>2, ExecutedFinite, Zenon
  <2>. QED
    BY <2>1, <2>2, <2>3, Zenon DEF Bijection, Injection, Surjection, IsInjective
<1>4. IsFiniteSet(1 .. m) /\ Cardinality(1 .. m) = m
  BY FS_Interval
<1>. QED
  BY <1>3, <1>4, FS_Bijection, Zenon DEF ExistsBijection

\* While the connection lasts: the completed requests are executed, and the one under way.
LEMMA ExecutedNow ==
  ASSUME ServiceInv, RingInv, running, ~lost
  PROVE  /\ dpc \notin Executing => Cardinality(Executed) = Untaken
         /\ dpc \in Executing => Cardinality(Executed) = Untaken + 1
<1>0. Untaken \in Nat /\ Untaken <= Len(order)
  BY RingFacts, Zenon
<1>1. CASE dpc \notin Executing
  <2>1. \A h \in Heads : execs[h] = 1 <=> \E k \in 1 .. Untaken : order[k] = h
    BY <1>1, Zenon DEF RingInv, ExecInv
  <2>. QED
    BY <1>0, <1>1, <2>1, ExecutedCount, Zenon
<1>2. CASE dpc \in Executing
  <2>1. Untaken < Len(order) /\ head = order[Untaken + 1] /\ execs[head] = 1
    BY <1>2, Zenon DEF RingInv, WorkInv, ExecInv
  <2>2. Untaken + 1 \in Nat /\ Untaken + 1 <= Len(order)
        /\ \A k \in 1 .. Untaken + 1 : k \in 1 .. Untaken \/ k = Untaken + 1
    BY <1>0, <2>1, RingFacts
  <2>3. \A h \in Heads : execs[h] = 1 => \E k \in 1 .. Untaken + 1 : order[k] = h
    <3>. SUFFICES ASSUME NEW h \in Heads, execs[h] = 1 PROVE \E k \in 1 .. Untaken + 1 : order[k] = h
      BY Zenon
    <3>1. PICK k \in 1 .. Len(order) : order[k] = h /\ k <= Untaken + 1
      BY Zenon DEF RingInv, ExecInv
    <3>2. k \in 1 .. Untaken + 1
      BY <1>0, <3>1
    <3>. QED
      BY <3>1, <3>2, Zenon
  <2>4. \A k \in 1 .. Untaken + 1 : execs[order[k]] = 1
    BY <2>1, <2>2, Zenon DEF RingInv, ExecInv
  <2>5. \A h \in Heads : execs[h] = 1 <=> \E k \in 1 .. Untaken + 1 : order[k] = h
    BY <2>3, <2>4, Zenon
  <2>. QED
    BY <1>2, <2>2, <2>5, ExecutedCount, Zenon
<1>. QED
  BY <1>1, <1>2, Zenon

\* Init.
LEMMA ServiceRefinesInit == ASSUME Init PROVE Service!Init
<1>1. RingInv
  BY RingInit, Zenon
<1>2. order = <<>> /\ Len(order) = 0 /\ ~running
  BY Zenon DEF Init
<1>3. Untaken = 0
  BY <1>1, <1>2, RingFacts
<1>4. Executed = {}
  BY DEF Init, Executed
<1>5. Cardinality(Executed) = 0
  BY <1>4, FS_EmptySet, Zenon
<1>6. (running /\ ~lost) = FALSE
  BY <1>2, Zenon
<1>. QED
  BY <1>2, <1>3, <1>5, <1>6, Zenon DEF Service!Init

\* Steps that the abstract service does not see.
LEMMA ServiceStutter ==
  ASSUME UNCHANGED <<order, execs, usedIdx, lastUsed, running, lost>>
  PROVE  UNCHANGED Service!vars
<1>1. Executed' = Executed /\ Untaken' = Untaken
  BY Zenon DEF Executed, Untaken
<1>. QED
  BY <1>1, Zenon DEF Service!vars

\* A driver that is bound or removed starts from nothing.
LEMMA ServiceReset ==
  ASSUME RingInv, RingInv', driver_setup \/ driver_remove
  PROVE  Service!Reset
<1>1. order' = <<>>
  BY Zenon DEF driver_setup, driver_remove, RingInv, QueueInv
<1>2. Untaken' = 0
  <2>1. usedIdx' = 0 /\ lastUsed' = 0 /\ 0 % IdxMod = 0
    BY Widths DEF driver_setup, driver_remove
  <2>. QED
    BY <2>1 DEF Untaken
<1>3. Executed' = {}
  <2>1. Len(order') = 0
    BY <1>1, Zenon
  <2>2. \A h \in Heads : execs'[h] # 1
    BY <2>1 DEF RingInv, ExecInv
  <2>. QED
    BY <2>2 DEF Executed, RingInv, RingType
<1>4. Cardinality(Executed') = 0
  BY <1>3, FS_EmptySet, Zenon
<1>5. (running' /\ ~lost') \in BOOLEAN
  BY Zenon
<1>. QED
  BY <1>1, <1>2, <1>4, <1>5, Zenon DEF Service!Reset

\* Publishing a request submits it.
LEMMA ServiceSubmit ==
  ASSUME RingInv, NEW t \in Threads, driver_publish(t)
  PROVE  \E h \in Heads : Service!Submit(h)
<1>1. /\ order' = Append(order, want[t]) /\ UNCHANGED <<execs, usedIdx, lastUsed, running, lost>>
      /\ \A k \in 1 .. Len(order) : order[k] # want[t]
      /\ want[t] \in Heads
  BY Zenon DEF driver_publish, RingInv, PublishInv, RingType
<1>2. Executed' = Executed /\ Untaken' = Untaken
  BY <1>1, Zenon DEF Executed, Untaken
<1>3. want[t] \notin Service!Outstanding
  BY <1>1, Zenon DEF Service!Outstanding
<1>4. (running' /\ ~lost') = (running /\ ~lost) /\ Cardinality(Executed') = Cardinality(Executed)
  BY <1>1, <1>2, Zenon
<1>5. Service!Submit(want[t])
  BY <1>1, <1>2, <1>3, <1>4, Zenon DEF Service!Submit
<1>. QED
  BY <1>1, <1>5, Zenon

\* A step of the daemon executes, completes, or is not seen.
LEMMA ServiceDaemon ==
  ASSUME ServiceInv, RingInv, Daemon
  PROVE  Service!Execute \/ Service!Complete \/ UNCHANGED Service!vars
<1>1. CASE process_chain
  <2>1. /\ dpc = "chain" /\ UNCHANGED <<usedIdx, lastUsed, running, lost, order>>
        /\ execs' = [execs EXCEPT ![head] = IF @ < 2 THEN @ + 1 ELSE @]
    BY <1>1, Zenon DEF process_chain, memVars
  <2>2. running /\ ~lost /\ dpc \notin Executing
    BY <2>1, ServiceRuns, Zenon DEF Notifying, Executing
  <2>3. Cardinality(Executed) = Untaken
    BY <2>2, ExecutedNow, Zenon
  <2>4. execs[head] = 0 /\ head \in Heads
    BY <2>1, FreshChain, Zenon
  <2>5. Executed' = Executed \cup {head} /\ head \notin Executed
    <3>1. execs'[head] = 1 /\ \A h \in Heads : h # head => execs'[h] = execs[h]
      BY <2>1, <2>4 DEF RingInv, RingType
    <3>. QED
      BY <2>4, <3>1 DEF Executed
  <2>6. Cardinality(Executed') = Cardinality(Executed) + 1
    BY <2>5, ExecutedFinite, FS_AddElement, Zenon
  <2>7. Untaken < Len(order) /\ Untaken' = Untaken
    BY <2>1, Zenon DEF RingInv, WorkInv, Untaken
  <2>. QED
    BY <2>1, <2>2, <2>3, <2>6, <2>7, Zenon DEF Service!Execute
<1>2. CASE add_used_publish
  <2>1. dpc = "idx" /\ UNCHANGED <<execs, lastUsed, running, lost, order>>
    BY <1>2, Zenon DEF add_used_publish, history
  <2>2. running /\ ~lost /\ dpc \in Executing
    BY <2>1, ServiceRuns, Zenon DEF Notifying, Executing
  <2>3. Cardinality(Executed) = Untaken + 1
    BY <2>2, ExecutedNow, Zenon
  <2>4. Untaken' = Untaken + 1 /\ Untaken \in Nat
    BY <1>2, RingComplete, RingFacts, Zenon
  <2>5. Executed' = Executed
    BY <2>1, Zenon DEF Executed
  <2>. QED
    BY <2>1, <2>2, <2>3, <2>4, <2>5 DEF Service!Complete
<1>3. CASE notify_queue \/ next_avail \/ notify_done \/ next_avail_head \/ add_used_read \/ add_used_elem
  <2>1. UNCHANGED <<order, execs, usedIdx, lastUsed, running, lost>>
    BY <1>3, Zenon DEF notify_queue, next_avail, notify_done, next_avail_head, add_used_read, add_used_elem,
       history, memVars
  <2>. QED
    BY <2>1, ServiceStutter, Zenon
<1>. QED
  BY <1>1, <1>2, <1>3, Zenon DEF Daemon

\* The driver takes the oldest completion.
LEMMA ServiceTake ==
  ASSUME RingInv, RingInv', isr_take
  PROVE  Service!Take
<1>0. Len(order) \in Nat /\ Untaken \in Nat /\ Untaken <= Len(order) /\ Untaken' = Untaken - 1
      /\ order # <<>> /\ Untaken > 0 /\ usedRing[Slot(lastUsed)].id = order[1]
  BY RingTake, RingFacts, Zenon
<1>1. order' = Tail(order) /\ execs' = [execs EXCEPT ![order[1]] = 0] /\ UNCHANGED <<running, lost>>
  BY <1>0, Zenon DEF isr_take
<1>2. order[1] \in Executed
  <2>1. 1 \in 1 .. Untaken /\ 1 \in 1 .. Len(order)
    BY <1>0
  <2>2. order[1] \in Heads /\ execs[order[1]] = 1
    BY <2>1, RingFacts, Zenon DEF RingInv, ExecInv
  <2>. QED
    BY <2>2 DEF Executed
<1>3. Executed' = Executed \ {order[1]}
  BY <1>1, <1>2 DEF Executed, RingInv, RingType
<1>4. Cardinality(Executed') = Cardinality(Executed) - 1
  BY <1>2, <1>3, ExecutedFinite, FS_RemoveElement, Zenon
<1>. QED
  BY <1>0, <1>1, <1>4, Zenon DEF Service!Take

\* Every step of the queue is a step of the abstract service, or not seen by it.
LEMMA ServiceRefinesNext ==
  ASSUME ServiceInv, RingInv, RingInv', [Next]_vars
  PROVE  [Service!Next]_Service!vars
<1>1. CASE driver_setup \/ driver_remove
  BY <1>1, ServiceReset, Zenon DEF Service!Next
<1>2. CASE Submit
  <2>1. CASE \E t \in Threads, h \in Heads : driver_add(t, h)
    <3>1. UNCHANGED <<order, execs, usedIdx, lastUsed, running, lost>>
      BY <2>1, Zenon DEF driver_add, history
    <3>. QED
      BY <3>1, ServiceStutter, Zenon
  <2>2. CASE \E t \in Threads : driver_publish(t)
    BY <2>2, ServiceSubmit, Zenon DEF Service!Next
  <2>. QED
    BY <1>2, <2>1, <2>2, Zenon DEF Submit
<1>3. CASE Daemon
  BY <1>3, ServiceDaemon, Zenon DEF Service!Next
<1>4. CASE isr_take
  BY <1>4, ServiceTake, Zenon DEF Service!Next
<1>5. CASE notify_fails \/ DaemonCrash
  <2>1. UNCHANGED <<order, execs, usedIdx, lastUsed, running>> /\ lost' = running
    BY <1>5, Zenon DEF notify_fails, DaemonCrash, Disconnect, memVars
  <2>2. Executed' = Executed /\ Untaken' = Untaken
    BY <2>1, Zenon DEF Executed, Untaken
  <2>3. (running' /\ ~lost') = FALSE /\ Cardinality(Executed') = Cardinality(Executed)
    BY <2>1, <2>2, Zenon
  <2>4. Service!Lose
    BY <2>1, <2>2, <2>3, Zenon DEF Service!Lose
  <2>. QED
    BY <2>4, Zenon DEF Service!Next
<1>6. CASE \/ axi_connect \/ axi_close \/ DaemonStart \/ Kick \/ isr_enter \/ isr_status \/ isr_ack
           \/ isr_done \/ UNCHANGED vars
  <2>1. UNCHANGED <<order, execs, usedIdx, lastUsed, running, lost>>
    BY <1>6, Zenon DEF axi_connect, axi_close, DaemonStart, Kick, driver_kick, isr_enter, isr_status, isr_ack,
       isr_done, vars, memVars, driverVars, history
  <2>. QED
    BY <2>1, ServiceStutter, Zenon
<1>. QED
  BY <1>1, <1>2, <1>3, <1>4, <1>5, <1>6, Zenon DEF Next, Interrupt, Failure

\* The queue, with its rings, threads, interrupts, broken connections and crashes, implements
\* the service that executes and completes requests one at a time, in order, at most once.
THEOREM ImplementsServiceAlways == Spec => ImplementsService
<1>1. Init => Service!Init
  BY ServiceRefinesInit, Zenon
<1>2. ServiceInv /\ RingInv /\ RingInv' /\ [Next]_vars => [Service!Next]_Service!vars
  BY ServiceRefinesNext, Zenon
<1>. QED
  BY <1>1, <1>2, ServiceInvAlways, RingInvAlways, PTL DEF Spec, ImplementsService, Service!Spec
=============================================================================

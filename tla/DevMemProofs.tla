---------------------------- MODULE DevMemProofs ----------------------------
(***************************************************************************)
(* Proofs about DevMem for any number of threads and any bound: a queue is *)
(* served with the addresses the driver gave, whatever the loads tear; and *)
(* no completion is left behind but by the two mishaps the model names.    *)
(***************************************************************************)
EXTENDS DevMem, TLAPS

\* The order of the scan.
LEMMA Offsets ==
  /\ write_offsets[1] = "QUEUE_READY" /\ write_offsets[2] = "QUEUE_ADDR"
  /\ write_offsets[3] = "QUEUE_NOTIFY" /\ write_offsets[4] = "INTERRUPT_ACK"
  /\ Len(write_offsets) = 4
BY DEF write_offsets

\* What distinguishes the registers' values.
LEMMA Values ==
  /\ Unread.lo = -1 /\ Unread.hi = -1
  /\ On.lo = 1 /\ On.hi = 0 /\ Off.lo = 0 /\ Off.hi = 0 /\ RingAddr.lo = 1 /\ RingAddr.hi = 1
  /\ On # Off
BY DEF Unread, On, Off, RingAddr, Word, Parts

\* They are values of registers.
LEMMA RegisterValues ==
  \A v \in {Unread, On, Off, RingAddr, QueueZero, DEVMEM_NOTIFY_IDLE} : v \in [Parts -> Int]
BY DEF Unread, On, Off, RingAddr, QueueZero, DEVMEM_NOTIFY_IDLE, Word, Parts

\* A register's value is the value of its parts.
LEMMA Halves ==
  ASSUME NEW v \in [Parts -> Int]
  PROVE  /\ v.lo = 1 /\ v.hi = 1 => v = RingAddr
         /\ v.lo = 1 /\ v.hi = 0 => v = On
         /\ v.lo = 0 /\ v.hi = 0 => v = Off
BY DEF RingAddr, On, Off, Word, Parts

-----------------------------------------------------------------------------
(* Configuration.                                                          *)

\* The driver's set-up, and what of it has reached the aperture: the address first.
ReadyWrite == [reg |-> "QUEUE_READY", val |-> On]
AddrWrite == [reg |-> "QUEUE_ADDR", val |-> RingAddr]
SetupInv ==
  /\ script \in {<<AddrWrite, ReadyWrite>>, <<ReadyWrite>>, <<>>}
  /\ window \in [Registers -> [Parts -> Int]]
  /\ script = <<AddrWrite, ReadyWrite>> => window["QUEUE_ADDR"] = Off
  /\ script # <<AddrWrite, ReadyWrite>> => window["QUEUE_ADDR"] = RingAddr
  /\ window["QUEUE_READY"] = IF script = <<>> THEN On ELSE Off

\* Where the daemon is in its scan.
ScanInv ==
  /\ at \in 0 .. 4
  /\ dpc \in {"load", "serve", "idle_lo", "idle_hi", "refresh", "stopped"}
  /\ dpc = "load" => at # 0
  /\ dpc \in {"serve", "idle_lo", "idle_hi"} => at = 3
  /\ dpc = "refresh" => at = 0 /\ value = Unread
  /\ value \in [Parts -> Int]

\* The device's queue, and what a scan in progress has loaded for it: a READY that is on
\* was loaded after the address was in the aperture, and the address is loaded after it.
QueueInv ==
  /\ shadow \in [Registers -> [Parts -> Int]]
  /\ queue \in [{"QUEUE_READY", "QUEUE_ADDR"} -> [Parts -> Int]]
  /\ \A r \in {"QUEUE_READY", "QUEUE_ADDR"} : shadow[r] = queue[r]
  /\ queue["QUEUE_READY"] # Off => script = <<>>
  /\ dpc = "load" /\ at = 1 => value.hi \in {-1, 0} /\ value.lo \in {-1, 0, 1} /\ (value.lo = 1 => script = <<>>)
  /\ queue["QUEUE_READY"] # Off =>
       /\ at = 2 => \A p \in Parts : value[p] \in {-1, 1}
       /\ at \in {0, 3, 4} => queue["QUEUE_ADDR"] = RingAddr
  /\ dpc = "serve" => queue["QUEUE_READY"] # Off

ConfigInv == SetupInv /\ ScanInv /\ QueueInv

\* Before the driver's first write.
LEMMA ConfigInit == Init => ConfigInv
<1>. SUFFICES ASSUME Init PROVE ConfigInv
  OBVIOUS
<1>1. window = [r \in Registers |-> IF r = "QUEUE_NOTIFY" THEN DEVMEM_NOTIFY_IDLE ELSE Off] /\ shadow = window
  BY DEF Init
<1>2. window \in [Registers -> [Parts -> Int]]
  BY <1>1, RegisterValues
<1>3. window["QUEUE_ADDR"] = Off /\ window["QUEUE_READY"] = Off
  BY <1>1 DEF Registers
<1>4. script = <<AddrWrite, ReadyWrite>> /\ script # <<>>
  BY DEF Init, AddrWrite, ReadyWrite
<1>5. SetupInv
  BY <1>2, <1>3, <1>4 DEF SetupInv
<1>6. ScanInv
  BY RegisterValues DEF Init, ScanInv
<1>7. QueueInv
  BY <1>1, <1>2, <1>3, RegisterValues, Values DEF Init, QueueInv
<1>. QED
  BY <1>5, <1>6, <1>7 DEF ConfigInv

\* The driver's set-up writes, and its other writes.
LEMMA SetupStep ==
  ASSUME SetupInv, Next
  PROVE  SetupInv' /\ (script = <<>> => script' = <<>>)
<1>1. CASE setup_write
  <2>0. window' = [window EXCEPT ![Head(script).reg] = Head(script).val] /\ script' = Tail(script) /\ script # <<>>
    BY <1>1 DEF setup_write
  <2>1. CASE script = <<AddrWrite, ReadyWrite>>
    <3>1. Head(script) = AddrWrite /\ script' = <<ReadyWrite>>
      BY <2>0, <2>1
    <3>2. window' = [window EXCEPT !["QUEUE_ADDR"] = RingAddr]
      <4>1. AddrWrite.reg = "QUEUE_ADDR" /\ AddrWrite.val = RingAddr
        BY DEF AddrWrite
      <4>. QED
        BY <2>0, <3>1, <4>1, Zenon
    <3>3. script' # script /\ script' # <<>> /\ script # <<>>
      BY <2>1, <3>1
    <3>. QED
      BY <2>1, <3>1, <3>2, <3>3, RegisterValues DEF SetupInv, Registers
  <2>2. CASE script = <<ReadyWrite>>
    <3>1. Head(script) = ReadyWrite /\ script' = <<>>
      BY <2>0, <2>2
    <3>2. window' = [window EXCEPT !["QUEUE_READY"] = On]
      <4>1. ReadyWrite.reg = "QUEUE_READY" /\ ReadyWrite.val = On
        BY DEF ReadyWrite
      <4>. QED
        BY <2>0, <3>1, <4>1, Zenon
    <3>3. <<ReadyWrite>> # <<AddrWrite, ReadyWrite>> /\ <<>> # <<AddrWrite, ReadyWrite>>
      OBVIOUS
    <3>4. window["QUEUE_ADDR"] = RingAddr
      BY <2>2, <3>3 DEF SetupInv
    <3>. QED
      BY <3>1, <3>2, <3>3, <3>4, RegisterValues DEF SetupInv, Registers
  <2>. QED
    BY <2>0, <2>1, <2>2, Zenon DEF SetupInv
<1>2. CASE ~setup_write
  <2>1. script' = script
    BY <1>2 DEF Next, Guest, Daemon, isr_status, isr_ack, isr_drain, submit, kick, load_le32, unchanged_register,
       queue_register, notify_register, process_one, notify_done, store_idle, ack_register, write_fails,
       refresh_read_registers, guestVars
  <2>2. /\ window' \in [Registers -> [Parts -> Int]]
        /\ window'["QUEUE_ADDR"] = window["QUEUE_ADDR"] /\ window'["QUEUE_READY"] = window["QUEUE_READY"]
    <3>. USE DEF SetupInv, Registers
    <3>1. ASSUME NEW t \in Threads, kick(t) PROVE <2>2!:
      BY <3>1, RegisterValues, Zenon DEF kick
    <3>2. CASE isr_ack
      BY <3>2, RegisterValues, Zenon DEF isr_ack
    <3>3. CASE store_idle
      BY <3>3 DEF store_idle, Parts
    <3>4. CASE ack_register
      <4>1. off = "INTERRUPT_ACK" /\ window' = [window EXCEPT !["INTERRUPT_ACK"] = Off]
        BY <3>4 DEF ack_register
      <4>. QED
        BY <4>1, RegisterValues, Zenon
    <3>5. CASE window' = window
      BY <3>5
    <3>6. \/ isr_ack \/ store_idle \/ ack_register \/ (\E t \in Threads : kick(t)) \/ window' = window
      BY <1>2 DEF Next, Guest, Daemon, isr_status, isr_drain, submit, load_le32, unchanged_register,
         queue_register, notify_register, process_one, notify_done, write_fails,
         refresh_read_registers, apertureVars
    <3>. QED
      BY <3>1, <3>2, <3>3, <3>4, <3>5, <3>6
  <2>. QED
    BY <2>1, <2>2 DEF SetupInv
<1>. QED
  BY <1>1, <1>2

\* A step outside the scan.
LEMMA ConfigFrame ==
  ASSUME ConfigInv, Next, UNCHANGED <<at, value, shadow, queue>>,
         dpc' = dpc \/ dpc' = "stopped" \/ (dpc' \in {"idle_lo", "idle_hi"} /\ at = 3)
  PROVE  ConfigInv'
<1>1. SetupInv' /\ (script = <<>> => script' = <<>>)
  BY SetupStep DEF ConfigInv
<1>2. ScanInv'
  BY DEF ConfigInv, ScanInv
<1>3. QueueInv'
  BY <1>1 DEF ConfigInv, QueueInv
<1>. QED
  BY <1>1, <1>2, <1>3 DEF ConfigInv

\* The scan goes on to the next register.
LEMMA ConfigNext ==
  ASSUME ConfigInv, Next, NextRegister, at # 0,
         shadow' \in [Registers -> [Parts -> Int]],
         queue' \in [{"QUEUE_READY", "QUEUE_ADDR"} -> [Parts -> Int]],
         \A r \in {"QUEUE_READY", "QUEUE_ADDR"} : shadow'[r] = queue'[r],
         queue'["QUEUE_READY"] # Off => script = <<>>,
         queue'["QUEUE_READY"] # Off /\ at # 1 => queue'["QUEUE_ADDR"] = RingAddr
  PROVE  ConfigInv'
<1>1. SetupInv' /\ (script = <<>> => script' = <<>>)
  BY SetupStep DEF ConfigInv
<1>2. /\ at \in 1 .. 4
      /\ at' = IF at = 4 THEN 0 ELSE at + 1
      /\ dpc' = IF at = 4 THEN "refresh" ELSE "load"
      /\ value' = Unread
  BY Offsets DEF NextRegister, ConfigInv, ScanInv
<1>3. ScanInv'
  BY <1>2, RegisterValues DEF ScanInv
<1>4. Unread \in [Parts -> Int] /\ \A p \in Parts : Unread[p] = -1
  BY RegisterValues DEF Unread, Word
<1>5. QueueInv'
  BY <1>1, <1>2, <1>4 DEF QueueInv
<1>. QED
  BY <1>1, <1>3, <1>5 DEF ConfigInv

\* A part of a register is loaded.
LEMMA ConfigLoad ==
  ASSUME ConfigInv, NEW p \in Parts, load_le32(p)
  PROVE  ConfigInv'
<1>0. Next
  BY DEF Next, Daemon
<1>1. SetupInv' /\ (script = <<>> => script' = <<>>)
  BY <1>0, SetupStep DEF ConfigInv
<1>2. /\ dpc = "load" /\ at \in 1 .. 4 /\ value' = [value EXCEPT ![p] = window[off][p]]
      /\ UNCHANGED <<at, dpc, shadow, queue, script, window>>
  BY DEF load_le32, guestVars, apertureVars, ConfigInv, ScanInv
<1>3. off \in Registers /\ window[off] \in [Parts -> Int]
  BY <1>2, Offsets DEF off, Registers, ConfigInv, SetupInv
<1>4. value \in [Parts -> Int] /\ value' \in [Parts -> Int]
  BY <1>2, <1>3 DEF ConfigInv, ScanInv
<1>5. ScanInv'
  BY <1>2, <1>4 DEF ConfigInv, ScanInv
<1>6. \A r \in Parts : value'[r] = IF r = p THEN window[off][r] ELSE value[r]
  BY <1>2, <1>4
<1>7. ASSUME at = 1
      PROVE  value'.hi \in {-1, 0} /\ value'.lo \in {-1, 0, 1} /\ (value'.lo = 1 => script = <<>>)
  <2>1. window[off] = IF script = <<>> THEN On ELSE Off
    BY <1>7, Offsets DEF off, ConfigInv, SetupInv
  <2>2. value.hi \in {-1, 0} /\ value.lo \in {-1, 0, 1} /\ (value.lo = 1 => script = <<>>)
    BY <1>2, <1>7 DEF ConfigInv, QueueInv
  <2>. QED
    BY <1>6, <2>1, <2>2, Values DEF Parts
<1>8. ASSUME at = 2, queue["QUEUE_READY"] # Off PROVE \A r \in Parts : value'[r] \in {-1, 1}
  <2>1. script = <<>> /\ \A r \in Parts : value[r] \in {-1, 1}
    BY <1>8 DEF ConfigInv, QueueInv
  <2>2. script # <<AddrWrite, ReadyWrite>>
    BY <2>1
  <2>3. window[off] = RingAddr
    BY <1>8, <2>2, Offsets DEF off, ConfigInv, SetupInv
  <2>. QED
    BY <1>6, <2>1, <2>3, Values DEF Parts
<1>9. QueueInv'
  BY <1>1, <1>2, <1>7, <1>8 DEF ConfigInv, QueueInv
<1>. QED
  BY <1>1, <1>5, <1>9 DEF ConfigInv

\* A register is loaded: what a set-up register was found to hold.
LEMMA ConfigLoaded ==
  ASSUME ConfigInv, Loaded
  PROVE  /\ at \in 1 .. 4 /\ dpc = "load"
         /\ at = 1 => value \in {On, Off} /\ (value = On => script = <<>>)
         /\ at = 2 /\ queue["QUEUE_READY"] # Off => value = RingAddr
<1>1. dpc = "load" /\ at \in 1 .. 4 /\ value \in [Parts -> Int] /\ value.lo # -1 /\ value.hi # -1
  BY Values DEF Loaded, ConfigInv, ScanInv, Parts
<1>2. ASSUME at = 1 PROVE value \in {On, Off} /\ (value = On => script = <<>>)
  <2>1. value.hi = 0 /\ value.lo \in {0, 1} /\ (value.lo = 1 => script = <<>>)
    BY <1>1, <1>2 DEF ConfigInv, QueueInv
  <2>. QED
    BY <1>1, <2>1, Halves, Values
<1>3. ASSUME at = 2, queue["QUEUE_READY"] # Off PROVE value = RingAddr
  <2>1. value.lo = 1 /\ value.hi = 1
    BY <1>1, <1>3 DEF ConfigInv, QueueInv, Parts
  <2>. QED
    BY <1>1, <2>1, Halves
<1>. QED
  BY <1>1, <1>2, <1>3

\* ConfigInv is inductive.
LEMMA ConfigStep ==
  ASSUME ConfigInv, [Next]_vars
  PROVE  ConfigInv'
<1>0. /\ shadow \in [Registers -> [Parts -> Int]] /\ value \in [Parts -> Int]
      /\ queue \in [{"QUEUE_READY", "QUEUE_ADDR"} -> [Parts -> Int]]
      /\ \A r \in {"QUEUE_READY", "QUEUE_ADDR"} : shadow[r] = queue[r]
      /\ queue["QUEUE_READY"] # Off => script = <<>>
  BY DEF ConfigInv, QueueInv, ScanInv
<1>1. CASE \E p \in Parts : load_le32(p)
  BY <1>1, ConfigLoad
<1>2. CASE unchanged_register
  <2>1. Loaded /\ NextRegister /\ value = shadow[off] /\ UNCHANGED <<shadow, queue>> /\ Next
    BY <1>2 DEF unchanged_register, Next, Daemon
  <2>2. at \in 1 .. 4
    BY <2>1, ConfigLoaded
  <2>3. queue["QUEUE_READY"] # Off /\ at # 1 => queue["QUEUE_ADDR"] = RingAddr
    <3>1. CASE at = 2
      <4>1. value = queue["QUEUE_ADDR"]
        BY <1>0, <2>1, <3>1, Offsets DEF off
      <4>. QED
        BY <2>1, <3>1, <4>1, ConfigLoaded
    <3>2. CASE at \in {3, 4}
      BY <3>2 DEF ConfigInv, QueueInv
    <3>. QED
      BY <2>2, <3>1, <3>2
  <2>. QED
    BY <1>0, <2>1, <2>2, <2>3, ConfigNext
<1>3. CASE queue_register
  <2>1. /\ Loaded /\ NextRegister /\ Next /\ off \in DOMAIN queue
        /\ shadow' = [shadow EXCEPT ![off] = value] /\ queue' = [queue EXCEPT ![off] = value]
    BY <1>3 DEF queue_register, Next, Daemon
  <2>2. off \in {"QUEUE_READY", "QUEUE_ADDR"} /\ off \in Registers
    BY <1>0, <2>1 DEF Registers
  <2>3. /\ shadow' \in [Registers -> [Parts -> Int]]
        /\ queue' \in [{"QUEUE_READY", "QUEUE_ADDR"} -> [Parts -> Int]]
        /\ \A r \in {"QUEUE_READY", "QUEUE_ADDR"} : shadow'[r] = queue'[r]
    BY <1>0, <2>1, <2>2 DEF Registers
  <2>4. at \in {1, 2}
    BY <2>1, <2>2, ConfigLoaded, Offsets DEF off
  <2>5. CASE at = 1
    <3>1. queue'["QUEUE_READY"] = value
      BY <1>0, <2>1, <2>5, Offsets DEF off
    <3>. QED
      BY <2>1, <2>3, <2>5, <3>1, ConfigLoaded, ConfigNext, Values
  <2>6. CASE at = 2
    <3>1. queue'["QUEUE_READY"] = queue["QUEUE_READY"] /\ queue'["QUEUE_ADDR"] = value
      BY <1>0, <2>1, <2>6, Offsets DEF off
    <3>. QED
      BY <1>0, <2>1, <2>3, <2>6, <3>1, ConfigLoaded, ConfigNext
  <2>. QED
    BY <2>4, <2>5, <2>6
<1>4. CASE notify_register
  <2>1. /\ Loaded /\ off = "QUEUE_NOTIFY" /\ shadow' = [shadow EXCEPT !["QUEUE_NOTIFY"] = value] /\ Next
        /\ UNCHANGED <<at, value, queue>>
        /\ dpc' = "idle_lo" \/ (dpc' = "serve" /\ queue["QUEUE_READY"] # Off)
    BY <1>4 DEF notify_register, Next, Daemon
  <2>2. at = 3
    BY <2>1, ConfigLoaded, Offsets DEF off
  <2>3. /\ shadow' \in [Registers -> [Parts -> Int]]
        /\ \A r \in {"QUEUE_READY", "QUEUE_ADDR"} : shadow'[r] = queue'[r]
    BY <1>0, <2>1 DEF Registers
  <2>4. SetupInv' /\ (script = <<>> => script' = <<>>)
    BY <2>1, SetupStep DEF ConfigInv
  <2>5. ScanInv'
    BY <2>1, <2>2 DEF ConfigInv, ScanInv
  <2>6. QueueInv'
    BY <2>1, <2>2, <2>3, <2>4 DEF ConfigInv, QueueInv
  <2>. QED
    BY <2>4, <2>5, <2>6 DEF ConfigInv
<1>5. CASE ack_register \/ (store_idle /\ dpc = "idle_hi")
  <2>1. /\ NextRegister /\ Next /\ queue' = queue
        /\ shadow' = shadow \/ shadow' = [shadow EXCEPT !["QUEUE_NOTIFY"] = DEVMEM_NOTIFY_IDLE]
    BY <1>5 DEF ack_register, store_idle, shadow_idle, Next, Daemon
  <2>2. at \in {3, 4}
    <3>1. CASE ack_register
      <4>1. Loaded /\ off = "INTERRUPT_ACK"
        BY <3>1 DEF ack_register
      <4>. QED
        BY <4>1, ConfigLoaded, Offsets DEF off
    <3>2. CASE dpc = "idle_hi"
      BY <3>2 DEF ConfigInv, ScanInv
    <3>. QED
      BY <1>5, <3>1, <3>2
  <2>3. /\ shadow' \in [Registers -> [Parts -> Int]]
        /\ \A r \in {"QUEUE_READY", "QUEUE_ADDR"} : shadow'[r] = queue'[r]
    BY <1>0, <2>1, RegisterValues DEF Registers
  <2>4. queue["QUEUE_READY"] # Off => queue["QUEUE_ADDR"] = RingAddr
    BY <2>2 DEF ConfigInv, QueueInv
  <2>. QED
    BY <1>0, <2>1, <2>2, <2>3, <2>4, ConfigNext
<1>6. CASE store_idle /\ dpc = "idle_lo"
  <2>1. UNCHANGED <<at, value, shadow, queue>> /\ dpc' = "idle_hi" /\ at = 3 /\ Next
    BY <1>6 DEF store_idle, Next, Daemon, ConfigInv, ScanInv
  <2>. QED
    BY <2>1, ConfigFrame
<1>7. CASE process_one \/ notify_done \/ write_fails
  <2>1. /\ UNCHANGED <<at, value, shadow, queue>> /\ Next
        /\ dpc' = dpc \/ dpc' = "stopped" \/ (dpc' = "idle_lo" /\ at = 3)
    BY <1>7 DEF process_one, notify_done, write_fails, Next, Daemon, ConfigInv, ScanInv
  <2>. QED
    BY <2>1, ConfigFrame
<1>8. CASE refresh_read_registers
  <2>1. at' = 1 /\ dpc' = "load" /\ value' = Unread /\ UNCHANGED <<shadow, queue>> /\ Next
    BY <1>8 DEF refresh_read_registers, Next, Daemon, ConfigInv, ScanInv
  <2>2. SetupInv' /\ (script = <<>> => script' = <<>>)
    BY <2>1, SetupStep DEF ConfigInv
  <2>3. ScanInv'
    BY <2>1, RegisterValues DEF ScanInv
  <2>4. QueueInv'
    BY <1>0, <2>1, <2>2, Values DEF QueueInv
  <2>. QED
    BY <2>2, <2>3, <2>4 DEF ConfigInv
<1>9. CASE isr_status \/ Guest \/ \E t \in Threads : submit(t)
  <2>1. UNCHANGED <<at, value, shadow, queue, dpc>> /\ Next
    BY <1>9 DEF isr_status, Guest, setup_write, isr_ack, isr_drain, submit, kick, daemonVars, Next
  <2>. QED
    BY <2>1, ConfigFrame
<1>10. CASE UNCHANGED vars
  <2>1. UNCHANGED <<script, window, at, dpc, value, shadow, queue>>
    BY <1>10 DEF vars, guestVars, apertureVars, daemonVars
  <2>. QED
    BY <2>1, Zenon DEF ConfigInv, SetupInv, ScanInv, QueueInv
<1>11. store_idle => dpc \in {"idle_lo", "idle_hi"}
  BY DEF store_idle
<1>. QED
  BY <1>1, <1>2, <1>3, <1>4, <1>5, <1>6, <1>7, <1>8, <1>9, <1>10, <1>11 DEF Next, Daemon

\* However the scan and the driver's set-up interleave, and whatever a load tears: the
\* device serves its queue only with the addresses the driver wrote.
THEOREM ServedConfiguredAlways == Spec => []ServedConfigured
<1>1. ConfigInv => ServedConfigured
  BY DEF ConfigInv, ScanInv, QueueInv, ServedConfigured
<1>. QED
  BY <1>1, ConfigInit, ConfigStep, PTL DEF Spec

-----------------------------------------------------------------------------
(* Completions.                                                            *)

\* A completion that is not taken has its interrupt, with its status, before it or behind
\* it, unless one of the two mishaps has happened.
TakeInv ==
  /\ used \in Nat /\ irq \in BOOLEAN /\ interrupt_status \in BOOLEAN
  /\ statusReg \in BOOLEAN /\ isrStatus \in BOOLEAN /\ used_any \in BOOLEAN
  /\ used_any => dpc \in {"serve", "stopped"}
  /\ used > 0 =>
       \/ mishaps \cap {"early", "cancelled"} # {}
       \/ used_any
       \/ isr = "drain"
       \/ isr = "ack" /\ isrStatus
       \/ irq /\ interrupt_status

\* A step that leaves completions, interrupt and handler alone.
LEMMA TakeFrame ==
  ASSUME TakeInv, UNCHANGED <<used, irq, interrupt_status, isrStatus, used_any, isr>>,
         statusReg' \in BOOLEAN, mishaps \subseteq mishaps',
         dpc' = dpc \/ dpc' = "stopped" \/ ~used_any
  PROVE  TakeInv'
<1>1. used_any' => dpc' \in {"serve", "stopped"}
  BY DEF TakeInv
<1>2. mishaps \cap {"early", "cancelled"} # {} => mishaps' \cap {"early", "cancelled"} # {}
  OBVIOUS
<1>. QED
  BY <1>1, <1>2 DEF TakeInv

\* TakeInv is inductive.
LEMMA TakeStep ==
  ASSUME TakeInv, [Next]_vars
  PROVE  TakeInv'
<1>0. /\ used \in Nat /\ irq \in BOOLEAN /\ interrupt_status \in BOOLEAN
      /\ statusReg \in BOOLEAN /\ isrStatus \in BOOLEAN /\ used_any \in BOOLEAN
      /\ used_any => dpc \in {"serve", "stopped"}
  BY DEF TakeInv
<1>1. CASE setup_write \/ (\E t \in Threads : submit(t) \/ kick(t)) \/ UNCHANGED vars
  <2>1. UNCHANGED <<used, irq, interrupt_status, isrStatus, used_any, isr, statusReg, mishaps, dpc>>
    BY <1>1 DEF setup_write, submit, kick, vars, guestVars, apertureVars, daemonVars
  <2>. QED
    BY <1>0, <2>1, TakeFrame
<1>2. CASE (\E p \in Parts : load_le32(p)) \/ unchanged_register \/ queue_register \/ refresh_read_registers
           \/ write_fails
  <2>1. /\ UNCHANGED <<used, irq, interrupt_status, isrStatus, used_any, isr>> /\ mishaps \subseteq mishaps'
        /\ statusReg' \in {statusReg, interrupt_status}
    BY <1>2 DEF load_le32, unchanged_register, queue_register, refresh_read_registers, write_fails, guestVars,
       apertureVars
  <2>2. dpc' = dpc \/ dpc' = "stopped" \/ dpc \notin {"serve", "stopped"}
    BY <1>2 DEF load_le32, unchanged_register, queue_register, refresh_read_registers, write_fails, Loaded
  <2>. QED
    BY <1>0, <2>1, <2>2, TakeFrame
<1>3. CASE store_idle
  <2>1. /\ UNCHANGED <<used, irq, interrupt_status, isrStatus, used_any, isr, statusReg>>
        /\ mishaps \subseteq mishaps' /\ dpc \notin {"serve", "stopped"}
    BY <1>3 DEF store_idle, guestVars
  <2>. QED
    BY <1>0, <2>1, TakeFrame
<1>4. CASE notify_register
  <2>1. /\ UNCHANGED <<used, interrupt_status, isrStatus, used_any, isr, statusReg, mishaps>> /\ dpc = "load"
        /\ irq' \in {irq, TRUE}
    BY <1>4, Zenon DEF notify_register, blkd_ack_notify, fabric_raise_irq, guestVars, Loaded
  <2>2. ~used_any
    BY <1>0, <2>1
  <2>. QED
    BY <1>0, <2>1, <2>2, Zenon DEF TakeInv
<1>5. CASE process_one
  <2>1. /\ UNCHANGED <<irq, interrupt_status, isrStatus, isr, statusReg, mishaps, dpc>> /\ dpc = "serve"
        /\ used' = used + 1 /\ used_any' = TRUE
    BY <1>5 DEF process_one, apertureVars
  <2>. QED
    BY <1>0, <2>1 DEF TakeInv
<1>6. CASE notify_done
  <2>1. /\ UNCHANGED <<used, isrStatus, isr, statusReg, mishaps>> /\ used_any' = FALSE
        /\ interrupt_status' = (interrupt_status \/ used_any)
    BY <1>6 DEF notify_done, guestVars
  <2>2. irq' = (irq \/ used_any \/ interrupt_status)
    BY <1>0, <1>6, Zenon DEF notify_done, blkd_ack_notify, fabric_raise_irq
  <2>. QED
    BY <1>0, <2>1, <2>2, Zenon DEF TakeInv
<1>7. CASE ack_register
  <2>1. /\ UNCHANGED <<used, irq, isrStatus, used_any, isr, statusReg>> /\ dpc = "load"
        /\ interrupt_status' = FALSE
        /\ mishaps' = mishaps \cup (IF used > 0 /\ irq THEN {"cancelled"} ELSE {})
    BY <1>7 DEF ack_register, guestVars, Loaded
  <2>2. ~used_any
    BY <1>0, <2>1
  <2>3. CASE used > 0 /\ irq
    <3>1. mishaps' \cap {"early", "cancelled"} # {}
      BY <2>1, <2>3
    <3>. QED
      BY <1>0, <2>1, <2>2, <3>1, Zenon DEF TakeInv
  <2>4. CASE ~(used > 0 /\ irq)
    <3>1. mishaps' = mishaps
      BY <2>1, <2>4
    <3>. QED
      BY <1>0, <2>1, <2>2, <2>4, <3>1, Zenon DEF TakeInv
  <2>. QED
    BY <2>3, <2>4
<1>8. CASE isr_status
  <2>1. /\ isr = "idle" /\ irq' = FALSE /\ isrStatus' = statusReg /\ isr' = "ack"
        /\ mishaps' = mishaps \cup (IF interrupt_status /\ ~statusReg THEN {"early"} ELSE {})
        /\ UNCHANGED <<used, interrupt_status, statusReg, used_any, dpc>>
    BY <1>8 DEF isr_status, daemonVars
  <2>2. CASE interrupt_status /\ ~statusReg
    <3>1. mishaps' \cap {"early", "cancelled"} # {}
      BY <2>1, <2>2
    <3>. QED
      BY <1>0, <2>1, <3>1, Zenon DEF TakeInv
  <2>3. CASE ~(interrupt_status /\ ~statusReg)
    <3>1. mishaps' = mishaps
      BY <2>1, <2>3
    <3>. QED
      BY <1>0, <2>1, <2>3, <3>1, Zenon DEF TakeInv
  <2>. QED
    BY <2>2, <2>3
<1>9. CASE isr_ack
  <2>1. /\ isr = "ack" /\ isr' = (IF isrStatus THEN "drain" ELSE "idle")
        /\ UNCHANGED <<used, irq, interrupt_status, isrStatus, statusReg, used_any, dpc, mishaps>>
    BY <1>9 DEF isr_ack, daemonVars
  <2>. QED
    BY <1>0, <2>1 DEF TakeInv
<1>10. CASE isr_drain
  <2>1. used' = 0 /\ UNCHANGED <<irq, interrupt_status, isrStatus, statusReg, used_any, dpc>>
    BY <1>10 DEF isr_drain, apertureVars, daemonVars
  <2>. QED
    BY <1>0, <2>1 DEF TakeInv
<1>. QED
  BY <1>1, <1>2, <1>3, <1>4, <1>5, <1>6, <1>7, <1>8, <1>9, <1>10 DEF Next, Guest, Daemon

\* A handler that finds no status and an INTERRUPT_ACK that clears a later status are the
\* only ways to leave a completion behind: with any number of threads and requests, and
\* whatever else the unsynchronised registers lose.
THEOREM TakenWhenQuietAlways == Spec => []TakenWhenQuiet
<1>1. Init => TakeInv
  <2>1. 0 \in Nat /\ ~(0 > 0)
    OBVIOUS
  <2>. QED
    BY <2>1, Zenon DEF Init, TakeInv
<1>2. TakeInv => TakenWhenQuiet
  <2>. SUFFICES ASSUME TakeInv, Quiet, mishaps \cap {"early", "cancelled"} = {} PROVE used = 0
    BY DEF TakenWhenQuiet
  <2>1. ~(used > 0) /\ used \in Nat
    BY DEF TakeInv, Quiet
  <2>. QED
    BY <2>1
<1>. QED
  BY <1>1, <1>2, TakeStep, PTL DEF Spec
=============================================================================

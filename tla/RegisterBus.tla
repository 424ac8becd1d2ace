----------------------------- MODULE RegisterBus -----------------------------
(***************************************************************************)
(* What the axi socket fabric promises to a guest and to a device: a       *)
(* register access is carried out at most once, while the guest waits for  *)
(* it; the device touches guest memory and its interrupt line only inside  *)
(* a register write; an access that returns was carried out, and one that  *)
(* is lost leaves a device that is reset before it carries out another.    *)
(***************************************************************************)
CONSTANTS
  Accesses,  \* register accesses: records with the operation and a value to write
  Values,    \* of the register and of guest memory
  Zero,      \* value of a register after a reset
  None       \* no access

VARIABLES
  access,    \* the access the guest is waiting for
  carried,   \* has it been carried out?
  taken,     \* what a read took from the register
  reg,       \* the device's register
  stale,     \* has an access been lost since the device was reset?
  mem, line, \* guest memory and the interrupt line
  result     \* what the last access returned

vars == <<access, carried, taken, reg, stale, mem, line, result>>

Init ==
  /\ access = None /\ ~carried /\ taken = Zero /\ reg = Zero /\ ~stale
  /\ mem \in Values /\ ~line /\ result = None

Start(a) ==
  /\ access = None /\ access' = a
  /\ UNCHANGED <<carried, taken, reg, stale, mem, line, result>>

\* A write sets the register, a read takes its value.
CarryOut ==
  /\ access # None /\ ~carried /\ ~stale
  /\ carried' = TRUE
  /\ IF access.op = "read" THEN taken' = reg /\ UNCHANGED reg
                          ELSE reg' = access.val /\ UNCHANGED taken
  /\ UNCHANGED <<access, stale, mem, line, result>>

\* What a device does during a write.
Reach ==
  /\ access # None /\ carried /\ access.op = "write"
  /\ mem' \in Values /\ line' \in BOOLEAN
  /\ UNCHANGED <<access, carried, taken, reg, stale, result>>

Return ==
  /\ access # None /\ carried
  /\ result' = IF access.op = "read" THEN taken ELSE access.val
  /\ access' = None /\ carried' = FALSE /\ taken' = Zero
  /\ UNCHANGED <<reg, stale, mem, line>>

\* The connection is lost, or there is none to be had; a read returns 0.
Lose ==
  /\ result' = Zero
  /\ access' = None /\ carried' = FALSE /\ taken' = Zero
  /\ stale' = TRUE
  /\ UNCHANGED <<reg, mem, line>>

Reset == reg' = Zero /\ stale' = FALSE /\ UNCHANGED <<access, carried, taken, mem, line, result>>

Next ==
  \/ \E a \in Accesses : Start(a)
  \/ CarryOut \/ Reach \/ Return \/ Lose \/ Reset

Spec == Init /\ [][Next]_vars
=============================================================================

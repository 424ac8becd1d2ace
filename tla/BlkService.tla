----------------------------- MODULE BlkService -----------------------------
(***************************************************************************)
(* What a virtio backend promises to the driver of one queue: requests are *)
(* executed one at a time, in the order of submission and at most once,    *)
(* and are completed in that order.  A device that loses its connection    *)
(* executes and completes nothing until the driver has reset it.           *)
(***************************************************************************)
EXTENDS Naturals, Sequences

CONSTANT Heads  \* descriptor chain heads, the names of outstanding requests

VARIABLES
  queue,  \* outstanding requests, oldest first
  nExec,  \* how many of them the device has executed
  nDone,  \* how many of them it has completed
  alive   \* is the device connected and set up?

vars == <<queue, nExec, nDone, alive>>

Outstanding == {queue[i] : i \in 1 .. Len(queue)}

Init == queue = <<>> /\ nExec = 0 /\ nDone = 0 /\ alive = FALSE

Reset == queue' = <<>> /\ nExec' = 0 /\ nDone' = 0 /\ alive' \in BOOLEAN

Submit(h) ==
  /\ h \notin Outstanding
  /\ queue' = Append(queue, h)
  /\ UNCHANGED <<nExec, nDone, alive>>

Execute ==
  /\ alive
  /\ nExec = nDone /\ nExec < Len(queue)
  /\ nExec' = nExec + 1
  /\ UNCHANGED <<queue, nDone, alive>>

Complete ==
  /\ alive
  /\ nDone < nExec
  /\ nDone' = nDone + 1
  /\ UNCHANGED <<queue, nExec, alive>>

Lose == alive' = FALSE /\ UNCHANGED <<queue, nExec, nDone>>

\* The driver takes the oldest completion.
Take ==
  /\ nDone > 0
  /\ queue' = Tail(queue)
  /\ nExec' = nExec - 1
  /\ nDone' = nDone - 1
  /\ UNCHANGED alive

Next ==
  \/ Reset
  \/ \E h \in Heads : Submit(h)
  \/ Execute
  \/ Complete
  \/ Lose
  \/ Take

Spec == Init /\ [][Next]_vars
=============================================================================

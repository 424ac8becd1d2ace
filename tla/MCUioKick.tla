------------------------------ MODULE MCUioKick ------------------------------
(* Small instances of UioKick for TLC. *)
EXTENDS UioKick, TLC

\* virtio-blk: every thread submits on queue 0.
BlkQueueOf == [t \in Threads |-> 0]

\* virtio-console: one thread fills the receive queue, the others transmit.
Receiver == CHOOSE t \in Threads : TRUE
ConsoleQueueOf == [t \in Threads |-> IF t = Receiver THEN 0 ELSE 1]

\* virtio-console as a console for kernel messages: every thread transmits.
AllTransmit == [t \in Threads |-> 1]

Symmetry == Permutations(Threads)
=============================================================================

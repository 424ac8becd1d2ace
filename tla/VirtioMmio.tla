------------------------------ MODULE VirtioMmio ------------------------------
(***************************************************************************)
(* The virtio-mmio transport of a daemon (virtio-mmio.c over the device    *)
(* state of virtio.c) as operators on a record.  A 64-bit field is written *)
(* through two 32-bit registers that do not disturb each other; the six    *)
(* address registers of a queue are alike and stand as one, QUEUE_ADDR.    *)
(* DRIVER_FEATURES keeps its two banks.                                    *)
(***************************************************************************)
EXTENDS Integers

CONSTANTS
  QueueCount,  \* queues of the device
  QueueSize,   \* its queue size
  Features     \* get_features: its low and its high feature bank

ASSUME DeviceAssumption == QueueCount \in Nat \ {0} /\ QueueSize \in Nat \ {0}

Queues == 0 .. QueueCount - 1
Banks == {0, 1}
QueueRegs == {"QUEUE_NUM", "QUEUE_ADDR", "QUEUE_READY"}

\* virtio_device_reset and virtio_mmio_reset.
ResetQueue == [r \in QueueRegs |-> IF r = "QUEUE_NUM" THEN QueueSize ELSE 0]
virtio_mmio_reset ==
  [device_features_sel |-> 0, driver_features_sel |-> 0, queue_sel |-> 0,
   driver_features |-> [b \in Banks |-> 0],
   queues |-> [q \in Queues |-> ResetQueue], status |-> {}]

\* Mutated form: the selected bank is ignored.
WriteFeatures_first(mmio, value) == [mmio EXCEPT !.driver_features[0] = value]

\* A bank number other than 0 and 1 selects nothing.
WriteFeatures(mmio, value) ==
  IF mmio.driver_features_sel \in Banks
    THEN [mmio EXCEPT !.driver_features[mmio.driver_features_sel] = value]
    ELSE mmio

\* So does a queue number beyond the last queue.
WriteQueue(mmio, off, value) ==
  IF mmio.queue_sel \in Queues
    THEN [mmio EXCEPT !.queues[mmio.queue_sel][off] = value]
    ELSE mmio

virtio_mmio_write(mmio, off, value) ==
  CASE off = "DEVICE_FEATURES_SEL" -> [mmio EXCEPT !.device_features_sel = value]
    [] off = "DRIVER_FEATURES_SEL" -> [mmio EXCEPT !.driver_features_sel = value]
    [] off = "DRIVER_FEATURES"     -> WriteFeatures(mmio, value)
    [] off = "QUEUE_SEL"           -> [mmio EXCEPT !.queue_sel = value]
    [] off \in QueueRegs           -> WriteQueue(mmio, off, value)
    [] off = "STATUS"              -> IF value = {} THEN virtio_mmio_reset
                                                    ELSE [mmio EXCEPT !.status = value]

virtio_mmio_read(mmio, off) ==
  CASE off = "DEVICE_FEATURES" ->
         Features[IF mmio.device_features_sel = 0 THEN 0 ELSE 1]
    [] off = "QUEUE_NUM_MAX" -> IF mmio.queue_sel \in Queues THEN QueueSize ELSE 0
    [] off = "STATUS" -> mmio.status
=============================================================================

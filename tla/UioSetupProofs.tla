--------------------------- MODULE UioSetupProofs ---------------------------
(***************************************************************************)
(* Proofs about the set-up path, for any number of queues, any queue size, *)
(* any feature banks and any number of reboots, at any access of the       *)
(* script: when notify_delay_us outlasts what the daemon has to do         *)
(* (Prompt), no probe fails, a ready queue has its driver's rings, and the *)
(* device has at the end of a probe the status and the queues the driver   *)
(* asked for.  It has its features too if the banks of the device differ   *)
(* and the session did not begin with an unfinished negotiation in the     *)
(* window (leftover).                                                      *)
(*                                                                         *)
(* The invariant follows the driver's script, whose accesses are numbered: *)
(* 1 to 16 reset the device and negotiate features, 17 + 6 * q and the     *)
(* five after it set queue q up, Up - 3 and Up - 2 write DRIVER_OK,        *)
(* Up - 1 resets, and Up + 3 * q and the two after it remove queue q.  The *)
(* window is a function of the access reached; shadow and device lag       *)
(* behind it by the registers that the scan under way has not come to.     *)
(***************************************************************************)
EXTENDS UioSetup, TLAPS

-----------------------------------------------------------------------------
(* The inductive invariant.                                                *)

\* The bits of STATUS, and those that are set while the queues are set up.
Bits == {"ACKNOWLEDGE", "DRIVER", "FEATURES_OK", "DRIVER_OK"}
Three == {"ACKNOWLEDGE", "DRIVER", "FEATURES_OK"}

\* The values of a feature bank.
Words == {0, Features[0], Features[1]}

\* The registers of write_offsets, which have a shadow, and all cells of the window.
Shadowed == {"DEVICE_FEATURES_SEL", "DRIVER_FEATURES", "DRIVER_FEATURES_SEL", "QUEUE_SEL",
             "QUEUE_NUM", "QUEUE_ADDR", "QUEUE_READY", "STATUS"}
Cells == Shadowed \cup {"DEVICE_FEATURES", "QUEUE_NUM_MAX"}

\* The last access of the script, the first one after the reset of remove, and the last
\* access reached with queue q still selected in the window.
LastStep == 19 + 9 * QueueCount
Up == 20 + 6 * QueueCount
Top(q) == IF q = QueueCount - 1 THEN Up ELSE 23 + 6 * q

\* The window w when the driver has reached access k: the registers for the features.
\* Until the driver writes them they are as the last driver left them, which l says
\* was in the middle of its negotiation.
SelectorsAt(w, k, l) ==
  /\ w["DEVICE_FEATURES_SEL"] \in (IF k \in {7, 8} THEN {1}
                                   ELSE IF k <= 6 /\ l THEN {0, 1} ELSE {0})
  /\ w["DRIVER_FEATURES_SEL"] \in (IF k \in {11, 12} THEN {1}
                                   ELSE IF k <= 10 /\ l THEN {0, 1} ELSE {0})
  /\ w["DRIVER_FEATURES"] \in (IF k >= 14 THEN {Features[0]} ELSE IF l THEN Words
                               ELSE IF k <= 11 THEN {0, Features[0]} ELSE {Features[1]})

\* STATUS.  At access 1 a rebooted guest may have left any value.
StatusAt(w, k) ==
  /\ w["STATUS"] \in SUBSET Bits
  /\ k \in 2 .. 3 => w["STATUS"] = {}
  /\ k \in 4 .. 5 => w["STATUS"] = {"ACKNOWLEDGE"}
  /\ k \in 6 .. 15 => w["STATUS"] = {"ACKNOWLEDGE", "DRIVER"}
  /\ k \in 16 .. Up - 2 => w["STATUS"] = Three
  /\ k = Up - 1 => w["STATUS"] = Bits
  /\ k >= Up => w["STATUS"] = {}

\* The registers of the queues, in session s.
QueueAt(w, k, s) ==
  /\ w["QUEUE_SEL"] \in Queues
  /\ w["QUEUE_NUM"] \in Nat /\ w["QUEUE_ADDR"] \in Nat /\ w["QUEUE_READY"] \in {0, 1}
  /\ \A q \in Queues : k \in 18 + 6 * q .. Top(q) =>
       /\ w["QUEUE_SEL"] = q
       /\ w["QUEUE_NUM"] = (IF k <= 20 + 6 * q THEN 0 ELSE QueueSize)
       /\ w["QUEUE_ADDR"] = (IF k <= 21 + 6 * q THEN 0 ELSE Ring(s, q))
       /\ w["QUEUE_READY"] = (IF k <= 22 + 6 * q THEN 0 ELSE 1)
  /\ k > Up => w["QUEUE_READY"] = 0

\* The whole window.
WindowAt(w, k, s, l) == SelectorsAt(w, k, l) /\ StatusAt(w, k) /\ QueueAt(w, k, s)

\* The accesses that write QUEUE_SEL, QUEUE_READY, and register r.  QUEUE_NUM and
\* QUEUE_ADDR may differ from their shadows at any time: under the barrier policy
\* nobody tells the daemon of their writes.
SelStep(k) == \E q \in Queues : k = 17 + 6 * q \/ k = Up + 3 * q
ReadyStep(k) == \E q \in Queues : k = 22 + 6 * q \/ k = Up + 1 + 3 * q
Writes(r, k) ==
  CASE r = "DEVICE_FEATURES_SEL" -> k \in {6, 8}
    [] r = "DRIVER_FEATURES"     -> k \in {11, 13}
    [] r = "DRIVER_FEATURES_SEL" -> k \in {10, 12}
    [] r = "QUEUE_SEL"           -> SelStep(k)
    [] r = "QUEUE_READY"         -> SelStep(k) \/ ReadyStep(k)
    [] r = "STATUS"              -> k \in {1, 3, 5, 15, Up - 2, Up - 1}
    [] OTHER -> TRUE

\* The place of register r in WriteOffsets.
Place(r) ==
  CASE r = "DEVICE_FEATURES_SEL" -> 1
    [] r = "DRIVER_FEATURES"     -> 2
    [] r = "DRIVER_FEATURES_SEL" -> 3
    [] r = "QUEUE_SEL"           -> 4
    [] r = "QUEUE_NUM"           -> 5
    [] r = "QUEUE_ADDR"          -> 6
    [] r = "QUEUE_READY"         -> 7
    [] r = "STATUS"              -> 8

\* The access the window has reached: one that waits for the daemon has been stored.
Reached == IF driver = "wait" THEN step + 1 ELSE step

\* How far the daemon has come with it: 0 before its scan, 13 after its refresh.
Pos == IF toBack > 0 \/ events > 0 THEN 0 ELSE IF at > 0 THEN at ELSE 13

\* The states of the daemon's device.
Device == [device_features_sel : Banks, driver_features_sel : Banks, queue_sel : Queues,
           driver_features : [Banks -> Words], queues : [Queues -> [QueueRegs -> Nat]],
           status : SUBSET Bits]

\* Types.  The driver has not failed, and at most one message of each kind is under way.
Types ==
  /\ barrier \in BOOLEAN /\ session \in {0, 1} /\ step \in 1 .. LastStep
  /\ got \in SUBSET Bits /\ offered \in [Banks -> Words] /\ driver \in {"run", "wait"}
  /\ leftover \in BOOLEAN
  /\ toBack \in {0, 1} /\ events \in {0, 1} /\ acks \in {0, 1}
  /\ at \in 0 .. 12 /\ reload \in 0 .. 3 /\ lower \in BOOLEAN
  /\ window = [c \in Cells |-> window[c]]
  /\ shadow = [c \in Shadowed |-> shadow[c]]
  /\ mmio \in Device

\* An access that waits has one wake-up, which is in one place at a time.
OneWakeup ==
  /\ driver = "run" => Settled
  /\ toBack = 1 => events = 0 /\ at = 0 /\ acks = 0
  /\ events = 1 => at = 0 /\ acks = 0
  /\ at > 0 => acks = 0
  /\ reload > 0 => at = 5 /\ SelStep(step)
  /\ lower => at > 8

\* What the driver has read is what its next writes need.
GuestKnows ==
  /\ step = 3 => got = {}
  /\ step = 5 => got = {"ACKNOWLEDGE"}
  /\ step = 15 => got = {"ACKNOWLEDGE", "DRIVER"}
  /\ step = Up - 2 => got = Three
  /\ step >= 8 /\ ~leftover => offered[1] = Features[1]
  /\ step >= 10 => offered[0] = Features[0]

\* A shadow differs from the window only for a register that the access under way
\* writes and the scan has not come to.
Synced ==
  /\ \A r \in Shadowed \ {"QUEUE_NUM", "QUEUE_ADDR"} :
       shadow[r] # window[r] => driver = "wait" /\ Pos <= Place(r) /\ Writes(r, step)
  /\ \A r \in {"QUEUE_NUM", "QUEUE_ADDR"} :
       driver = "wait" /\ Pos > Place(r) => shadow[r] = window[r]
  /\ Reached = 12 /\ Pos <= 2 /\ ~leftover => shadow["DRIVER_FEATURES"] \in {0, Features[0]}
  /\ Reached = 14 /\ Pos <= 2 /\ ~leftover => shadow["DRIVER_FEATURES"] = Features[1]

\* The device with access k reached and the scan at place p: status and selectors are
\* those of the shadow, except that a reset has cleared a selector which the shadow
\* still has from an unfinished negotiation; and a device that is reset has nothing else.
FollowsAt(k, p, l) ==
  /\ mmio.status = shadow["STATUS"]
  /\ k \in 5 .. Up - 1 => mmio.status # {}
  /\ \/ mmio.device_features_sel = shadow["DEVICE_FEATURES_SEL"]
     \/ l /\ mmio.device_features_sel = 0
  /\ \/ mmio.driver_features_sel = shadow["DRIVER_FEATURES_SEL"]
     \/ l /\ mmio.driver_features_sel = 0
  /\ mmio.queue_sel \in {0, shadow["QUEUE_SEL"]}
  /\ (k \in 19 .. Up \/ (k = 18 /\ p > 4)) /\ mmio.status # {} =>
       mmio.queue_sel = shadow["QUEUE_SEL"]
  /\ mmio.status = {} => /\ \A q \in Queues : mmio.queues[q]["QUEUE_READY"] = 0
                         /\ \A b \in Banks : mmio.driver_features[b] = 0

\* Its feature banks have been written up to access k.
BanksAt(k, p, l) ==
  ~l /\ k > 2 /\ mmio.status # {} =>
    /\ mmio.driver_features[1] = (IF k > 12 \/ (k = 12 /\ p > 2) THEN Features[1] ELSE 0)
    /\ mmio.driver_features[0] = (IF k > 14 \/ (k = 14 /\ p > 2) THEN Features[0] ELSE 0)

\* Queue q is ready no earlier than its driver made it so, with that driver's rings, and
\* no later than the scan after.  While the queue is set up, the shadows of its registers
\* are what the device has or still clear.
QueueFollows(q, k, p) ==
  /\ mmio.queues[q]["QUEUE_READY"] = 1 =>
       /\ k >= 23 + 6 * q
       /\ mmio.queues[q]["QUEUE_NUM"] = QueueSize
       /\ mmio.queues[q]["QUEUE_ADDR"] = Ring(session, q)
  /\ k > 23 + 6 * q \/ (k = 23 + 6 * q /\ p > 7) => mmio.queues[q]["QUEUE_READY"] = 1
  /\ \A r \in QueueRegs :
       k \in 18 + 6 * q .. Top(q) /\ (k > 18 + 6 * q \/ p > Place(r)) =>
         shadow[r] = 0 \/ shadow[r] = mmio.queues[q][r]

\* All queues do.
QueuesAt(k, p) == k > 2 /\ mmio.status # {} => \A q \in Queues : QueueFollows(q, k, p)

\* The refresh has brought the cells that the driver reads up to date.
Fresh ==
  /\ Pos >= 10 => window["DEVICE_FEATURES"] = virtio_mmio_read(mmio, "DEVICE_FEATURES")
  /\ Pos >= 11 => window["QUEUE_NUM_MAX"] = QueueSize

\* The inductive invariant, and what it has in addition when the feature banks differ.
SetupInv ==
  /\ Types /\ OneWakeup /\ GuestKnows
  /\ WindowAt(window, Reached, session, leftover)
  /\ Synced /\ FollowsAt(Reached, Pos, leftover) /\ QueuesAt(Reached, Pos) /\ Fresh
BanksFollow == BanksAt(Reached, Pos, leftover)

-----------------------------------------------------------------------------
(* The script: the queues' accesses.                                       *)

\* The values that a script writes or expects.
Values == Nat \cup Bits \cup {{}, {0}, {QueueSize}, {Three}}

\* The accesses of a script.
Accesses == [op : {"write", "read", "status", "features", "expect"}, reg : Cells, val : Values]

\* The pieces of f, for each queue n accesses, one after the other.
Pieces(f, n) == [i \in 1 .. n * QueueCount |-> f[(i - 1) \div n][((i - 1) % n) + 1]]

\* O has the pieces of f one after the other.
Whole(O, f, n) ==
  /\ O \in Seq(Accesses) /\ Len(O) = n * QueueCount
  /\ \A q \in Queues : \A j \in 1 .. n : O[n * q + j] = f[q][j]

\* Where access i is.
LEMMA PieceFacts ==
  ASSUME NEW n \in {3, 6}, NEW i \in 1 .. n * QueueCount
  PROVE  (i - 1) \div n \in Queues /\ ((i - 1) % n) + 1 \in 1 .. n
<1>. USE DeviceAssumption DEF DeviceAssumption, Queues
<1>1. CASE n = 3
  BY <1>1
<1>2. CASE n = 6
  BY <1>2
<1>. QED
  BY <1>1, <1>2

\* Pieces has them.
LEMMA PieceAt ==
  ASSUME NEW n \in {3, 6}, NEW f, \A q \in Queues : f[q] \in Seq(Accesses) /\ Len(f[q]) = n
  PROVE  Whole(Pieces(f, n), f, n)
<1>. DEFINE l == n * QueueCount
            P == Pieces(f, n)
<1>1. l \in Nat /\ Queues = 0 .. QueueCount - 1
  BY DeviceAssumption DEF Queues, DeviceAssumption
<1>2. P = [i \in 1 .. l |-> f[(i - 1) \div n][((i - 1) % n) + 1]]
  BY Zenon DEF Pieces
<1>3. ASSUME NEW i \in 1 .. l PROVE f[(i - 1) \div n][((i - 1) % n) + 1] \in Accesses
  <2>1. (i - 1) \div n \in Queues /\ ((i - 1) % n) + 1 \in 1 .. n
    BY PieceFacts, Zenon
  <2>. HIDE DEF l
  <2>2. f[(i - 1) \div n] \in Seq(Accesses) /\ Len(f[(i - 1) \div n]) = n
    BY <2>1, Zenon
  <2>. QED
    BY <2>1, <2>2
<1>4. P \in [1 .. l -> Accesses]
  <2>. HIDE DEF l, P
  <2>. QED
    BY <1>2, <1>3, Zenon
<1>5. P \in Seq(Accesses) /\ Len(P) = l
  <2>. HIDE DEF l, P
  <2>. QED
    BY <1>1, <1>4
<1>6. ASSUME NEW q \in Queues, NEW j \in 1 .. n PROVE P[n * q + j] = f[q][j]
  <2>1. /\ n * q + j \in 1 .. l
        /\ ((n * q + j) - 1) \div n = q /\ (((n * q + j) - 1) % n) + 1 = j
    <3>1. q \in Nat /\ j \in Nat /\ QueueCount \in Nat /\ q <= QueueCount - 1
      BY <1>1, DeviceAssumption DEF DeviceAssumption
    <3>2. CASE n = 3
      BY <3>1, <3>2
    <3>3. CASE n = 6
      BY <3>1, <3>3
    <3>. QED
      BY <3>2, <3>3
  <2>. DEFINE i == n * q + j
  <2>2. i \in 1 .. l /\ (i - 1) \div n = q /\ ((i - 1) % n) + 1 = j
    BY <2>1, Zenon
  <2>. HIDE DEF i, l, P
  <2>3. P[i] = f[q][j]
    BY <1>2, <2>2, Zenon
  <2>. QED
    BY <2>3, Zenon DEF i
<1>. QED
  BY <1>5, <1>6, Zenon DEF Whole

\* The accesses of one queue.
LEMMA QueueAccesses ==
  ASSUME NEW s \in {0, 1}, NEW q \in Queues
  PROVE  /\ SetupQueue(s, q) \in Seq(Accesses) /\ Len(SetupQueue(s, q)) = 6
         /\ DelQueue(q) \in Seq(Accesses) /\ Len(DelQueue(q)) = 3
         /\ Ring(s, q) \in Nat \ {0}
<1>1. q \in Nat /\ QueueSize \in Nat /\ 0 \in Nat /\ 1 \in Nat
  BY DeviceAssumption DEF Queues, DeviceAssumption
<1>2. Ring(s, q) \in Nat \ {0}
  <2>1. CASE s = 0
    BY <1>1, <2>1, DeviceAssumption DEF Ring, DeviceAssumption
  <2>2. CASE s = 1
    BY <1>1, <2>2, DeviceAssumption DEF Ring, DeviceAssumption
  <2>. QED
    BY <2>1, <2>2, Zenon
<1>3. \A v \in Nat : \A r \in Cells : Write(r, v) \in Accesses
  BY Zenon DEF Write, Accesses, Values
<1>4. \A v \in {{0}, {QueueSize}} : \A r \in Cells : Expect(r, v) \in Accesses
  BY Zenon DEF Expect, Accesses, Values
<1>5. {"QUEUE_SEL", "QUEUE_READY", "QUEUE_NUM_MAX", "QUEUE_NUM", "QUEUE_ADDR"} \subseteq Cells
  BY Zenon DEF Cells, Shadowed
<1>6. /\ Write("QUEUE_SEL", q) \in Accesses /\ Expect("QUEUE_READY", {0}) \in Accesses
      /\ Expect("QUEUE_NUM_MAX", {QueueSize}) \in Accesses
      /\ Write("QUEUE_NUM", QueueSize) \in Accesses
      /\ Write("QUEUE_ADDR", Ring(s, q)) \in Accesses
      /\ Write("QUEUE_READY", 1) \in Accesses /\ Write("QUEUE_READY", 0) \in Accesses
  BY <1>1, <1>2, <1>3, <1>4, <1>5, Zenon
<1>7. SetupQueue(s, q) \in Seq(Accesses) /\ Len(SetupQueue(s, q)) = 6
  BY <1>6 DEF SetupQueue
<1>8. DelQueue(q) \in Seq(Accesses) /\ Len(DelQueue(q)) = 3
  BY <1>6 DEF DelQueue
<1>. QED
  BY <1>2, <1>7, <1>8, Zenon

\* The set-up of all queues.
LEMMA SetupAll ==
  ASSUME NEW s \in {0, 1}
  PROVE  /\ OverQueues(LAMBDA q : SetupQueue(s, q)) \in Seq(Accesses)
         /\ Len(OverQueues(LAMBDA q : SetupQueue(s, q))) = 6 * QueueCount
         /\ \A p \in Queues : \A j \in 1 .. 6 :
              OverQueues(LAMBDA q : SetupQueue(s, q))[6 * p + j] = SetupQueue(s, p)[j]
<1>. DEFINE n == 6
            f == [q \in Queues |-> SetupQueue(s, q)]
            O == OverQueues(LAMBDA q : SetupQueue(s, q))
<1>1. n \in {3, 6} /\ \A q \in Queues : f[q] \in Seq(Accesses) /\ Len(f[q]) = n
  BY QueueAccesses, Zenon
<1>2. 0 \in Queues
  BY DeviceAssumption DEF DeviceAssumption, Queues
<1>3. Len(SetupQueue(s, 0)) = n
  BY <1>1, <1>2, Zenon
<1>4. \A i \in 1 .. n * QueueCount : (i - 1) \div n \in Queues
  BY <1>1, PieceFacts, Zenon
<1>5. O = Pieces(f, n)
  BY <1>3, <1>4, Zenon DEF OverQueues, Pieces
<1>6. \A q \in Queues : f[q] = SetupQueue(s, q)
  BY Zenon
<1>. HIDE DEF f, n, O
<1>7. Whole(O, f, n)
  BY <1>1, <1>5, PieceAt, Zenon
<1>8. O \in Seq(Accesses) /\ Len(O) = n * QueueCount
  BY <1>7, Zenon DEF Whole
<1>9. \A q \in Queues : \A j \in 1 .. n : O[n * q + j] = f[q][j]
  BY <1>7, Zenon DEF Whole
<1>. QED
  BY <1>6, <1>8, <1>9, Zenon DEF n, O

\* The removal of all queues.
LEMMA DelAll ==
  /\ OverQueues(DelQueue) \in Seq(Accesses)
  /\ Len(OverQueues(DelQueue)) = 3 * QueueCount
  /\ \A q \in Queues : \A j \in 1 .. 3 : OverQueues(DelQueue)[3 * q + j] = DelQueue(q)[j]
<1>. DEFINE n == 3
            f == [q \in Queues |-> DelQueue(q)]
            O == OverQueues(DelQueue)
<1>1. n \in {3, 6} /\ \A q \in Queues : f[q] \in Seq(Accesses) /\ Len(f[q]) = n
  BY QueueAccesses, Zenon
<1>2. 0 \in Queues
  BY DeviceAssumption DEF DeviceAssumption, Queues
<1>3. Len(DelQueue(0)) = n
  BY <1>1, <1>2, Zenon
<1>4. \A i \in 1 .. n * QueueCount : (i - 1) \div n \in Queues
  BY <1>1, PieceFacts, Zenon
<1>5. O = Pieces(f, n)
  BY <1>3, <1>4, Zenon DEF OverQueues, Pieces
<1>6. \A q \in Queues : f[q] = DelQueue(q)
  BY Zenon
<1>. HIDE DEF f, n, O
<1>7. Whole(O, f, n)
  BY <1>1, <1>5, PieceAt, Zenon
<1>8. O \in Seq(Accesses) /\ Len(O) = n * QueueCount
  BY <1>7, Zenon DEF Whole
<1>9. \A q \in Queues : \A j \in 1 .. n : O[n * q + j] = f[q][j]
  BY <1>7, Zenon DEF Whole
<1>. QED
  BY <1>6, <1>8, <1>9, Zenon DEF n, O

-----------------------------------------------------------------------------
(* The script as a whole.                                                  *)

\* u is s and then t.
Cat(u, s, t) ==
  /\ u \in Seq(Accesses) /\ Len(u) = Len(s) + Len(t)
  /\ \A i \in 1 .. Len(s) : u[i] = s[i]
  /\ \A i \in 1 .. Len(t) : u[Len(s) + i] = t[i]

\* Concatenation is.
LEMMA CatFacts ==
  ASSUME NEW s \in Seq(Accesses), NEW t \in Seq(Accesses)
  PROVE  Cat(s \o t, s, t)
BY DEF Cat

\* The accesses before the queues.
Opening ==
  <<Write("STATUS", {})>> \o AddStatus("ACKNOWLEDGE") \o AddStatus("DRIVER")
  \o <<Write("DEVICE_FEATURES_SEL", 1), Read("DEVICE_FEATURES"),
       Write("DEVICE_FEATURES_SEL", 0), Read("DEVICE_FEATURES"),
       Write("DRIVER_FEATURES_SEL", 1), Accept(1),
       Write("DRIVER_FEATURES_SEL", 0), Accept(0)>>
  \o AddStatus("FEATURES_OK") \o <<Expect("STATUS", {Three})>>

\* A write of STATUS that adds a bit.
SetBit(bit) == [op |-> "status", reg |-> "STATUS", val |-> bit]

\* The sixteen accesses of the opening, one by one.
LEMMA OpeningAt ==
  /\ Opening \in Seq(Accesses) /\ Len(Opening) = 16
  /\ Opening[1] = Write("STATUS", {})
  /\ Opening[2] = Read("STATUS") /\ Opening[3] = SetBit("ACKNOWLEDGE")
  /\ Opening[4] = Read("STATUS") /\ Opening[5] = SetBit("DRIVER")
  /\ Opening[6] = Write("DEVICE_FEATURES_SEL", 1) /\ Opening[7] = Read("DEVICE_FEATURES")
  /\ Opening[8] = Write("DEVICE_FEATURES_SEL", 0) /\ Opening[9] = Read("DEVICE_FEATURES")
  /\ Opening[10] = Write("DRIVER_FEATURES_SEL", 1) /\ Opening[11] = Accept(1)
  /\ Opening[12] = Write("DRIVER_FEATURES_SEL", 0) /\ Opening[13] = Accept(0)
  /\ Opening[14] = Read("STATUS") /\ Opening[15] = SetBit("FEATURES_OK")
  /\ Opening[16] = Expect("STATUS", {Three})
<1>1. \A v \in Values : \A r \in Cells : Write(r, v) \in Accesses /\ Expect(r, v) \in Accesses
  BY Zenon DEF Write, Expect, Accesses
<1>2. /\ {} \in Values /\ 0 \in Values /\ 1 \in Values /\ {Three} \in Values
      /\ \A b \in Bits : b \in Values
  <2>1. 0 \in Nat /\ 1 \in Nat
    BY Zenon
  <2>. QED
    BY <2>1, Zenon DEF Values
<1>3. \A r \in Cells : Read(r) \in Accesses
  BY <1>2, Zenon DEF Read, Accesses
<1>4. {"STATUS", "DEVICE_FEATURES_SEL", "DEVICE_FEATURES", "DRIVER_FEATURES",
       "DRIVER_FEATURES_SEL"} \subseteq Cells
  BY Zenon DEF Cells, Shadowed
<1>5. \A b \in Bits : SetBit(b) \in Accesses
  BY <1>2, <1>4, Zenon DEF SetBit, Accesses
<1>6. Accept(0) \in Accesses /\ Accept(1) \in Accesses
  BY <1>2, <1>4, Zenon DEF Accept, Accesses
<1>7. /\ Write("STATUS", {}) \in Accesses /\ Read("STATUS") \in Accesses
      /\ SetBit("ACKNOWLEDGE") \in Accesses /\ SetBit("DRIVER") \in Accesses
      /\ SetBit("FEATURES_OK") \in Accesses
      /\ Write("DEVICE_FEATURES_SEL", 1) \in Accesses
      /\ Write("DEVICE_FEATURES_SEL", 0) \in Accesses /\ Read("DEVICE_FEATURES") \in Accesses
      /\ Write("DRIVER_FEATURES_SEL", 1) \in Accesses
      /\ Write("DRIVER_FEATURES_SEL", 0) \in Accesses
      /\ Expect("STATUS", {Three}) \in Accesses
  BY <1>1, <1>2, <1>3, <1>4, <1>5, Zenon DEF Bits
<1>. DEFINE a == <<Write("STATUS", {})>>
            b == <<Read("STATUS"), SetBit("ACKNOWLEDGE")>>
            c == <<Read("STATUS"), SetBit("DRIVER")>>
            d == <<Write("DEVICE_FEATURES_SEL", 1), Read("DEVICE_FEATURES"),
                   Write("DEVICE_FEATURES_SEL", 0), Read("DEVICE_FEATURES"),
                   Write("DRIVER_FEATURES_SEL", 1), Accept(1),
                   Write("DRIVER_FEATURES_SEL", 0), Accept(0)>>
            e == <<Read("STATUS"), SetBit("FEATURES_OK")>>
            g == <<Expect("STATUS", {Three})>>
<1>9. Opening = a \o b \o c \o d \o e \o g
  BY Zenon DEF Opening, AddStatus, SetBit
<1>10. a \in Seq(Accesses) /\ Len(a) = 1 /\ a[1] = Write("STATUS", {})
  BY <1>7
<1>11. b \in Seq(Accesses) /\ Len(b) = 2 /\ b[1] = Read("STATUS") /\ b[2] = SetBit("ACKNOWLEDGE")
  BY <1>7
<1>12. c \in Seq(Accesses) /\ Len(c) = 2 /\ c[1] = Read("STATUS") /\ c[2] = SetBit("DRIVER")
  BY <1>7
<1>13. /\ d \in Seq(Accesses) /\ Len(d) = 8
       /\ d[1] = Write("DEVICE_FEATURES_SEL", 1) /\ d[2] = Read("DEVICE_FEATURES")
       /\ d[3] = Write("DEVICE_FEATURES_SEL", 0) /\ d[4] = Read("DEVICE_FEATURES")
       /\ d[5] = Write("DRIVER_FEATURES_SEL", 1) /\ d[6] = Accept(1)
       /\ d[7] = Write("DRIVER_FEATURES_SEL", 0) /\ d[8] = Accept(0)
  BY <1>6, <1>7
<1>14. e \in Seq(Accesses) /\ Len(e) = 2 /\ e[1] = Read("STATUS") /\ e[2] = SetBit("FEATURES_OK")
  BY <1>7
<1>15. g \in Seq(Accesses) /\ Len(g) = 1 /\ g[1] = Expect("STATUS", {Three})
  BY <1>7
<1>. HIDE DEF a, b, c, d, e, g
<1>. DEFINE ab == a \o b
            abc == ab \o c
            abcd == abc \o d
            abcde == abcd \o e
            all == abcde \o g
<1>16. /\ ab \in Seq(Accesses) /\ Len(ab) = 3
       /\ ab[1] = a[1] /\ ab[2] = b[1] /\ ab[3] = b[2]
  <2>1. Cat(ab, a, b)
    BY <1>10, <1>11, CatFacts, Zenon
  <2>. HIDE DEF ab
  <2>. QED
    BY ONLY <1>10, <1>11, <2>1 DEF Cat
<1>. HIDE DEF ab
<1>17. /\ abc \in Seq(Accesses) /\ Len(abc) = 5
       /\ abc[1] = ab[1] /\ abc[2] = ab[2] /\ abc[3] = ab[3] /\ abc[4] = c[1] /\ abc[5] = c[2]
  <2>1. Cat(abc, ab, c)
    BY <1>12, <1>16, CatFacts, Zenon
  <2>. HIDE DEF abc
  <2>. QED
    BY ONLY <1>12, <1>16, <2>1 DEF Cat
<1>. HIDE DEF abc
<1>18. /\ abcd \in Seq(Accesses) /\ Len(abcd) = 13
       /\ \A i \in 1 .. 5 : abcd[i] = abc[i]
       /\ abcd[6] = d[1] /\ abcd[7] = d[2] /\ abcd[8] = d[3] /\ abcd[9] = d[4]
       /\ abcd[10] = d[5] /\ abcd[11] = d[6] /\ abcd[12] = d[7] /\ abcd[13] = d[8]
  <2>1. Cat(abcd, abc, d)
    BY <1>13, <1>17, CatFacts, Zenon
  <2>. HIDE DEF abcd
  <2>. QED
    BY ONLY <1>13, <1>17, <2>1 DEF Cat
<1>. HIDE DEF abcd
<1>19. /\ abcde \in Seq(Accesses) /\ Len(abcde) = 15
       /\ \A i \in 1 .. 13 : abcde[i] = abcd[i]
       /\ abcde[14] = e[1] /\ abcde[15] = e[2]
  <2>1. Cat(abcde, abcd, e)
    BY <1>14, <1>18, CatFacts, Zenon
  <2>. HIDE DEF abcde
  <2>. QED
    BY ONLY <1>14, <1>18, <2>1 DEF Cat
<1>. HIDE DEF abcde
<1>20. /\ all \in Seq(Accesses) /\ Len(all) = 16
       /\ \A i \in 1 .. 15 : all[i] = abcde[i]
       /\ all[16] = g[1]
  <2>1. Cat(all, abcde, g)
    BY <1>15, <1>19, CatFacts, Zenon
  <2>. HIDE DEF all
  <2>. QED
    BY ONLY <1>15, <1>19, <2>1 DEF Cat
<1>21. Opening = all
  BY <1>9, Zenon DEF ab, abc, abcd, abcde
<1>. HIDE DEF all
<1>. QED
  BY ONLY <1>10, <1>11, <1>12, <1>13, <1>14, <1>15, <1>16, <1>17, <1>18, <1>19, <1>20, <1>21

\* Every access of the script.
LEMMA ScriptAt ==
  ASSUME NEW s \in {0, 1}
  PROVE  /\ Len(Script(s)) = LastStep /\ Len(Probe(s)) = Up - 2
         /\ \A i \in 1 .. 16 : Script(s)[i] = Opening[i]
         /\ \A q \in Queues : \A j \in 1 .. 6 : Script(s)[16 + 6 * q + j] = SetupQueue(s, q)[j]
         /\ Script(s)[Up - 3] = Read("STATUS") /\ Script(s)[Up - 2] = SetBit("DRIVER_OK")
         /\ Script(s)[Up - 1] = Write("STATUS", {})
         /\ \A q \in Queues : \A j \in 1 .. 3 : Script(s)[(Up - 1) + 3 * q + j] = DelQueue(q)[j]
<1>. DEFINE O == Opening
            S == OverQueues(LAMBDA q : SetupQueue(s, q))
            D == OverQueues(DelQueue)
            A == <<Read("STATUS"), SetBit("DRIVER_OK")>>
            W == <<Write("STATUS", {})>>
            OS == O \o S
            P == OS \o A
            R == W \o D
            All == P \o R
<1>1. Script(s) = All /\ Probe(s) = P
  BY Zenon DEF Script, Probe, Remove, Opening, Three, AddStatus, SetBit
<1>2. O \in Seq(Accesses) /\ Len(O) = 16
  BY OpeningAt, Zenon
<1>3. /\ S \in Seq(Accesses) /\ Len(S) = 6 * QueueCount
      /\ \A q \in Queues : \A j \in 1 .. 6 : S[6 * q + j] = SetupQueue(s, q)[j]
  BY SetupAll, Zenon
<1>4. /\ D \in Seq(Accesses) /\ Len(D) = 3 * QueueCount
      /\ \A q \in Queues : \A j \in 1 .. 3 : D[3 * q + j] = DelQueue(q)[j]
  BY DelAll, Zenon
<1>5. Read("STATUS") \in Accesses /\ SetBit("DRIVER_OK") \in Accesses /\ Write("STATUS", {}) \in Accesses
  BY Zenon DEF Read, SetBit, Write, Accesses, Values, Bits, Cells, Shadowed
<1>6. A \in Seq(Accesses) /\ Len(A) = 2 /\ A[1] = Read("STATUS") /\ A[2] = SetBit("DRIVER_OK")
  BY <1>5
<1>7. W \in Seq(Accesses) /\ Len(W) = 1 /\ W[1] = Write("STATUS", {})
  BY <1>5
<1>8. QueueCount \in Nat /\ \A q \in Queues : q \in Nat /\ q <= QueueCount - 1
  BY DeviceAssumption DEF DeviceAssumption, Queues
<1>. HIDE DEF O, S, D, A, W
<1>9. /\ OS \in Seq(Accesses) /\ Len(OS) = 16 + 6 * QueueCount
      /\ \A i \in 1 .. 16 : OS[i] = O[i]
      /\ \A i \in 1 .. 6 * QueueCount : OS[16 + i] = S[i]
  <2>1. Cat(OS, O, S)
    BY <1>2, <1>3, <1>8, CatFacts, Zenon
  <2>. HIDE DEF OS
  <2>. QED
    BY ONLY <1>2, <1>3, <1>8, <2>1, Zenon DEF Cat
<1>. HIDE DEF OS
<1>10. /\ P \in Seq(Accesses) /\ Len(P) = 18 + 6 * QueueCount
       /\ \A i \in 1 .. 16 + 6 * QueueCount : P[i] = OS[i]
       /\ P[17 + 6 * QueueCount] = A[1] /\ P[18 + 6 * QueueCount] = A[2]
  <2>1. Cat(P, OS, A)
    BY <1>6, <1>8, <1>9, CatFacts, Zenon
  <2>. HIDE DEF P
  <2>. QED
    BY ONLY <1>6, <1>8, <1>9, <2>1 DEF Cat
<1>. HIDE DEF P
<1>11. /\ R \in Seq(Accesses) /\ Len(R) = 1 + 3 * QueueCount
       /\ R[1] = W[1]
       /\ \A i \in 1 .. 3 * QueueCount : R[1 + i] = D[i]
  <2>1. Cat(R, W, D)
    BY <1>4, <1>7, <1>8, CatFacts, Zenon
  <2>. HIDE DEF R
  <2>. QED
    BY ONLY <1>4, <1>7, <1>8, <2>1 DEF Cat
<1>. HIDE DEF R
<1>12. /\ Len(All) = 19 + 9 * QueueCount
       /\ \A i \in 1 .. 18 + 6 * QueueCount : All[i] = P[i]
       /\ \A i \in 1 .. 1 + 3 * QueueCount : All[18 + 6 * QueueCount + i] = R[i]
  <2>1. Cat(All, P, R)
    BY <1>8, <1>10, <1>11, CatFacts, Zenon
  <2>. HIDE DEF All
  <2>. QED
    BY ONLY <1>8, <1>10, <1>11, <2>1 DEF Cat
<1>. HIDE DEF All
<1>13. \A i \in 1 .. 16 : All[i] = O[i]
  <2>1. \A i \in 1 .. 16 : i \in 1 .. 16 + 6 * QueueCount /\ i \in 1 .. 18 + 6 * QueueCount
    BY ONLY <1>8
  <2>. QED
    BY <1>9, <1>10, <1>12, <2>1, Zenon
<1>14. ASSUME NEW q \in Queues, NEW j \in 1 .. 6 PROVE All[16 + 6 * q + j] = SetupQueue(s, q)[j]
  <2>1. 6 * q + j \in 1 .. 6 * QueueCount /\ 16 + (6 * q + j) = 16 + 6 * q + j
    BY ONLY <1>8, q \in Queues, j \in 1 .. 6
  <2>2. 16 + 6 * q + j \in 1 .. 16 + 6 * QueueCount /\ 16 + 6 * q + j \in 1 .. 18 + 6 * QueueCount
    BY ONLY <1>8, q \in Queues, j \in 1 .. 6
  <2>3. All[16 + 6 * q + j] = OS[16 + 6 * q + j]
    BY <1>10, <1>12, <2>2, Zenon
  <2>4. OS[16 + (6 * q + j)] = S[6 * q + j]
    BY <1>9, <2>1, Zenon
  <2>. QED
    BY <1>3, <2>1, <2>3, <2>4, Zenon
<1>15. ASSUME NEW q \in Queues, NEW j \in 1 .. 3 PROVE All[(Up - 1) + 3 * q + j] = DelQueue(q)[j]
  <2>1. 3 * q + j \in 1 .. 3 * QueueCount /\ 1 + (3 * q + j) \in 1 .. 1 + 3 * QueueCount
    BY ONLY <1>8, q \in Queues, j \in 1 .. 3
  <2>2. (Up - 1) + 3 * q + j = 18 + 6 * QueueCount + (1 + (3 * q + j))
    BY ONLY <1>8, q \in Queues, j \in 1 .. 3 DEF Up
  <2>3. All[(Up - 1) + 3 * q + j] = R[1 + (3 * q + j)]
    BY <1>12, <2>1, <2>2, Zenon
  <2>. QED
    BY <1>4, <1>11, <2>1, <2>3, Zenon
<1>16. All[Up - 3] = Read("STATUS") /\ All[Up - 2] = SetBit("DRIVER_OK") /\ All[Up - 1] = Write("STATUS", {})
  <2>1. /\ Up - 3 = 17 + 6 * QueueCount /\ Up - 2 = 18 + 6 * QueueCount
        /\ Up - 1 = 18 + 6 * QueueCount + 1
        /\ 17 + 6 * QueueCount \in 1 .. 18 + 6 * QueueCount
        /\ 18 + 6 * QueueCount \in 1 .. 18 + 6 * QueueCount
        /\ 1 \in 1 .. 1 + 3 * QueueCount
    BY ONLY <1>8 DEF Up
  <2>. QED
    BY <1>6, <1>7, <1>10, <1>11, <1>12, <2>1, Zenon
<1>17. Len(All) = LastStep /\ Len(P) = Up - 2
  BY ONLY <1>8, <1>10, <1>12 DEF LastStep, Up
<1>. QED
  BY <1>1, <1>13, <1>14, <1>15, <1>16, <1>17, Zenon DEF O

-----------------------------------------------------------------------------
(* The script as a table.                                                  *)

\* Access k of session s: what it does, to which register, with which value.
Is(s, k, op, reg, val) ==
  Script(s)[k].op = op /\ Script(s)[k].reg = reg /\ Script(s)[k].val = val

\* The script as a table.
LEMMA Table ==
  ASSUME NEW s \in {0, 1}
  PROVE  /\ Is(s, 1, "write", "STATUS", {})
         /\ Is(s, 2, "read", "STATUS", {}) /\ Is(s, 3, "status", "STATUS", "ACKNOWLEDGE")
         /\ Is(s, 4, "read", "STATUS", {}) /\ Is(s, 5, "status", "STATUS", "DRIVER")
         /\ Is(s, 6, "write", "DEVICE_FEATURES_SEL", 1) /\ Is(s, 7, "read", "DEVICE_FEATURES", {})
         /\ Is(s, 8, "write", "DEVICE_FEATURES_SEL", 0) /\ Is(s, 9, "read", "DEVICE_FEATURES", {})
         /\ Is(s, 10, "write", "DRIVER_FEATURES_SEL", 1)
         /\ Is(s, 11, "features", "DRIVER_FEATURES", 1)
         /\ Is(s, 12, "write", "DRIVER_FEATURES_SEL", 0)
         /\ Is(s, 13, "features", "DRIVER_FEATURES", 0)
         /\ Is(s, 14, "read", "STATUS", {}) /\ Is(s, 15, "status", "STATUS", "FEATURES_OK")
         /\ Is(s, 16, "expect", "STATUS", {Three})
         /\ \A q \in Queues :
              /\ Is(s, 17 + 6 * q, "write", "QUEUE_SEL", q)
              /\ Is(s, 18 + 6 * q, "expect", "QUEUE_READY", {0})
              /\ Is(s, 19 + 6 * q, "expect", "QUEUE_NUM_MAX", {QueueSize})
              /\ Is(s, 20 + 6 * q, "write", "QUEUE_NUM", QueueSize)
              /\ Is(s, 21 + 6 * q, "write", "QUEUE_ADDR", Ring(s, q))
              /\ Is(s, 22 + 6 * q, "write", "QUEUE_READY", 1)
         /\ Is(s, Up - 3, "read", "STATUS", {}) /\ Is(s, Up - 2, "status", "STATUS", "DRIVER_OK")
         /\ Is(s, Up - 1, "write", "STATUS", {})
         /\ \A q \in Queues :
              /\ Is(s, Up + 3 * q, "write", "QUEUE_SEL", q)
              /\ Is(s, Up + 1 + 3 * q, "write", "QUEUE_READY", 0)
              /\ Is(s, Up + 2 + 3 * q, "expect", "QUEUE_READY", {0})
<1>1. \A k, r, v : Script(s)[k] = Write(r, v) => Is(s, k, "write", r, v)
  BY DEF Write, Is
<1>2. \A k, r, v : Script(s)[k] = Expect(r, v) => Is(s, k, "expect", r, v)
  BY DEF Expect, Is
<1>3. \A k, r : Script(s)[k] = Read(r) => Is(s, k, "read", r, {})
  BY DEF Read, Is
<1>4. \A k, b : /\ Script(s)[k] = SetBit(b) => Is(s, k, "status", "STATUS", b)
                /\ Script(s)[k] = Accept(b) => Is(s, k, "features", "DRIVER_FEATURES", b)
  BY DEF SetBit, Accept, Is
<1>5. \A i \in 1 .. 16 : Script(s)[i] = Opening[i]
  BY ScriptAt, Zenon
<1>6. /\ Script(s)[1] = Opening[1] /\ Script(s)[2] = Opening[2] /\ Script(s)[3] = Opening[3]
      /\ Script(s)[4] = Opening[4] /\ Script(s)[5] = Opening[5] /\ Script(s)[6] = Opening[6]
      /\ Script(s)[7] = Opening[7] /\ Script(s)[8] = Opening[8] /\ Script(s)[9] = Opening[9]
      /\ Script(s)[10] = Opening[10] /\ Script(s)[11] = Opening[11]
      /\ Script(s)[12] = Opening[12] /\ Script(s)[13] = Opening[13]
      /\ Script(s)[14] = Opening[14] /\ Script(s)[15] = Opening[15]
      /\ Script(s)[16] = Opening[16]
  BY <1>5
<1>7. ASSUME NEW q \in Queues
      PROVE  /\ Script(s)[17 + 6 * q] = Write("QUEUE_SEL", q)
             /\ Script(s)[18 + 6 * q] = Expect("QUEUE_READY", {0})
             /\ Script(s)[19 + 6 * q] = Expect("QUEUE_NUM_MAX", {QueueSize})
             /\ Script(s)[20 + 6 * q] = Write("QUEUE_NUM", QueueSize)
             /\ Script(s)[21 + 6 * q] = Write("QUEUE_ADDR", Ring(s, q))
             /\ Script(s)[22 + 6 * q] = Write("QUEUE_READY", 1)
  <2>1. /\ 16 + 6 * q + 1 = 17 + 6 * q /\ 16 + 6 * q + 2 = 18 + 6 * q /\ 16 + 6 * q + 3 = 19 + 6 * q
        /\ 16 + 6 * q + 4 = 20 + 6 * q /\ 16 + 6 * q + 5 = 21 + 6 * q /\ 16 + 6 * q + 6 = 22 + 6 * q
    BY DeviceAssumption DEF Queues, DeviceAssumption
  <2>2. \A j \in 1 .. 6 : Script(s)[16 + 6 * q + j] = SetupQueue(s, q)[j]
    BY ScriptAt, Zenon
  <2>3. /\ Script(s)[17 + 6 * q] = SetupQueue(s, q)[1] /\ Script(s)[18 + 6 * q] = SetupQueue(s, q)[2]
        /\ Script(s)[19 + 6 * q] = SetupQueue(s, q)[3] /\ Script(s)[20 + 6 * q] = SetupQueue(s, q)[4]
        /\ Script(s)[21 + 6 * q] = SetupQueue(s, q)[5] /\ Script(s)[22 + 6 * q] = SetupQueue(s, q)[6]
    <3>1. 1 \in 1 .. 6 /\ 2 \in 1 .. 6 /\ 3 \in 1 .. 6 /\ 4 \in 1 .. 6 /\ 5 \in 1 .. 6 /\ 6 \in 1 .. 6
      OBVIOUS
    <3>. QED
      BY <2>1, <2>2, <3>1, Zenon
  <2>4. /\ SetupQueue(s, q)[1] = Write("QUEUE_SEL", q)
        /\ SetupQueue(s, q)[2] = Expect("QUEUE_READY", {0})
        /\ SetupQueue(s, q)[3] = Expect("QUEUE_NUM_MAX", {QueueSize})
        /\ SetupQueue(s, q)[4] = Write("QUEUE_NUM", QueueSize)
        /\ SetupQueue(s, q)[5] = Write("QUEUE_ADDR", Ring(s, q))
        /\ SetupQueue(s, q)[6] = Write("QUEUE_READY", 1)
    BY Zenon DEF SetupQueue
  <2>. QED
    BY <2>3, <2>4, Zenon
<1>8. ASSUME NEW q \in Queues
      PROVE  /\ Script(s)[Up + 3 * q] = Write("QUEUE_SEL", q)
             /\ Script(s)[Up + 1 + 3 * q] = Write("QUEUE_READY", 0)
             /\ Script(s)[Up + 2 + 3 * q] = Expect("QUEUE_READY", {0})
  <2>1. /\ (Up - 1) + 3 * q + 1 = Up + 3 * q /\ (Up - 1) + 3 * q + 2 = Up + 1 + 3 * q
        /\ (Up - 1) + 3 * q + 3 = Up + 2 + 3 * q
    BY DeviceAssumption DEF Queues, DeviceAssumption, Up
  <2>2. \A j \in 1 .. 3 : Script(s)[(Up - 1) + 3 * q + j] = DelQueue(q)[j]
    BY ScriptAt, Zenon
  <2>3. /\ Script(s)[Up + 3 * q] = DelQueue(q)[1] /\ Script(s)[Up + 1 + 3 * q] = DelQueue(q)[2]
        /\ Script(s)[Up + 2 + 3 * q] = DelQueue(q)[3]
    <3>1. 1 \in 1 .. 3 /\ 2 \in 1 .. 3 /\ 3 \in 1 .. 3
      OBVIOUS
    <3>. QED
      BY <2>1, <2>2, <3>1, Zenon
  <2>4. /\ DelQueue(q)[1] = Write("QUEUE_SEL", q) /\ DelQueue(q)[2] = Write("QUEUE_READY", 0)
        /\ DelQueue(q)[3] = Expect("QUEUE_READY", {0})
    BY Zenon DEF DelQueue
  <2>. QED
    BY <2>3, <2>4, Zenon
<1>9. \A q \in Queues :
              /\ Is(s, 17 + 6 * q, "write", "QUEUE_SEL", q)
              /\ Is(s, 18 + 6 * q, "expect", "QUEUE_READY", {0})
              /\ Is(s, 19 + 6 * q, "expect", "QUEUE_NUM_MAX", {QueueSize})
              /\ Is(s, 20 + 6 * q, "write", "QUEUE_NUM", QueueSize)
              /\ Is(s, 21 + 6 * q, "write", "QUEUE_ADDR", Ring(s, q))
              /\ Is(s, 22 + 6 * q, "write", "QUEUE_READY", 1)
  BY <1>1, <1>2, <1>7, Zenon
<1>10. \A q \in Queues :
              /\ Is(s, Up + 3 * q, "write", "QUEUE_SEL", q)
              /\ Is(s, Up + 1 + 3 * q, "write", "QUEUE_READY", 0)
              /\ Is(s, Up + 2 + 3 * q, "expect", "QUEUE_READY", {0})
  BY <1>1, <1>2, <1>8, Zenon
<1>11. /\ Is(s, Up - 3, "read", "STATUS", {}) /\ Is(s, Up - 2, "status", "STATUS", "DRIVER_OK")
       /\ Is(s, Up - 1, "write", "STATUS", {})
  BY <1>1, <1>3, <1>4, ScriptAt, Zenon
<1>12. /\ Is(s, 1, "write", "STATUS", {})
       /\ Is(s, 2, "read", "STATUS", {}) /\ Is(s, 3, "status", "STATUS", "ACKNOWLEDGE")
       /\ Is(s, 4, "read", "STATUS", {}) /\ Is(s, 5, "status", "STATUS", "DRIVER")
       /\ Is(s, 6, "write", "DEVICE_FEATURES_SEL", 1) /\ Is(s, 7, "read", "DEVICE_FEATURES", {})
       /\ Is(s, 8, "write", "DEVICE_FEATURES_SEL", 0) /\ Is(s, 9, "read", "DEVICE_FEATURES", {})
       /\ Is(s, 10, "write", "DRIVER_FEATURES_SEL", 1)
       /\ Is(s, 11, "features", "DRIVER_FEATURES", 1)
       /\ Is(s, 12, "write", "DRIVER_FEATURES_SEL", 0)
       /\ Is(s, 13, "features", "DRIVER_FEATURES", 0)
       /\ Is(s, 14, "read", "STATUS", {}) /\ Is(s, 15, "status", "STATUS", "FEATURES_OK")
       /\ Is(s, 16, "expect", "STATUS", {Three})
  BY <1>1, <1>2, <1>3, <1>4, <1>6, OpeningAt
<1>. QED
  BY <1>9, <1>10, <1>11, <1>12, Zenon

\* The steps that write; the first ones write STATUS.
ResetSteps == {1, 3, 5, 15, Up - 2, Up - 1}
WriteStep(k) ==
  \/ k \in ResetSteps \cup {6, 8, 10, 11, 12, 13}
  \/ \E q \in Queues : k \in {17 + 6 * q, 20 + 6 * q, 21 + 6 * q, 22 + 6 * q,
                              Up + 3 * q, Up + 1 + 3 * q}

\* The steps that read.
ReadStep(k) ==
  \/ k \in {2, 4, 7, 9, 14, 16, Up - 3}
  \/ \E q \in Queues : k \in {18 + 6 * q, 19 + 6 * q, Up + 2 + 3 * q}

\* Every step is one or the other.
LEMMA StepKinds ==
  ASSUME NEW k \in 1 .. LastStep
  PROVE  WriteStep(k) \/ ReadStep(k)
<1>1. QueueCount \in Nat /\ QueueCount >= 1 /\ k \in Nat /\ Up = 20 + 6 * QueueCount
  BY DeviceAssumption DEF DeviceAssumption, Up
<1>2. CASE k <= 16
  <2>1. k \in {1, 3, 5, 15, 6, 8, 10, 11, 12, 13} \/ k \in {2, 4, 7, 9, 14, 16}
    BY <1>1, <1>2
  <2>. QED
    BY <2>1, Zenon DEF WriteStep, ReadStep, ResetSteps
<1>3. CASE k > 16 /\ k <= 16 + 6 * QueueCount
  <2>. DEFINE q == (k - 17) \div 6
  <2>1. q \in 0 .. QueueCount - 1 /\ k \in 17 + 6 * q .. 22 + 6 * q
    BY <1>1, <1>3
  <2>. HIDE DEF q
  <2>2. \/ k \in {17 + 6 * q, 20 + 6 * q, 21 + 6 * q, 22 + 6 * q}
        \/ k \in {18 + 6 * q, 19 + 6 * q}
    BY <1>1, <2>1
  <2>. QED
    BY <2>1, <2>2, Zenon DEF WriteStep, ReadStep, Queues
<1>4. CASE k > 16 + 6 * QueueCount /\ k < Up
  <2>1. k = Up - 3 \/ k = Up - 2 \/ k = Up - 1
    BY <1>1, <1>4
  <2>. QED
    BY <2>1, Zenon DEF WriteStep, ReadStep, ResetSteps
<1>5. CASE k >= Up
  <2>. DEFINE q == (k - Up) \div 3
  <2>1. q \in 0 .. QueueCount - 1 /\ k \in Up + 3 * q .. Up + 2 + 3 * q
    BY <1>1, <1>5 DEF LastStep
  <2>. HIDE DEF q
  <2>2. k \in {Up + 3 * q, Up + 1 + 3 * q} \/ k = Up + 2 + 3 * q
    BY <1>1, <2>1
  <2>. QED
    BY <2>1, <2>2, Zenon DEF WriteStep, ReadStep, Queues
<1>. QED
  BY <1>1, <1>2, <1>3, <1>4, <1>5

\* What a step that writes is.
LEMMA WriteAccess ==
  ASSUME NEW s \in {0, 1}, NEW k, WriteStep(k)
  PROVE  /\ Script(s)[k].op \in {"write", "status", "features"} /\ Script(s)[k].op # "expect"
         /\ Script(s)[k].reg # "DEVICE_FEATURES"
<1>. DEFINE W(r) == \E o \in {"write", "status", "features"} : \E v : Is(s, k, o, r, v)
<1>1. CASE k \in ResetSteps
  <2>1. W("STATUS")
    BY <1>1, Table, Zenon DEF ResetSteps
  <2>. QED
    BY <2>1, Zenon DEF Is
<1>2. CASE k \in {6, 8, 10, 11, 12, 13}
  <2>1. W("DEVICE_FEATURES_SEL") \/ W("DRIVER_FEATURES_SEL") \/ W("DRIVER_FEATURES")
    BY <1>2, Table, ZenonT(40)
  <2>. QED
    BY <2>1, Zenon DEF Is
<1>3. ASSUME NEW q \in Queues, k \in {17 + 6 * q, 20 + 6 * q, 21 + 6 * q, 22 + 6 * q,
                                      Up + 3 * q, Up + 1 + 3 * q}
      PROVE  W("QUEUE_SEL") \/ W("QUEUE_NUM") \/ W("QUEUE_ADDR") \/ W("QUEUE_READY")
  <2>1. /\ Is(s, 17 + 6 * q, "write", "QUEUE_SEL", q)
        /\ Is(s, 20 + 6 * q, "write", "QUEUE_NUM", QueueSize)
        /\ Is(s, 21 + 6 * q, "write", "QUEUE_ADDR", Ring(s, q))
        /\ Is(s, 22 + 6 * q, "write", "QUEUE_READY", 1)
        /\ Is(s, Up + 3 * q, "write", "QUEUE_SEL", q)
        /\ Is(s, Up + 1 + 3 * q, "write", "QUEUE_READY", 0)
    BY Table, Zenon
  <2>. QED
    BY <1>3, <2>1, Zenon
<1>4. CASE W("QUEUE_SEL") \/ W("QUEUE_NUM") \/ W("QUEUE_ADDR") \/ W("QUEUE_READY")
  BY <1>4, Zenon DEF Is
<1>. QED
  BY <1>1, <1>2, <1>3, <1>4, Zenon DEF WriteStep

\* What the operations of the two kinds are.
LEMMA Kinds ==
  ASSUME NEW s \in {0, 1}, NEW k \in 1 .. LastStep
  PROVE  /\ Script(s)[k].op \in {"write", "status", "features"} <=> WriteStep(k)
         /\ Script(s)[k].op \in {"read", "expect"} <=> ReadStep(k)
<1>1. ASSUME WriteStep(k) PROVE Script(s)[k].op \in {"write", "status", "features"}
  BY <1>1, WriteAccess, Zenon
<1>2. ASSUME ReadStep(k) PROVE Script(s)[k].op \in {"read", "expect"}
  BY <1>2, Table DEF ReadStep, Is
<1>3. ~(Script(s)[k].op \in {"write", "status", "features"} /\ Script(s)[k].op \in {"read", "expect"})
  BY Zenon
<1>. QED
  BY <1>1, <1>2, <1>3, StepKinds, Zenon

-----------------------------------------------------------------------------
(* The window over one access.                                             *)

\* The features part of the window, over one access.
LEMMA SelectorsOn ==
  ASSUME NEW w, NEW u, NEW k \in 1 .. LastStep, NEW l \in BOOLEAN, SelectorsAt(w, k, l),
         u["DEVICE_FEATURES_SEL"] = (IF k = 6 THEN 1 ELSE IF k = 8 THEN 0
                                     ELSE w["DEVICE_FEATURES_SEL"]),
         u["DRIVER_FEATURES_SEL"] = (IF k = 10 THEN 1 ELSE IF k = 12 THEN 0
                                     ELSE w["DRIVER_FEATURES_SEL"]),
         k = 11 => u["DRIVER_FEATURES"] \in (IF l THEN Words ELSE {Features[1]}),
         k = 13 => u["DRIVER_FEATURES"] = Features[0],
         k \notin {11, 13} => u["DRIVER_FEATURES"] = w["DRIVER_FEATURES"]
  PROVE  SelectorsAt(u, k + 1, l)
<1>1. k \in Nat
  BY DeviceAssumption DEF LastStep, DeviceAssumption
<1>2. u["DEVICE_FEATURES_SEL"] \in (IF k + 1 \in {7, 8} THEN {1}
                                   ELSE IF k + 1 <= 6 /\ l THEN {0, 1} ELSE {0})
  BY <1>1 DEF SelectorsAt
<1>3. u["DRIVER_FEATURES_SEL"] \in (IF k + 1 \in {11, 12} THEN {1}
                                   ELSE IF k + 1 <= 10 /\ l THEN {0, 1} ELSE {0})
  BY <1>1 DEF SelectorsAt
<1>4. u["DRIVER_FEATURES"] \in (IF k + 1 >= 14 THEN {Features[0]} ELSE IF l THEN Words
                               ELSE IF k + 1 <= 11 THEN {0, Features[0]} ELSE {Features[1]})
  <2>1. CASE k < 11
    BY <1>1, <2>1 DEF SelectorsAt
  <2>2. CASE k = 11
    BY <2>2
  <2>3. CASE k = 12
    BY <2>3 DEF SelectorsAt
  <2>4. CASE k = 13
    BY <2>4
  <2>5. CASE k > 13
    BY <1>1, <2>5 DEF SelectorsAt
  <2>. QED
    BY <1>1, <2>1, <2>2, <2>3, <2>4, <2>5
<1>. QED
  BY <1>2, <1>3, <1>4, Zenon DEF SelectorsAt

\* STATUS, over one access.
LEMMA StatusOn ==
  ASSUME NEW w, NEW u, NEW k \in 1 .. LastStep, StatusAt(w, k),
         k = 1 => u["STATUS"] = {},
         k = 3 => u["STATUS"] = {"ACKNOWLEDGE"},
         k = 5 => u["STATUS"] = {"ACKNOWLEDGE", "DRIVER"},
         k = 15 => u["STATUS"] = Three,
         k = Up - 2 => u["STATUS"] = Bits,
         k = Up - 1 => u["STATUS"] = {},
         k \notin ResetSteps => u["STATUS"] = w["STATUS"]
  PROVE  StatusAt(u, k + 1)
<1>1. k \in Nat /\ k >= 1 /\ Up \in Nat /\ Up >= 26
  BY DeviceAssumption DEF LastStep, DeviceAssumption, Up
<1>2. /\ {} \in SUBSET Bits /\ {"ACKNOWLEDGE"} \in SUBSET Bits
      /\ {"ACKNOWLEDGE", "DRIVER"} \in SUBSET Bits /\ Three \in SUBSET Bits /\ Bits \in SUBSET Bits
  BY Zenon DEF Bits, Three
<1>3. u["STATUS"] \in SUBSET Bits
  BY <1>2, Zenon DEF ResetSteps, StatusAt
<1>4. k + 1 # 1
  BY <1>1
<1>5. k + 1 \in 2 .. 3 => u["STATUS"] = {}
  <2>1. k + 1 \in 2 .. 3 => k = 1 \/ (k \in 2 .. 3 /\ k \notin {1, 3, 5, 15, Up - 2, Up - 1})
    BY <1>1
  <2>. QED
    BY <2>1, Zenon DEF StatusAt, ResetSteps
<1>6. k + 1 \in 4 .. 5 => u["STATUS"] = {"ACKNOWLEDGE"}
  <2>1. k + 1 \in 4 .. 5 => k = 3 \/ (k \in 4 .. 5 /\ k \notin {1, 3, 5, 15, Up - 2, Up - 1})
    BY <1>1
  <2>. QED
    BY <2>1, Zenon DEF StatusAt, ResetSteps
<1>7. k + 1 \in 6 .. 15 => u["STATUS"] = {"ACKNOWLEDGE", "DRIVER"}
  <2>1. k + 1 \in 6 .. 15 => k = 5 \/ (k \in 6 .. 15 /\ k \notin {1, 3, 5, 15, Up - 2, Up - 1})
    BY <1>1
  <2>. QED
    BY <2>1, Zenon DEF StatusAt, ResetSteps
<1>8. k + 1 \in 16 .. Up - 2 => u["STATUS"] = Three
  <2>1. k + 1 \in 16 .. Up - 2 => k = 15 \/ (k \in 16 .. Up - 2 /\ k \notin {1, 3, 5, 15, Up - 2, Up - 1})
    BY <1>1
  <2>. QED
    BY <2>1, Zenon DEF StatusAt, ResetSteps
<1>9. k + 1 = Up - 1 => u["STATUS"] = Bits
  BY <1>1
<1>10. k + 1 >= Up => u["STATUS"] = {}
  <2>1. k + 1 >= Up => k = Up - 1 \/ (k >= Up /\ k \notin {1, 3, 5, 15, Up - 2, Up - 1})
    BY <1>1
  <2>. QED
    BY <2>1, Zenon DEF StatusAt, ResetSteps
<1>. QED
  BY <1>3, <1>4, <1>5, <1>6, <1>7, <1>8, <1>9, <1>10, Zenon DEF StatusAt

\* Where the queues' steps are.
LEMMA QueueSteps ==
  /\ QueueCount \in Nat /\ QueueCount >= 1 /\ Up = 20 + 6 * QueueCount
  /\ LastStep = 19 + 9 * QueueCount
  /\ \A q \in Queues :
       /\ q \in Nat /\ q <= QueueCount - 1
       /\ Top(q) \in Nat /\ Top(q) <= Up
       /\ \A k \in Int : k <= Top(q) => k <= 23 + 6 * q \/ q = QueueCount - 1
       /\ 23 + 6 * q <= Top(q)
<1>1. /\ QueueCount \in Nat /\ QueueCount >= 1 /\ Up = 20 + 6 * QueueCount
      /\ LastStep = 19 + 9 * QueueCount /\ Queues = 0 .. QueueCount - 1
  BY DeviceAssumption DEF DeviceAssumption, Up, LastStep, Queues
<1>2. ASSUME NEW q \in Queues
      PROVE  /\ q \in Nat /\ q <= QueueCount - 1
             /\ Top(q) \in Nat /\ Top(q) <= Up
             /\ \A k \in Int : k <= Top(q) => k <= 23 + 6 * q \/ q = QueueCount - 1
             /\ 23 + 6 * q <= Top(q)
  BY <1>1 DEF Top
<1>. QED
  BY <1>1, <1>2, Zenon

\* The queue part of the window over an access that leaves it alone.
LEMMA QueueKept ==
  ASSUME NEW w, NEW u, NEW s, NEW k \in 1 .. LastStep, QueueAt(w, k, s),
         \A r \in {"QUEUE_SEL", "QUEUE_NUM", "QUEUE_ADDR", "QUEUE_READY"} : u[r] = w[r],
         \A q \in Queues : k \notin {17 + 6 * q, 20 + 6 * q, 21 + 6 * q, 22 + 6 * q, Up + 3 * q}
  PROVE  QueueAt(u, k + 1, s)
<1>1. /\ u["QUEUE_SEL"] = w["QUEUE_SEL"] /\ u["QUEUE_NUM"] = w["QUEUE_NUM"]
      /\ u["QUEUE_ADDR"] = w["QUEUE_ADDR"] /\ u["QUEUE_READY"] = w["QUEUE_READY"]
  BY Zenon
<1>2. k \in Nat
  BY QueueSteps
<1>3. ASSUME NEW q \in Queues, k + 1 \in 18 + 6 * q .. Top(q)
      PROVE  /\ k \in 18 + 6 * q .. Top(q)
             /\ k + 1 <= 20 + 6 * q <=> k <= 20 + 6 * q
             /\ k + 1 <= 21 + 6 * q <=> k <= 21 + 6 * q
             /\ k + 1 <= 22 + 6 * q <=> k <= 22 + 6 * q
  <2>1. k # 17 + 6 * q /\ k # 20 + 6 * q /\ k # 21 + 6 * q /\ k # 22 + 6 * q
    BY Zenon
  <2>. QED
    BY <1>2, <1>3, <2>1, QueueSteps
<1>4. k + 1 > Up => k > Up
  <2>1. 0 \in Queues /\ Up + 3 * 0 = Up
    BY QueueSteps DEF Queues
  <2>2. k # Up
    BY <2>1, Zenon
  <2>. QED
    BY <1>2, <2>2, QueueSteps
<1>. QED
  BY <1>1, <1>3, <1>4, Zenon DEF QueueAt

\* Over the write of QUEUE_SEL.
LEMMA QueueSelected ==
  ASSUME NEW u, NEW s, NEW k \in 1 .. LastStep, NEW q \in Queues,
         k = 17 + 6 * q \/ k = Up + 3 * q,
         u["QUEUE_SEL"] = q, u["QUEUE_NUM"] = 0, u["QUEUE_ADDR"] = 0, u["QUEUE_READY"] = 0
  PROVE  QueueAt(u, k + 1, s)
<1>1. ASSUME NEW p \in Queues, k + 1 \in 18 + 6 * p .. Top(p)
      PROVE  p = q /\ k + 1 <= 20 + 6 * p /\ k + 1 <= 21 + 6 * p /\ k + 1 <= 22 + 6 * p
  BY <1>1, QueueSteps
<1>2. 0 \in Nat /\ 0 \in {0, 1}
  BY Zenon
<1>. QED
  BY <1>1, <1>2, Zenon DEF QueueAt

\* Over the writes of the other queue registers.
LEMMA QueueWritten ==
  ASSUME NEW w, NEW u, NEW s \in {0, 1}, NEW k \in 1 .. LastStep, NEW q \in Queues, QueueAt(w, k, s),
         u["QUEUE_SEL"] = w["QUEUE_SEL"],
         \/ /\ k = 20 + 6 * q /\ u["QUEUE_NUM"] = QueueSize
            /\ u["QUEUE_ADDR"] = w["QUEUE_ADDR"] /\ u["QUEUE_READY"] = w["QUEUE_READY"]
         \/ /\ k = 21 + 6 * q /\ u["QUEUE_ADDR"] = Ring(s, q)
            /\ u["QUEUE_NUM"] = w["QUEUE_NUM"] /\ u["QUEUE_READY"] = w["QUEUE_READY"]
         \/ /\ k = 22 + 6 * q /\ u["QUEUE_READY"] = 1
            /\ u["QUEUE_NUM"] = w["QUEUE_NUM"] /\ u["QUEUE_ADDR"] = w["QUEUE_ADDR"]
  PROVE  QueueAt(u, k + 1, s)
<1>1. /\ k \in 18 + 6 * q .. Top(q) /\ k + 1 \in 18 + 6 * q .. Top(q) /\ ~(k + 1 > Up)
      /\ \A p \in Queues : k + 1 \in 18 + 6 * p .. Top(p) => p = q
  BY QueueSteps
<1>2. /\ w["QUEUE_SEL"] = q
      /\ w["QUEUE_NUM"] = (IF k <= 20 + 6 * q THEN 0 ELSE QueueSize)
      /\ w["QUEUE_ADDR"] = (IF k <= 21 + 6 * q THEN 0 ELSE Ring(s, q))
      /\ w["QUEUE_READY"] = (IF k <= 22 + 6 * q THEN 0 ELSE 1)
  BY <1>1, Zenon DEF QueueAt
<1>3. /\ u["QUEUE_NUM"] = (IF k + 1 <= 20 + 6 * q THEN 0 ELSE QueueSize)
      /\ u["QUEUE_ADDR"] = (IF k + 1 <= 21 + 6 * q THEN 0 ELSE Ring(s, q))
      /\ u["QUEUE_READY"] = (IF k + 1 <= 22 + 6 * q THEN 0 ELSE 1)
  BY <1>2, QueueSteps
<1>4. QueueSize \in Nat /\ Ring(s, q) \in Nat /\ 0 \in Nat
  BY QueueAccesses, DeviceAssumption, Zenon DEF DeviceAssumption
<1>5. /\ u["QUEUE_SEL"] \in Queues
      /\ u["QUEUE_NUM"] \in Nat /\ u["QUEUE_ADDR"] \in Nat /\ u["QUEUE_READY"] \in {0, 1}
  BY <1>2, <1>3, <1>4, Zenon
<1>6. u["QUEUE_SEL"] = q
  BY <1>2, Zenon
<1>. QED
  BY <1>1, <1>3, <1>5, <1>6, Zenon DEF QueueAt

-----------------------------------------------------------------------------
(* The window over the accesses, by register.                              *)

\* The value that axi_uio_write stores.
Stored == CASE Access.op = "write" -> Access.val
            [] Access.op = "status" -> got \cup {Access.val}
            [] Access.op = "features" -> offered[Access.val]

\* Registers of the queues' set-up steps.
LEMMA Registers ==
  \A r \in {"STATUS", "DEVICE_FEATURES_SEL", "DRIVER_FEATURES", "DRIVER_FEATURES_SEL",
            "QUEUE_SEL", "QUEUE_NUM", "QUEUE_ADDR", "QUEUE_READY"} :
    r \in Shadowed /\ r \in Cells
BY Zenon DEF Shadowed, Cells

\* The cells of a window after a write.
Stores(u, r, v) ==
  \A c \in Cells : u[c] = IF c = r THEN v
                          ELSE IF r = "QUEUE_SEL" /\ c \in QueueRegs THEN 0 ELSE window[c]

\* Store is such a write.
LEMMA StoreFacts ==
  ASSUME Types, NEW r, NEW v
  PROVE  Stores(Store(r, v), r, v)
<1>1. DOMAIN window = Cells
  BY Zenon DEF Types
<1>. QED
  BY <1>1, Zenon DEF Store, Stores

\* An access that writes STATUS.
LEMMA StatusWritten ==
  ASSUME Types, GuestKnows, WindowAt(window, step, session, leftover), step \in ResetSteps
  PROVE  /\ Access.reg = "STATUS" /\ Writes("STATUS", step)
         /\ WindowAt(Store("STATUS", Stored), step + 1, session, leftover)
<1>. DEFINE u == Store("STATUS", Stored)
<1>1. session \in {0, 1} /\ step \in 1 .. LastStep /\ leftover \in BOOLEAN
  BY Zenon DEF Types
<1>2. /\ Access.reg = "STATUS"
      /\ step = 1 => Stored = {}
      /\ step = 3 => Stored = got \cup {"ACKNOWLEDGE"}
      /\ step = 5 => Stored = got \cup {"DRIVER"}
      /\ step = 15 => Stored = got \cup {"FEATURES_OK"}
      /\ step = Up - 2 => Stored = got \cup {"DRIVER_OK"}
      /\ step = Up - 1 => Stored = {}
  BY <1>1, Table DEF Is, Access, Stored, ResetSteps
<1>3. /\ step = 3 => Stored = {"ACKNOWLEDGE"}
      /\ step = 5 => Stored = {"ACKNOWLEDGE", "DRIVER"}
      /\ step = 15 => Stored = Three
      /\ step = Up - 2 => Stored = Bits
  BY <1>2, Zenon DEF GuestKnows, Three, Bits
<1>. HIDE DEF u
<1>4. u["STATUS"] = Stored /\ \A c \in Cells : c # "STATUS" => u[c] = window[c]
  <2>1. Stores(u, "STATUS", Stored)
    BY StoreFacts, Zenon DEF u
  <2>. QED
    BY <2>1, Registers, Zenon DEF Stores
<1>5. StatusAt(u, step + 1)
  BY <1>1, <1>2, <1>3, <1>4, StatusOn, Zenon DEF WindowAt
<1>6. /\ u["DEVICE_FEATURES_SEL"] = window["DEVICE_FEATURES_SEL"]
      /\ u["DRIVER_FEATURES_SEL"] = window["DRIVER_FEATURES_SEL"]
      /\ u["DRIVER_FEATURES"] = window["DRIVER_FEATURES"]
      /\ \A r \in {"QUEUE_SEL", "QUEUE_NUM", "QUEUE_ADDR", "QUEUE_READY"} : u[r] = window[r]
  BY <1>4, Registers, Zenon
<1>7. step \notin {6, 8, 10, 11, 12, 13}
  BY QueueSteps DEF ResetSteps
<1>8. \A q \in Queues : step \notin {17 + 6 * q, 20 + 6 * q, 21 + 6 * q, 22 + 6 * q, Up + 3 * q}
  BY QueueSteps DEF ResetSteps
<1>9. SelectorsAt(u, step + 1, leftover)
  BY <1>1, <1>6, <1>7, SelectorsOn, Zenon DEF WindowAt
<1>10. QueueAt(u, step + 1, session)
  BY <1>1, <1>6, <1>8, QueueKept, Zenon DEF WindowAt
<1>11. Writes("STATUS", step)
  BY Zenon DEF Writes, ResetSteps
<1>. QED
  BY <1>2, <1>5, <1>9, <1>10, <1>11, Zenon DEF WindowAt, u

\* An access that writes one of the registers for the features.
LEMMA FeaturesWritten ==
  ASSUME Types, GuestKnows, WindowAt(window, step, session, leftover), step \in {6, 8, 10, 11, 12, 13}
  PROVE  /\ Access.reg \in {"DEVICE_FEATURES_SEL", "DRIVER_FEATURES", "DRIVER_FEATURES_SEL"}
         /\ Writes(Access.reg, step)
         /\ WindowAt(Store(Access.reg, Stored), step + 1, session, leftover)
<1>. DEFINE r == Access.reg
            u == Store(r, Stored)
<1>1. session \in {0, 1} /\ step \in 1 .. LastStep /\ leftover \in BOOLEAN
  BY Zenon DEF Types
<1>2. /\ step \in {6, 8} => r = "DEVICE_FEATURES_SEL"
      /\ step \in {10, 12} => r = "DRIVER_FEATURES_SEL"
      /\ step \in {11, 13} => r = "DRIVER_FEATURES"
      /\ step \in {6, 10} => Stored = 1
      /\ step \in {8, 12} => Stored = 0
      /\ step = 11 => Stored = offered[1]
      /\ step = 13 => Stored = offered[0]
  BY <1>1, Table DEF Is, Access, Stored
<1>3. step = 11 => Stored \in (IF leftover THEN Words ELSE {Features[1]})
  <2>1. offered[1] \in Words
    BY DEF Types, Banks
  <2>2. step = 11 /\ ~leftover => offered[1] = Features[1]
    BY DEF GuestKnows
  <2>. QED
    BY <1>2, <2>1, <2>2, Zenon
<1>4. step = 13 => Stored = Features[0]
  BY <1>2 DEF GuestKnows
<1>5. r \in {"DEVICE_FEATURES_SEL", "DRIVER_FEATURES", "DRIVER_FEATURES_SEL"} /\ Writes(r, step)
  BY <1>2, Zenon DEF Writes
<1>. HIDE DEF u, r
<1>6. u[r] = Stored /\ \A c \in Cells : c # r => u[c] = window[c]
  <2>1. r # "QUEUE_SEL" /\ r \in Cells
    BY <1>5, Registers, Zenon
  <2>2. Stores(u, r, Stored)
    BY StoreFacts, Zenon DEF u
  <2>. QED
    BY <2>1, <2>2, Zenon DEF Stores
<1>7. SelectorsAt(u, step + 1, leftover)
  <2>1. u["DEVICE_FEATURES_SEL"] = (IF step = 6 THEN 1 ELSE IF step = 8 THEN 0
                                    ELSE window["DEVICE_FEATURES_SEL"])
    BY <1>2, <1>5, <1>6, Registers, Zenon
  <2>2. u["DRIVER_FEATURES_SEL"] = (IF step = 10 THEN 1 ELSE IF step = 12 THEN 0
                                    ELSE window["DRIVER_FEATURES_SEL"])
    BY <1>2, <1>5, <1>6, Registers, Zenon
  <2>3. /\ step = 11 => u["DRIVER_FEATURES"] \in (IF leftover THEN Words ELSE {Features[1]})
        /\ step = 13 => u["DRIVER_FEATURES"] = Features[0]
        /\ step \notin {11, 13} => u["DRIVER_FEATURES"] = window["DRIVER_FEATURES"]
    BY <1>2, <1>3, <1>4, <1>5, <1>6, Registers, Zenon
  <2>. QED
    BY <1>1, <2>1, <2>2, <2>3, SelectorsOn, Zenon DEF WindowAt
<1>8. StatusAt(u, step + 1)
  <2>1. step \notin ResetSteps
    BY QueueSteps DEF ResetSteps
  <2>2. u["STATUS"] = window["STATUS"]
    BY <1>5, <1>6, Registers, Zenon
  <2>. QED
    BY <1>1, <2>1, <2>2, StatusOn, Zenon DEF WindowAt, ResetSteps
<1>9. QueueAt(u, step + 1, session)
  <2>1. \A q \in Queues : step \notin {17 + 6 * q, 20 + 6 * q, 21 + 6 * q, 22 + 6 * q, Up + 3 * q}
    BY QueueSteps
  <2>2. \A c \in {"QUEUE_SEL", "QUEUE_NUM", "QUEUE_ADDR", "QUEUE_READY"} : u[c] = window[c]
    BY <1>5, <1>6, Registers, Zenon
  <2>. QED
    BY <1>1, <2>1, <2>2, QueueKept, Zenon DEF WindowAt
<1>. QED
  BY <1>5, <1>7, <1>8, <1>9, Zenon DEF WindowAt, u, r

\* An access that writes a register of a queue.
LEMMA QueueRegWritten ==
  ASSUME Types, WindowAt(window, step, session, leftover), NEW q \in Queues,
         step \in {17 + 6 * q, 20 + 6 * q, 21 + 6 * q, 22 + 6 * q, Up + 3 * q, Up + 1 + 3 * q}
  PROVE  /\ Access.reg \in {"QUEUE_SEL", "QUEUE_NUM", "QUEUE_ADDR", "QUEUE_READY"}
         /\ Access.reg \in {"QUEUE_NUM", "QUEUE_ADDR"} => step \in {20 + 6 * q, 21 + 6 * q}
         /\ Writes(Access.reg, step)
         /\ WindowAt(Store(Access.reg, Stored), step + 1, session, leftover)
<1>. DEFINE r == Access.reg
            u == Store(r, Stored)
<1>1. session \in {0, 1} /\ step \in 1 .. LastStep /\ leftover \in BOOLEAN
  BY Zenon DEF Types
<1>2. /\ step \in {17 + 6 * q, Up + 3 * q} => r = "QUEUE_SEL" /\ Stored = q
      /\ step = 20 + 6 * q => r = "QUEUE_NUM" /\ Stored = QueueSize
      /\ step = 21 + 6 * q => r = "QUEUE_ADDR" /\ Stored = Ring(session, q)
      /\ step = 22 + 6 * q => r = "QUEUE_READY" /\ Stored = 1
      /\ step = Up + 1 + 3 * q => r = "QUEUE_READY" /\ Stored = 0
  BY <1>1, Table DEF Is, Access, Stored
<1>3. /\ r \in {"QUEUE_SEL", "QUEUE_NUM", "QUEUE_ADDR", "QUEUE_READY"}
      /\ r \in {"QUEUE_NUM", "QUEUE_ADDR"} => step \in {20 + 6 * q, 21 + 6 * q}
  BY <1>2, Zenon
<1>4. Writes(r, step)
  BY <1>2, Zenon DEF Writes, SelStep, ReadyStep
<1>. HIDE DEF u, r
<1>5. \A c \in Cells : u[c] = IF c = r THEN Stored
                              ELSE IF r = "QUEUE_SEL" /\ c \in QueueRegs THEN 0 ELSE window[c]
  <2>1. Stores(u, r, Stored)
    BY StoreFacts, Zenon DEF u
  <2>. QED
    BY <2>1, Zenon DEF Stores
<1>6. /\ u["STATUS"] = window["STATUS"]
      /\ u["DEVICE_FEATURES_SEL"] = window["DEVICE_FEATURES_SEL"]
      /\ u["DRIVER_FEATURES_SEL"] = window["DRIVER_FEATURES_SEL"]
      /\ u["DRIVER_FEATURES"] = window["DRIVER_FEATURES"]
  BY <1>3, <1>5, Registers, Zenon DEF QueueRegs
<1>7. step \notin {6, 8, 10, 11, 12, 13} /\ step \notin ResetSteps
  BY QueueSteps DEF ResetSteps
<1>8. SelectorsAt(u, step + 1, leftover)
  BY <1>1, <1>6, <1>7, SelectorsOn, Zenon DEF WindowAt
<1>9. StatusAt(u, step + 1)
  BY <1>1, <1>6, <1>7, StatusOn, Zenon DEF WindowAt, ResetSteps
<1>10. QueueAt(u, step + 1, session)
  <2>1. QueueAt(window, step, session)
    BY Zenon DEF WindowAt
  <2>2. CASE step \in {17 + 6 * q, Up + 3 * q}
    <3>1. u["QUEUE_SEL"] = q /\ u["QUEUE_NUM"] = 0 /\ u["QUEUE_ADDR"] = 0 /\ u["QUEUE_READY"] = 0
      BY <1>2, <1>5, <2>2, Registers, Zenon DEF QueueRegs
    <3>. QED
      BY <1>1, <2>2, <3>1, QueueSelected, Zenon
  <2>3. CASE step \in {20 + 6 * q, 21 + 6 * q, 22 + 6 * q}
    <3>1. /\ u["QUEUE_SEL"] = window["QUEUE_SEL"]
          /\ r # "QUEUE_NUM" => u["QUEUE_NUM"] = window["QUEUE_NUM"]
          /\ r # "QUEUE_ADDR" => u["QUEUE_ADDR"] = window["QUEUE_ADDR"]
          /\ r # "QUEUE_READY" => u["QUEUE_READY"] = window["QUEUE_READY"]
          /\ u[r] = Stored
      BY <1>2, <1>5, <2>3, Registers, Zenon
    <3>2. \/ /\ step = 20 + 6 * q /\ u["QUEUE_NUM"] = QueueSize
             /\ u["QUEUE_ADDR"] = window["QUEUE_ADDR"] /\ u["QUEUE_READY"] = window["QUEUE_READY"]
          \/ /\ step = 21 + 6 * q /\ u["QUEUE_ADDR"] = Ring(session, q)
             /\ u["QUEUE_NUM"] = window["QUEUE_NUM"] /\ u["QUEUE_READY"] = window["QUEUE_READY"]
          \/ /\ step = 22 + 6 * q /\ u["QUEUE_READY"] = 1
             /\ u["QUEUE_NUM"] = window["QUEUE_NUM"] /\ u["QUEUE_ADDR"] = window["QUEUE_ADDR"]
      BY <1>2, <2>3, <3>1, Zenon
    <3>. QED
      BY <1>1, <2>1, <3>1, <3>2, QueueWritten, Zenon
  <2>4. CASE step = Up + 1 + 3 * q
    <3>1. /\ u["QUEUE_SEL"] = window["QUEUE_SEL"] /\ u["QUEUE_NUM"] = window["QUEUE_NUM"]
          /\ u["QUEUE_ADDR"] = window["QUEUE_ADDR"] /\ u["QUEUE_READY"] = 0
      BY <1>2, <1>5, <2>4, Registers, Zenon
    <3>2. step > Up
      BY <2>4, QueueSteps
    <3>3. window["QUEUE_READY"] = 0
      BY <2>1, <3>2, Zenon DEF QueueAt
    <3>4. \A c \in {"QUEUE_SEL", "QUEUE_NUM", "QUEUE_ADDR", "QUEUE_READY"} : u[c] = window[c]
      BY <3>1, <3>3, Zenon
    <3>5. \A p \in Queues : step \notin {17 + 6 * p, 20 + 6 * p, 21 + 6 * p, 22 + 6 * p, Up + 3 * p}
      BY <2>4, QueueSteps
    <3>. QED
      BY <1>1, <2>1, <3>4, <3>5, QueueKept, Zenon
  <2>. QED
    BY <2>2, <2>3, <2>4, Zenon
<1>. QED
  BY <1>3, <1>4, <1>8, <1>9, <1>10, Zenon DEF WindowAt, u, r

\* An access that reads leaves the window as it should be for the next.
LEMMA ReadOn ==
  ASSUME Types, WindowAt(window, step, session, leftover), ReadStep(step)
  PROVE  WindowAt(window, step + 1, session, leftover)
<1>1. session \in {0, 1} /\ step \in 1 .. LastStep /\ leftover \in BOOLEAN
  BY Zenon DEF Types
<1>2. /\ step \notin {6, 8, 10, 11, 12, 13} /\ step \notin ResetSteps
      /\ \A q \in Queues : step \notin {17 + 6 * q, 20 + 6 * q, 21 + 6 * q, 22 + 6 * q, Up + 3 * q}
  BY QueueSteps DEF ReadStep, ResetSteps
<1>3. SelectorsAt(window, step + 1, leftover)
  BY <1>1, <1>2, SelectorsOn, Zenon DEF WindowAt
<1>4. StatusAt(window, step + 1)
  BY <1>1, <1>2, StatusOn, Zenon DEF WindowAt, ResetSteps
<1>5. QueueAt(window, step + 1, session)
  BY <1>1, <1>2, QueueKept, Zenon DEF WindowAt
<1>. QED
  BY <1>3, <1>4, <1>5, Zenon DEF WindowAt

\* The registers for the features are as before the first negotiation or after the last.
Clear(w) ==
  /\ w["DEVICE_FEATURES_SEL"] = 0 /\ w["DRIVER_FEATURES_SEL"] = 0
  /\ w["DRIVER_FEATURES"] \in {0, Features[0]}

\* The window after the last access, and at a reboot, is one for a new probe.
LEMMA Anew ==
  ASSUME NEW w, NEW k \in 1 .. LastStep + 1, NEW s, NEW z, NEW l \in BOOLEAN,
         NEW m \in BOOLEAN, WindowAt(w, k, s, l), k > LastStep \/ m \/ Clear(w)
  PROVE  WindowAt(w, 1, z, m)
<1>1. k \in Nat
  BY QueueSteps
<1>2. k > LastStep => k >= 14 /\ k \notin {7, 8} /\ k \notin {11, 12} /\ ~(k <= 6) /\ ~(k <= 10)
  BY <1>1, QueueSteps
<1>3. k > LastStep => Clear(w)
  BY <1>2, Zenon DEF WindowAt, SelectorsAt, Clear
<1>4. /\ w["DEVICE_FEATURES_SEL"] \in {0, 1} /\ w["DRIVER_FEATURES_SEL"] \in {0, 1}
      /\ w["DRIVER_FEATURES"] \in Words
  BY Zenon DEF WindowAt, SelectorsAt, Words
<1>5. SelectorsAt(w, 1, m)
  <2>1. 1 \notin {7, 8} /\ 1 <= 6 /\ 1 \notin {11, 12} /\ 1 <= 10 /\ ~(1 >= 14) /\ 1 <= 11
    OBVIOUS
  <2>. QED
    BY <1>3, <1>4, <2>1, Zenon DEF SelectorsAt, Clear
<1>6. StatusAt(w, 1)
  <2>1. 1 \notin 2 .. 3 /\ 1 \notin 4 .. 5 /\ 1 \notin 6 .. 15 /\ 1 \notin 16 .. Up - 2
        /\ 1 # Up - 1 /\ ~(1 >= Up)
    BY QueueSteps
  <2>2. w["STATUS"] \in SUBSET Bits
    BY Zenon DEF WindowAt, StatusAt
  <2>. QED
    BY <2>1, <2>2, Zenon DEF StatusAt
<1>7. QueueAt(w, 1, z)
  <2>1. ~(1 > Up) /\ \A q \in Queues : 1 \notin 18 + 6 * q .. Top(q)
    BY QueueSteps
  <2>. QED
    BY <2>1, Zenon DEF WindowAt, QueueAt
<1>. QED
  BY <1>5, <1>6, <1>7, Zenon DEF WindowAt

-----------------------------------------------------------------------------
(* The device over one access.                                             *)

\* Places of the registers.
LEMMA Places ==
  /\ Place("DEVICE_FEATURES_SEL") = 1 /\ Place("DRIVER_FEATURES") = 2
  /\ Place("DRIVER_FEATURES_SEL") = 3 /\ Place("QUEUE_SEL") = 4 /\ Place("QUEUE_NUM") = 5
  /\ Place("QUEUE_ADDR") = 6 /\ Place("QUEUE_READY") = 7 /\ Place("STATUS") = 8
  /\ \A r \in Shadowed : Place(r) \in 1 .. 8
  /\ \A r \in QueueRegs : Place(r) \in 5 .. 7 /\ r \in Shadowed
<1>1. /\ Place("DEVICE_FEATURES_SEL") = 1 /\ Place("DRIVER_FEATURES") = 2
      /\ Place("DRIVER_FEATURES_SEL") = 3 /\ Place("QUEUE_SEL") = 4 /\ Place("QUEUE_NUM") = 5
      /\ Place("QUEUE_ADDR") = 6 /\ Place("QUEUE_READY") = 7 /\ Place("STATUS") = 8
  BY Zenon DEF Place
<1>2. \A r \in Shadowed : Place(r) \in 1 .. 8
  BY <1>1 DEF Shadowed
<1>3. \A r \in QueueRegs : Place(r) \in 5 .. 7 /\ r \in Shadowed
  BY <1>1 DEF Shadowed, QueueRegs
<1>. QED
  BY <1>1, <1>2, <1>3, Zenon

\* The same place in the scan, as far as the registers are concerned.
Alike(p, o) == \A n \in 1 .. 8 : p > n <=> o > n

\* What is asked of the device at two such places is the same.
LEMMA AlikeHolds ==
  ASSUME NEW k, NEW p \in 0 .. 13, NEW o \in 0 .. 13, Alike(p, o)
  PROVE  /\ FollowsAt(k, p, leftover) => FollowsAt(k, o, leftover)
         /\ BanksAt(k, p, leftover) => BanksAt(k, o, leftover)
         /\ QueuesAt(k, p) => QueuesAt(k, o)
<1>1. /\ p > 4 <=> o > 4
      /\ p > 2 <=> o > 2
      /\ p > 7 <=> o > 7
  BY DEF Alike
<1>2. \A r \in QueueRegs : p > Place(r) <=> o > Place(r)
  BY Places, Zenon DEF Alike
<1>3. FollowsAt(k, p, leftover) => FollowsAt(k, o, leftover)
  BY <1>1, Zenon DEF FollowsAt
<1>4. BanksAt(k, p, leftover) => BanksAt(k, o, leftover)
  BY <1>1, Zenon DEF BanksAt
<1>5. \A q \in Queues : QueueFollows(q, k, p) => QueueFollows(q, k, o)
  BY <1>1, <1>2, Zenon DEF QueueFollows
<1>. QED
  BY <1>3, <1>4, <1>5, Zenon DEF QueuesAt

\* What the device has once access k - 1 is over is what it has when k has been asked for.
LEMMA Asked ==
  ASSUME NEW k \in 1 .. LastStep, k = 4 => mmio.status # {}, k = 2 => mmio.status = {}
  PROVE  /\ FollowsAt(k, 13, leftover) => FollowsAt(k + 1, 0, leftover)
         /\ BanksAt(k, 13, leftover) => BanksAt(k + 1, 0, leftover)
         /\ QueuesAt(k, 13) => QueuesAt(k + 1, 0)
<1>1. k \in Nat /\ k >= 1
  BY QueueSteps
<1>2. FollowsAt(k, 13, leftover) => FollowsAt(k + 1, 0, leftover)
  <2>1. k + 1 \in 5 .. Up - 1 => k = 4 \/ k \in 5 .. Up - 1
    BY <1>1, QueueSteps
  <2>2. k + 1 \in 19 .. Up \/ (k + 1 = 18 /\ 0 > 4) => k \in 19 .. Up \/ (k = 18 /\ 13 > 4)
    BY <1>1, QueueSteps
  <2>. QED
    BY <2>1, <2>2, Zenon DEF FollowsAt
<1>3. k + 1 > 2 /\ mmio.status # {} => k > 2
  BY <1>1
<1>4. BanksAt(k, 13, leftover) => BanksAt(k + 1, 0, leftover)
  <2>1. /\ k + 1 > 12 \/ (k + 1 = 12 /\ 0 > 2) <=> k > 12 \/ (k = 12 /\ 13 > 2)
        /\ k + 1 > 14 \/ (k + 1 = 14 /\ 0 > 2) <=> k > 14 \/ (k = 14 /\ 13 > 2)
    BY <1>1
  <2>. QED
    BY <1>3, <2>1, Zenon DEF BanksAt
<1>5. ASSUME NEW q \in Queues, QueueFollows(q, k, 13)
      PROVE  QueueFollows(q, k + 1, 0)
  <2>1. k >= 23 + 6 * q => k + 1 >= 23 + 6 * q
    BY <1>1, QueueSteps
  <2>2. k + 1 > 23 + 6 * q \/ (k + 1 = 23 + 6 * q /\ 0 > 7) => k > 23 + 6 * q \/ (k = 23 + 6 * q /\ 13 > 7)
    BY <1>1, QueueSteps
  <2>3. \A r \in QueueRegs : k + 1 \in 18 + 6 * q .. Top(q) /\ (k + 1 > 18 + 6 * q \/ 0 > Place(r)) =>
          k \in 18 + 6 * q .. Top(q) /\ (k > 18 + 6 * q \/ 13 > Place(r))
    BY <1>1, QueueSteps, Places
  <2>. QED
    BY <1>5, <2>1, <2>2, <2>3, Zenon DEF QueueFollows
<1>. QED
  BY <1>2, <1>3, <1>4, <1>5, Zenon DEF QueuesAt

\* An access that the daemon need not see changes nothing that it should know.
LEMMA Unasked ==
  ASSUME NEW k \in 1 .. LastStep, k = 4 => mmio.status # {}, k = 2 => mmio.status = {},
         k \notin {11, 13}, \A q \in Queues : k \notin {17 + 6 * q, 22 + 6 * q}
  PROVE  /\ FollowsAt(k, 13, leftover) => FollowsAt(k + 1, 13, leftover)
         /\ BanksAt(k, 13, leftover) => BanksAt(k + 1, 13, leftover)
         /\ QueuesAt(k, 13) => QueuesAt(k + 1, 13)
<1>1. k \in Nat /\ k >= 1
  BY QueueSteps
<1>2. FollowsAt(k, 13, leftover) => FollowsAt(k + 1, 13, leftover)
  <2>1. k + 1 \in 5 .. Up - 1 => k = 4 \/ k \in 5 .. Up - 1
    BY <1>1, QueueSteps
  <2>2. k # 17
    <3>1. 0 \in Queues /\ 17 + 6 * 0 = 17
      BY QueueSteps DEF Queues
    <3>. QED
      BY <3>1, Zenon
  <2>3. k + 1 \in 19 .. Up \/ (k + 1 = 18 /\ 13 > 4) => k \in 19 .. Up \/ (k = 18 /\ 13 > 4)
    BY <1>1, <2>2, QueueSteps
  <2>. QED
    BY <2>1, <2>3, Zenon DEF FollowsAt
<1>3. k + 1 > 2 /\ mmio.status # {} => k = 1 \/ k > 2
  BY <1>1
<1>4. BanksAt(k, 13, leftover) => BanksAt(k + 1, 13, leftover)
  <2>1. /\ k + 1 > 12 \/ (k + 1 = 12 /\ 13 > 2) <=> k > 12 \/ (k = 12 /\ 13 > 2)
        /\ k + 1 > 14 \/ (k + 1 = 14 /\ 13 > 2) <=> k > 14 \/ (k = 14 /\ 13 > 2)
    BY <1>1
  <2>2. k + 1 > 2 => k # 1
    BY <1>1
  <2>. QED
    BY <1>3, <2>1, <2>2, Zenon DEF BanksAt
<1>5. ASSUME NEW q \in Queues, QueueFollows(q, k, 13)
      PROVE  QueueFollows(q, k + 1, 13)
  <2>0. k # 17 + 6 * q /\ k # 22 + 6 * q
    BY Zenon
  <2>1. k >= 23 + 6 * q => k + 1 >= 23 + 6 * q
    BY <1>1, QueueSteps
  <2>2. k + 1 > 23 + 6 * q \/ (k + 1 = 23 + 6 * q /\ 13 > 7) => k > 23 + 6 * q \/ (k = 23 + 6 * q /\ 13 > 7)
    BY <1>1, <2>0, QueueSteps
  <2>3. \A r \in QueueRegs : k + 1 \in 18 + 6 * q .. Top(q) /\ (k + 1 > 18 + 6 * q \/ 13 > Place(r)) =>
          k \in 18 + 6 * q .. Top(q) /\ (k > 18 + 6 * q \/ 13 > Place(r))
    BY <1>1, <2>0, QueueSteps, Places
  <2>. QED
    BY <1>5, <2>1, <2>2, <2>3, Zenon DEF QueueFollows
<1>6. k + 1 > 2 => k # 1
  BY <1>1
<1>. QED
  BY <1>2, <1>3, <1>4, <1>5, <1>6, Zenon DEF QueuesAt

\* What a driver that starts anew needs of the device.
LEMMA FollowsAnew ==
  ASSUME NEW k, NEW p, NEW l, NEW m \in BOOLEAN, FollowsAt(k, p, l),
         m \/ (shadow["DEVICE_FEATURES_SEL"] = 0 /\ shadow["DRIVER_FEATURES_SEL"] = 0)
  PROVE  FollowsAt(1, 13, m) /\ BanksAt(1, 13, m) /\ QueuesAt(1, 13)
<1>1. 1 \notin 5 .. Up - 1 /\ 1 \notin 19 .. Up /\ ~(1 = 18 /\ 13 > 4) /\ ~(1 > 2)
  OBVIOUS
<1>. QED
  BY <1>1, Zenon DEF FollowsAt, BanksAt, QueuesAt

\* The device state is a function of mmio, shadow and session.
LEMMA Carried ==
  ASSUME UNCHANGED <<shadow, mmio>>
  PROVE  /\ FollowsAt(Reached', Pos', leftover') => FollowsAt(Reached, Pos, leftover)'
         /\ BanksAt(Reached', Pos', leftover') => BanksAt(Reached, Pos, leftover)'
         /\ session' = session \/ Reached' = 1 => (QueuesAt(Reached', Pos') => QueuesAt(Reached, Pos)')
<1>1. shadow' = shadow /\ mmio' = mmio
  BY Zenon
<1>2. ~(1 > 2)
  OBVIOUS
<1>3. session' = session => \A q \in Queues : QueueFollows(q, Reached', Pos') => QueueFollows(q, Reached, Pos)'
  BY <1>1, Zenon DEF QueueFollows, Ring
<1>4. FollowsAt(Reached', Pos', leftover') => FollowsAt(Reached, Pos, leftover)'
  BY <1>1, Zenon DEF FollowsAt
<1>5. BanksAt(Reached', Pos', leftover') => BanksAt(Reached, Pos, leftover)'
  BY <1>1 DEF BanksAt
<1>6. Reached' = 1 => QueuesAt(Reached, Pos)'
  BY <1>2, Zenon DEF QueuesAt
<1>7. session' = session => (QueuesAt(Reached', Pos') => QueuesAt(Reached, Pos)')
  BY <1>1, <1>3, Zenon DEF QueuesAt
<1>. QED
  BY <1>4, <1>5, <1>6, <1>7, Zenon

-----------------------------------------------------------------------------
(* The daemon at rest.                                                     *)

\* The registers whose window cell and shadow agree when the daemon rests.
Plain == Shadowed \ {"QUEUE_NUM", "QUEUE_ADDR"}

\* The daemon has nothing to do.
Idle == toBack = 0 /\ events = 0 /\ at = 0

\* The state then.
LEMMA AtRest ==
  ASSUME SetupInv, Idle
  PROVE  /\ Pos = 13 /\ reload = 0 /\ lower = FALSE
         /\ \A r \in Plain : shadow[r] = window[r]
         /\ window["DEVICE_FEATURES"] = virtio_mmio_read(mmio, "DEVICE_FEATURES")
         /\ window["QUEUE_NUM_MAX"] = QueueSize
         /\ Reached = 4 => mmio.status # {}
         /\ Reached \in {2, 3} => mmio.status = {}
<1>1. Pos = 13
  BY DEF Idle, Pos
<1>2. reload \in 0 .. 3 /\ lower \in BOOLEAN /\ at = 0
  BY Zenon DEF SetupInv, Types, Idle
<1>3. reload = 0 /\ lower = FALSE
  <2>1. (reload > 0 => at = 5) /\ (lower => at > 8)
    BY Zenon DEF SetupInv, OneWakeup
  <2>2. reload = 0
    BY <1>2, <2>1
  <2>3. ~lower
    BY <1>2, <2>1
  <2>. QED
    BY <1>2, <2>2, <2>3, Zenon
<1>4. \A r \in Plain : shadow[r] = window[r]
  <2>1. \A r \in Plain : ~(13 <= Place(r))
    BY Places DEF Plain
  <2>2. \A r \in Plain : shadow[r] # window[r] => Pos <= Place(r)
    BY Zenon DEF SetupInv, Synced, Plain
  <2>. QED
    BY <1>1, <2>1, <2>2, Zenon
<1>5. /\ window["DEVICE_FEATURES"] = virtio_mmio_read(mmio, "DEVICE_FEATURES")
      /\ window["QUEUE_NUM_MAX"] = QueueSize
  BY <1>1 DEF SetupInv, Fresh
<1>6. mmio.status = window["STATUS"]
  <2>1. "STATUS" \in Plain
    BY Zenon DEF Plain, Shadowed
  <2>2. mmio.status = shadow["STATUS"]
    BY Zenon DEF SetupInv, FollowsAt
  <2>. QED
    BY <1>4, <2>1, <2>2, Zenon
<1>7. /\ Reached = 4 => window["STATUS"] = {"ACKNOWLEDGE"}
      /\ Reached \in {2, 3} => window["STATUS"] = {}
  BY DEF SetupInv, WindowAt, StatusAt
<1>8. {"ACKNOWLEDGE"} # {}
  BY Zenon
<1>. QED
  BY <1>1, <1>3, <1>4, <1>5, <1>6, <1>7, <1>8, Zenon

\* The window's state in the next state.
LEMMA WindowPrimed ==
  ASSUME WindowAt(window', Reached', session', leftover')
  PROVE  WindowAt(window, Reached, session, leftover)'
BY Zenon DEF WindowAt, SelectorsAt, StatusAt, QueueAt, Ring

\* An access is handed to the daemon.
LEMMA Notified ==
  ASSUME SetupInv, driver = "run", axi_uio_notify_backend, UNCHANGED <<barrier, daemonVars>>,
         window' = [c \in Cells |-> window'[c]],
         WindowAt(window', step + 1, session, leftover),
         \A r \in Plain : window'[r] # window[r] => Writes(r, step)
  PROVE  SetupInv' /\ (BanksFollow => BanksFollow')
<1>1. Settled /\ Reached = step
  BY Zenon DEF SetupInv, OneWakeup, Reached
<1>2. /\ driver' = "wait" /\ toBack' = 1 /\ events' = 0 /\ acks' = 0 /\ at' = 0
      /\ step' = step /\ session' = session /\ got' = got /\ offered' = offered
      /\ leftover' = leftover /\ reload' = reload /\ shadow' = shadow /\ lower' = lower /\ mmio' = mmio
      /\ barrier' = barrier
  BY <1>1 DEF axi_uio_notify_backend, Settled, daemonVars
<1>3. /\ Pos = 13 /\ reload = 0 /\ lower = FALSE
      /\ \A r \in Plain : shadow[r] = window[r]
      /\ step = 4 => mmio.status # {}
      /\ step = 2 => mmio.status = {}
  <2>1. 2 \in {2, 3}
    BY Zenon
  <2>. QED
    BY <1>1, <2>1, AtRest, Zenon DEF Settled, Idle
<1>4. Reached' = step + 1 /\ Pos' = 0
  BY <1>2 DEF Reached, Pos
<1>5. step \in 1 .. LastStep
  BY Zenon DEF SetupInv, Types
<1>6. Types'
  <2>1. /\ driver' \in {"run", "wait"} /\ toBack' \in {0, 1} /\ events' \in {0, 1} /\ acks' \in {0, 1}
        /\ at' \in 0 .. 12
    BY <1>2
  <2>. QED
    BY <1>2, <2>1, Zenon DEF SetupInv, Types
<1>7. OneWakeup'
  <2>1. driver' # "run" /\ ~(reload' > 0) /\ ~lower' /\ ~(at' > 0) /\ events' # 1
    BY <1>2, <1>3
  <2>. QED
    BY <1>2, <2>1, Zenon DEF OneWakeup
<1>8. GuestKnows'
  BY <1>2, Zenon DEF SetupInv, GuestKnows
<1>9. WindowAt(window, Reached, session, leftover)'
  <2>1. WindowAt(window', Reached', session', leftover')
    BY <1>2, <1>4, Zenon
  <2>. QED
    BY <2>1, WindowPrimed, Zenon
<1>10. Synced'
  <2>1. \A r \in Shadowed : 0 <= Place(r) /\ ~(0 > Place(r))
    BY Places
  <2>2. "QUEUE_NUM" \in Shadowed /\ "QUEUE_ADDR" \in Shadowed /\ "DRIVER_FEATURES" \in Plain
    BY Zenon DEF Shadowed, Plain
  <2>3. Reached' = 12 => step = 11
    BY <1>4, <1>5, QueueSteps
  <2>4. Reached' = 14 => step = 13
    BY <1>4, <1>5, QueueSteps
  <2>5. SelectorsAt(window, step, leftover)
    BY <1>1, Zenon DEF SetupInv, WindowAt
  <2>6. step = 11 /\ ~leftover => window["DRIVER_FEATURES"] \in {0, Features[0]}
    BY <2>5 DEF SelectorsAt
  <2>7. step = 13 /\ ~leftover => window["DRIVER_FEATURES"] = Features[1]
    BY <2>5 DEF SelectorsAt
  <2>8. \A r \in Shadowed \ {"QUEUE_NUM", "QUEUE_ADDR"} :
          shadow'[r] # window'[r] => driver' = "wait" /\ Pos' <= Place(r) /\ Writes(r, step')
    BY <1>2, <1>3, <1>4, <2>1, Zenon DEF Plain
  <2>9. \A r \in {"QUEUE_NUM", "QUEUE_ADDR"} : ~(Pos' > Place(r))
    BY <1>4, <2>1, <2>2, Zenon
  <2>10. Reached' = 12 /\ ~leftover' => shadow'["DRIVER_FEATURES"] \in {0, Features[0]}
    BY <1>2, <1>3, <2>2, <2>3, <2>6, Zenon
  <2>11. Reached' = 14 /\ ~leftover' => shadow'["DRIVER_FEATURES"] = Features[1]
    BY <1>2, <1>3, <2>2, <2>4, <2>7, Zenon
  <2>12. \A r \in Shadowed \ {"QUEUE_NUM", "QUEUE_ADDR"} :
           Writes(r, step') = Writes(r, step)'
    BY Zenon DEF Writes, SelStep, ReadyStep
  <2>. QED
    BY <2>8, <2>9, <2>10, <2>11, <2>12, Zenon DEF Synced, Place
<1>11. FollowsAt(step + 1, 0, leftover) /\ QueuesAt(step + 1, 0) /\ (BanksFollow => BanksAt(step + 1, 0, leftover))
  BY <1>1, <1>3, <1>5, Asked, Zenon DEF SetupInv, BanksFollow
<1>12. FollowsAt(Reached, Pos, leftover)' /\ QueuesAt(Reached, Pos)' /\ (BanksFollow => BanksFollow')
  <2>1. /\ FollowsAt(Reached', Pos', leftover') /\ QueuesAt(Reached', Pos')
        /\ BanksFollow => BanksAt(Reached', Pos', leftover')
    BY <1>2, <1>4, <1>11, Zenon
  <2>. QED
    BY <1>2, <2>1, Carried, Zenon DEF BanksFollow
<1>13. Fresh'
  <2>1. ~(0 >= 10) /\ ~(0 >= 11)
    OBVIOUS
  <2>. QED
    BY <1>4, <2>1, Zenon DEF Fresh
<1>. QED
  BY <1>6, <1>7, <1>8, <1>9, <1>10, <1>12, <1>13, Zenon DEF SetupInv

-----------------------------------------------------------------------------
(* What the driver reads.                                                  *)

\* The values that the driver reads.
LEMMA ReadValues ==
  ASSUME SetupInv, Idle
  PROVE  /\ step = 2 => window["STATUS"] = {}
         /\ step = 4 => window["STATUS"] = {"ACKNOWLEDGE"}
         /\ step = 14 => window["STATUS"] = {"ACKNOWLEDGE", "DRIVER"}
         /\ step \in {16, Up - 3} => window["STATUS"] = Three
         /\ window["STATUS"] \in SUBSET Bits
         /\ step = 7 /\ ~leftover => window["DEVICE_FEATURES"] = Features[1]
         /\ step = 9 => window["DEVICE_FEATURES"] = Features[0]
         /\ window["DEVICE_FEATURES"] \in Words
         /\ \A q \in Queues : step \in {18 + 6 * q, Up + 2 + 3 * q} => window["QUEUE_READY"] = 0
         /\ window["QUEUE_NUM_MAX"] = QueueSize
<1>1. step \in Nat /\ (Reached = step \/ Reached = step + 1)
  BY QueueSteps DEF SetupInv, Types, Reached
<1>2. StatusAt(window, Reached) /\ SelectorsAt(window, Reached, leftover) /\ QueueAt(window, Reached, session)
  BY Zenon DEF SetupInv, WindowAt
<1>3. /\ step = 2 => Reached \in 2 .. 3
      /\ step = 4 => Reached \in 4 .. 5
      /\ step = 14 => Reached \in 6 .. 15
      /\ step \in {16, Up - 3} => Reached \in 16 .. Up - 2
      /\ step = 7 => Reached \in {7, 8}
      /\ step = 9 => Reached \notin {7, 8} /\ ~(Reached <= 6)
  BY <1>1, QueueSteps
<1>4. \A q \in Queues : /\ step = 18 + 6 * q => Reached \in 18 + 6 * q .. Top(q) /\ Reached <= 22 + 6 * q
                        /\ step = Up + 2 + 3 * q => Reached > Up
  BY <1>1, QueueSteps
<1>5. \A q \in Queues : step \in {18 + 6 * q, Up + 2 + 3 * q} => window["QUEUE_READY"] = 0
  <2>. SUFFICES ASSUME NEW q \in Queues, step = 18 + 6 * q \/ step = Up + 2 + 3 * q
                PROVE  window["QUEUE_READY"] = 0
    BY Zenon
  <2>1. CASE step = 18 + 6 * q
    BY <1>2, <1>4, <2>1, Zenon DEF QueueAt
  <2>2. CASE step = Up + 2 + 3 * q
    BY <1>2, <1>4, <2>2, Zenon DEF QueueAt
  <2>. QED
    BY <2>1, <2>2, Zenon
<1>6. /\ mmio.device_features_sel \in {0, window["DEVICE_FEATURES_SEL"]}
      /\ ~leftover => mmio.device_features_sel = window["DEVICE_FEATURES_SEL"]
  <2>1. "DEVICE_FEATURES_SEL" \in Plain
    BY Zenon DEF Plain, Shadowed
  <2>2. /\ mmio.device_features_sel \in {0, shadow["DEVICE_FEATURES_SEL"]}
        /\ ~leftover => mmio.device_features_sel = shadow["DEVICE_FEATURES_SEL"]
    BY Zenon DEF SetupInv, FollowsAt
  <2>. QED
    BY <2>1, <2>2, AtRest, Zenon
<1>7. window["DEVICE_FEATURES"] = Features[IF mmio.device_features_sel = 0 THEN 0 ELSE 1]
  BY AtRest, Zenon DEF virtio_mmio_read
<1>8. step = 7 /\ ~leftover => window["DEVICE_FEATURES"] = Features[1]
  <2>1. step = 7 => window["DEVICE_FEATURES_SEL"] = 1
    BY <1>2, <1>3, Zenon DEF SelectorsAt
  <2>2. 1 # 0
    OBVIOUS
  <2>. QED
    BY <1>6, <1>7, <2>1, <2>2, Zenon
<1>9. step = 9 => window["DEVICE_FEATURES"] = Features[0]
  <2>1. step = 9 => window["DEVICE_FEATURES_SEL"] = 0
    BY <1>2, <1>3, Zenon DEF SelectorsAt
  <2>. QED
    BY <1>6, <1>7, <2>1, Zenon
<1>10. window["DEVICE_FEATURES"] \in Words
  BY <1>7, Zenon DEF Words
<1>11. window["QUEUE_NUM_MAX"] = QueueSize
  BY AtRest, Zenon
<1>. QED
  BY <1>2, <1>3, <1>5, <1>8, <1>9, <1>10, <1>11, Zenon DEF StatusAt

\* Which accesses read STATUS or the features, and which expect something.
LEMMA ReadAccesses ==
  ASSUME NEW s \in {0, 1}, NEW k \in 1 .. LastStep
  PROVE  /\ k \in {2, 4, 14, Up - 3} => Script(s)[k].op = "read" /\ Script(s)[k].reg = "STATUS"
         /\ Script(s)[k].reg = "DEVICE_FEATURES" <=> k \in {7, 9}
         /\ k = 7 => Script(s)[k - 1].val = 1
         /\ k = 9 => Script(s)[k - 1].val = 0
         /\ Script(s)[k].op = "expect" =>
              \/ k = 16 /\ Script(s)[k].reg = "STATUS" /\ Script(s)[k].val = {Three}
              \/ \E q \in Queues :
                   \/ /\ k \in {18 + 6 * q, Up + 2 + 3 * q}
                      /\ Script(s)[k].reg = "QUEUE_READY" /\ Script(s)[k].val = {0}
                   \/ Script(s)[k].reg = "QUEUE_NUM_MAX" /\ Script(s)[k].val = {QueueSize}
<1>1. k \in {2, 4, 14, Up - 3} => Script(s)[k].op = "read" /\ Script(s)[k].reg = "STATUS"
  <2>1. k \in {2, 4, 14, Up - 3} => Is(s, k, "read", "STATUS", {})
    BY Table, Zenon
  <2>. QED
    BY <2>1, Zenon DEF Is
<1>2. k \in {7, 9} => Script(s)[k].reg = "DEVICE_FEATURES" /\ Script(s)[k].op = "read"
  <2>1. k \in {7, 9} => Is(s, k, "read", "DEVICE_FEATURES", {})
    BY Table, Zenon
  <2>. QED
    BY <2>1, Zenon DEF Is
<1>3. (k = 7 => Script(s)[k - 1].val = 1) /\ (k = 9 => Script(s)[k - 1].val = 0)
  <2>1. Is(s, 6, "write", "DEVICE_FEATURES_SEL", 1) /\ Is(s, 8, "write", "DEVICE_FEATURES_SEL", 0)
    BY Table, Zenon
  <2>2. 7 - 1 = 6 /\ 9 - 1 = 8
    OBVIOUS
  <2>. QED
    BY <2>1, <2>2, Zenon DEF Is
<1>5. ASSUME WriteStep(k)
      PROVE  Script(s)[k].reg # "DEVICE_FEATURES" /\ Script(s)[k].op # "expect"
  BY <1>5, WriteAccess, Zenon
<1>6. k = 16 => /\ Script(s)[k].reg = "STATUS" /\ Script(s)[k].val = {Three}
  <2>1. Is(s, 16, "expect", "STATUS", {Three})
    BY Table, Zenon
  <2>. QED
    BY <2>1, Zenon DEF Is
<1>7. ASSUME NEW q \in Queues, k \in {18 + 6 * q, Up + 2 + 3 * q}
      PROVE  Script(s)[k].reg = "QUEUE_READY" /\ Script(s)[k].val = {0}
  <2>1. /\ Is(s, 18 + 6 * q, "expect", "QUEUE_READY", {0})
        /\ Is(s, Up + 2 + 3 * q, "expect", "QUEUE_READY", {0})
    BY Table, Zenon
  <2>. QED
    BY <1>7, <2>1, Zenon DEF Is
<1>8. ASSUME NEW q \in Queues, k = 19 + 6 * q
      PROVE  Script(s)[k].reg = "QUEUE_NUM_MAX" /\ Script(s)[k].val = {QueueSize}
  <2>1. Is(s, 19 + 6 * q, "expect", "QUEUE_NUM_MAX", {QueueSize})
    BY Table, Zenon
  <2>. QED
    BY <1>8, <2>1, Zenon DEF Is
<1>9. "DEVICE_FEATURES" \notin {"STATUS", "QUEUE_READY", "QUEUE_NUM_MAX"} /\ "read" # "expect"
  BY Zenon
<1>10. ASSUME ReadStep(k)
       PROVE  \/ k \in {2, 4, 14, Up - 3} \/ k \in {7, 9} \/ k = 16
              \/ \E q \in Queues : k \in {18 + 6 * q, Up + 2 + 3 * q}
              \/ \E q \in Queues : k = 19 + 6 * q
  BY <1>10, Zenon DEF ReadStep
<1>11. Script(s)[k].reg = "DEVICE_FEATURES" => k \in {7, 9}
  BY <1>1, <1>5, <1>6, <1>7, <1>8, <1>9, <1>10, StepKinds, Zenon
<1>12. Script(s)[k].op = "expect" =>
              \/ k = 16 /\ Script(s)[k].reg = "STATUS" /\ Script(s)[k].val = {Three}
              \/ \E q \in Queues :
                   \/ /\ k \in {18 + 6 * q, Up + 2 + 3 * q}
                      /\ Script(s)[k].reg = "QUEUE_READY" /\ Script(s)[k].val = {0}
                   \/ Script(s)[k].reg = "QUEUE_NUM_MAX" /\ Script(s)[k].val = {QueueSize}
  BY <1>1, <1>2, <1>5, <1>6, <1>7, <1>8, <1>9, <1>10, StepKinds, Zenon
<1>. QED
  BY <1>1, <1>2, <1>3, <1>11, <1>12, Zenon

\* The driver at the end of an access.
LEMMA EndFacts ==
  ASSUME SetupInv, Idle, EndAccess
  PROVE  /\ driver' = "run" /\ step' \in 1 .. LastStep /\ session' \in {0, 1}
         /\ got' \in SUBSET Bits /\ offered' \in [Banks -> Words]
         /\ GuestKnows' /\ leftover' \in BOOLEAN
         /\ \/ step < LastStep /\ step' = step + 1 /\ session' = session /\ leftover' = leftover
            \/ step = LastStep /\ step' = 1 /\ session' = 1 - session /\ leftover' = FALSE
<1>. DEFINE a == Access
            v == window[a.reg]
<1>1. /\ session \in {0, 1} /\ step \in 1 .. LastStep /\ got \in SUBSET Bits
      /\ offered \in [Banks -> Words] /\ leftover \in BOOLEAN
  BY Zenon DEF SetupInv, Types
<1>2. Len(Script(session)) = LastStep
  BY <1>1, ScriptAt, Zenon
<1>3. /\ got' = IF a.op \in {"read", "expect"} /\ a.reg = "STATUS" THEN v ELSE got
      /\ offered' = IF a.reg = "DEVICE_FEATURES"
                      THEN [offered EXCEPT ![Script(session)[step - 1].val] = v] ELSE offered
      /\ driver' = IF a.op = "expect" /\ v \notin a.val THEN "failed" ELSE "run"
      /\ step' = IF step = LastStep THEN 1 ELSE step + 1
      /\ session' = IF step = LastStep THEN 1 - session ELSE session
      /\ leftover' = (step # LastStep /\ leftover)
  BY <1>2, Zenon DEF EndAccess
<1>4. /\ \/ step < LastStep /\ step' = step + 1 /\ session' = session /\ leftover' = leftover
         \/ step = LastStep /\ step' = 1 /\ session' = 1 - session /\ leftover' = FALSE
      /\ leftover' \in BOOLEAN
  <2>1. step < LastStep \/ step = LastStep
    BY <1>1, QueueSteps
  <2>2. step < LastStep => step # LastStep
    BY <1>1, QueueSteps
  <2>. QED
    BY <1>1, <1>3, <2>1, <2>2, Zenon
<1>5. step' \in 1 .. LastStep /\ session' \in {0, 1}
  BY <1>1, <1>4, QueueSteps
<1>6. driver' = "run"
  <2>1. a.op = "expect" => v \in a.val
    <3>. HAVE a.op = "expect"
    <3>1. CASE step = 16 /\ a.reg = "STATUS" /\ a.val = {Three}
      BY <3>1, ReadValues, Zenon
    <3>2. CASE \E q \in Queues : /\ step \in {18 + 6 * q, Up + 2 + 3 * q}
                                 /\ a.reg = "QUEUE_READY" /\ a.val = {0}
      BY <3>2, ReadValues, Zenon
    <3>3. CASE a.reg = "QUEUE_NUM_MAX" /\ a.val = {QueueSize}
      BY <3>3, ReadValues, Zenon
    <3>. QED
      BY <1>1, <3>1, <3>2, <3>3, ReadAccesses, ZenonT(40) DEF Access
  <2>. QED
    BY <1>3, <2>1, Zenon
<1>7. got' \in SUBSET Bits
  BY <1>1, <1>3, ReadValues, Zenon
<1>8. /\ step \in {2, 4, 14, Up - 3} => got' = window["STATUS"]
      /\ a.reg = "DEVICE_FEATURES" <=> step \in {7, 9}
      /\ step = 7 => Script(session)[step - 1].val = 1
      /\ step = 9 => Script(session)[step - 1].val = 0
  <2>1. "read" \in {"read", "expect"}
    BY Zenon
  <2>. QED
    BY <1>1, <1>3, <2>1, ReadAccesses, ZenonT(40) DEF Access
<1>. HIDE DEF a
<1>9. /\ step = 7 => offered' = [offered EXCEPT ![1] = window["DEVICE_FEATURES"]]
      /\ step = 9 => offered' = [offered EXCEPT ![0] = Features[0]]
      /\ step \notin {7, 9} => offered' = offered
  BY <1>3, <1>8, ReadValues, Zenon
<1>10. offered' \in [Banks -> Words]
  <2>1. window["DEVICE_FEATURES"] \in Words /\ Features[0] \in Words
    BY ReadValues, Zenon DEF Words
  <2>. QED
    BY <1>1, <1>9, <2>1, Zenon DEF Banks
<1>11. GuestKnows'
  <2>1. /\ step' = 3 => step = 2
        /\ step' = 5 => step = 4
        /\ step' = 15 => step = 14
        /\ step' = Up - 2 => step = Up - 3
        /\ step' >= 8 => step = 7 \/ step >= 8
        /\ step' >= 10 => step = 9 \/ step >= 10
    BY <1>1, <1>4, QueueSteps
  <2>2. /\ step' = 3 => got' = {}
        /\ step' = 5 => got' = {"ACKNOWLEDGE"}
        /\ step' = 15 => got' = {"ACKNOWLEDGE", "DRIVER"}
        /\ step' = Up - 2 => got' = Three
    BY <1>8, <2>1, ReadValues, Zenon
  <2>3. /\ step >= 8 /\ ~leftover => offered[1] = Features[1]
        /\ step >= 10 => offered[0] = Features[0]
    BY Zenon DEF SetupInv, GuestKnows
  <2>4. (step = 7 \/ step >= 8) /\ ~leftover => offered'[1] = Features[1]
    <3>1. step = 7 /\ ~leftover => window["DEVICE_FEATURES"] = Features[1]
      BY ReadValues, Zenon
    <3>2. step = 7 => offered'[1] = window["DEVICE_FEATURES"]
      BY <1>1, <1>9, Zenon DEF Banks
    <3>3. step # 7 => offered'[1] = offered[1]
      <4>1. 1 # 0
        OBVIOUS
      <4>. QED
        BY <1>1, <1>9, <4>1, Zenon DEF Banks
    <3>. QED
      BY <2>3, <3>1, <3>2, <3>3, Zenon
  <2>5. step = 9 \/ step >= 10 => offered'[0] = Features[0]
    BY <1>1, <1>9, <2>3, Zenon DEF Banks
  <2>6. step' >= 8 /\ ~leftover' => ~leftover
    <3>1. step' = 1 => ~(step' >= 8)
      BY QueueSteps
    <3>. QED
      BY <1>4, <3>1, Zenon
  <2>. QED
    BY <2>1, <2>2, <2>4, <2>5, <2>6, Zenon DEF GuestKnows, Up
<1>. QED
  BY <1>4, <1>5, <1>6, <1>7, <1>10, <1>11, Zenon

-----------------------------------------------------------------------------
(* The ends of accesses.                                                   *)

\* The end of an access.
LEMMA Ended ==
  ASSUME SetupInv, Idle, EndAccess, UNCHANGED <<barrier, toBack, events, daemonVars>>, acks' = 0,
         window' = [c \in Cells |-> window'[c]],
         WindowAt(window', step + 1, session, leftover),
         \A r \in Plain \cup {"DEVICE_FEATURES", "QUEUE_NUM_MAX"} : window'[r] = window[r],
         FollowsAt(step + 1, 13, leftover), QueuesAt(step + 1, 13), BanksFollow => BanksAt(step + 1, 13, leftover)
  PROVE  SetupInv' /\ (BanksFollow => BanksFollow')
<1>1. /\ toBack' = 0 /\ events' = 0 /\ acks' = 0 /\ at' = 0 /\ reload' = reload
      /\ shadow' = shadow /\ lower' = lower /\ mmio' = mmio /\ barrier' = barrier
  BY Zenon DEF Idle, daemonVars
<1>2. /\ driver' = "run" /\ step' \in 1 .. LastStep /\ session' \in {0, 1}
      /\ got' \in SUBSET Bits /\ offered' \in [Banks -> Words]
      /\ GuestKnows' /\ leftover' \in BOOLEAN
      /\ \/ step < LastStep /\ step' = step + 1 /\ session' = session /\ leftover' = leftover
         \/ step = LastStep /\ step' = 1 /\ session' = 1 - session /\ leftover' = FALSE
  BY EndFacts, Zenon
<1>3. Pos' = 13 /\ Reached' = step'
  BY <1>1, <1>2 DEF Pos, Reached
<1>4. /\ reload = 0 /\ lower = FALSE
      /\ \A r \in Plain : shadow[r] = window[r]
      /\ window["DEVICE_FEATURES"] = virtio_mmio_read(mmio, "DEVICE_FEATURES")
      /\ window["QUEUE_NUM_MAX"] = QueueSize
  BY AtRest, Zenon
<1>5. Types'
  <2>1. /\ toBack' \in {0, 1} /\ events' \in {0, 1} /\ acks' \in {0, 1} /\ at' \in 0 .. 12
        /\ driver' \in {"run", "wait"}
    BY <1>1, <1>2
  <2>. QED
    BY <1>1, <1>2, <2>1, Zenon DEF SetupInv, Types
<1>6. OneWakeup'
  <2>1. ~(reload' > 0) /\ ~lower' /\ ~(at' > 0) /\ events' # 1 /\ toBack' # 1
    BY <1>1, <1>4
  <2>. QED
    BY <1>1, <2>1, Zenon DEF OneWakeup, Settled
<1>7. \A r \in Shadowed \ {"QUEUE_NUM", "QUEUE_ADDR"} : shadow'[r] = window'[r]
  BY <1>1, <1>4, Zenon DEF Plain
<1>8. Synced'
  <2>1. driver' # "wait" /\ ~(Pos' <= 2)
    BY <1>2, <1>3
  <2>. QED
    BY <1>7, <2>1, Zenon DEF Synced
<1>9. Fresh'
  <2>1. /\ window'["DEVICE_FEATURES"] = virtio_mmio_read(mmio, "DEVICE_FEATURES")
        /\ window'["QUEUE_NUM_MAX"] = QueueSize
    BY <1>4, Zenon
  <2>2. virtio_mmio_read(mmio, "DEVICE_FEATURES")' = virtio_mmio_read(mmio, "DEVICE_FEATURES")
    BY <1>1, Zenon DEF virtio_mmio_read
  <2>. QED
    BY <2>1, <2>2, Zenon DEF Fresh
<1>10. /\ WindowAt(window', step', session', leftover')
       /\ FollowsAt(step', 13, leftover') /\ QueuesAt(step', 13)
       /\ BanksFollow => BanksAt(step', 13, leftover')
  <2>1. CASE step = LastStep /\ step' = 1 /\ leftover' = FALSE
    <3>1. step + 1 \in 1 .. LastStep + 1 /\ step + 1 > LastStep
      BY <2>1, QueueSteps
    <3>2. leftover \in BOOLEAN /\ leftover' \in BOOLEAN
      BY <2>1, Zenon DEF SetupInv, Types
    <3>3. WindowAt(window', 1, session', leftover')
      BY <3>1, <3>2, Anew, Zenon
    <3>4. step + 1 \notin {7, 8} /\ step + 1 \notin {11, 12} /\ ~(step + 1 <= 6) /\ ~(step + 1 <= 10)
      BY <2>1, QueueSteps
    <3>5. window'["DEVICE_FEATURES_SEL"] = 0 /\ window'["DRIVER_FEATURES_SEL"] = 0
      BY <3>4, Zenon DEF WindowAt, SelectorsAt
    <3>6. "DEVICE_FEATURES_SEL" \in Plain /\ "DRIVER_FEATURES_SEL" \in Plain
      BY Zenon DEF Plain, Shadowed
    <3>7. shadow["DEVICE_FEATURES_SEL"] = 0 /\ shadow["DRIVER_FEATURES_SEL"] = 0
      BY <1>4, <3>5, <3>6, Zenon
    <3>8. FollowsAt(1, 13, leftover') /\ BanksAt(1, 13, leftover') /\ QueuesAt(1, 13)
      BY <3>2, <3>7, FollowsAnew, Zenon
    <3>. QED
      BY <2>1, <3>3, <3>8, Zenon
  <2>. QED
    BY <1>2, <2>1, Zenon
<1>11. WindowAt(window, Reached, session, leftover)'
  BY <1>3, <1>10, WindowPrimed, Zenon
<1>13. FollowsAt(Reached, Pos, leftover)' /\ QueuesAt(Reached, Pos)' /\ (BanksFollow => BanksFollow')
  BY <1>1, <1>2, <1>3, <1>10, Carried, Zenon DEF BanksFollow
<1>. QED
  BY <1>2, <1>5, <1>6, <1>8, <1>9, <1>11, <1>13, Zenon DEF SetupInv

\* The registers that a write changes in the window.
LEMMA Written ==
  ASSUME SetupInv, driver = "run", WriteStep(step)
  PROVE  /\ WindowAt(Store(Access.reg, Stored), step + 1, session, leftover)
         /\ Store(Access.reg, Stored) = [c \in Cells |-> Store(Access.reg, Stored)[c]]
         /\ \A r \in Plain : Store(Access.reg, Stored)[r] # window[r] => Writes(r, step)
         /\ Access.reg \in {"QUEUE_NUM", "QUEUE_ADDR"} =>
              /\ \E q \in Queues : step \in {20 + 6 * q, 21 + 6 * q}
              /\ \A r \in Plain \cup {"DEVICE_FEATURES", "QUEUE_NUM_MAX"} :
                   Store(Access.reg, Stored)[r] = window[r]
<1>. DEFINE u == Store(Access.reg, Stored)
            reg == Access.reg
<1>1. Types /\ GuestKnows /\ WindowAt(window, step, session, leftover)
  BY Zenon DEF SetupInv, Reached
<1>2. /\ WindowAt(u, step + 1, session, leftover) /\ Writes(reg, step)
      /\ reg \in {"QUEUE_NUM", "QUEUE_ADDR"} => \E q \in Queues : step \in {20 + 6 * q, 21 + 6 * q}
  <2>1. CASE step \in ResetSteps
    <3>1. "STATUS" \notin {"QUEUE_NUM", "QUEUE_ADDR"}
      BY Zenon
    <3>. QED
      BY <1>1, <2>1, <3>1, StatusWritten, Zenon
  <2>2. CASE step \in {6, 8, 10, 11, 12, 13}
    <3>1. /\ Access.reg \in {"DEVICE_FEATURES_SEL", "DRIVER_FEATURES", "DRIVER_FEATURES_SEL"}
          /\ Writes(Access.reg, step)
          /\ WindowAt(Store(Access.reg, Stored), step + 1, session, leftover)
      BY <1>1, <2>2, FeaturesWritten, Zenon
    <3>2. Access.reg \notin {"QUEUE_NUM", "QUEUE_ADDR"}
      BY <3>1, Zenon
    <3>. QED
      BY <3>1, <3>2, Zenon
  <2>3. ASSUME NEW q \in Queues,
               step \in {17 + 6 * q, 20 + 6 * q, 21 + 6 * q, 22 + 6 * q, Up + 3 * q, Up + 1 + 3 * q}
        PROVE  /\ WindowAt(u, step + 1, session, leftover) /\ Writes(reg, step)
               /\ reg \in {"QUEUE_NUM", "QUEUE_ADDR"} => step \in {20 + 6 * q, 21 + 6 * q}
    BY <1>1, <2>3, QueueRegWritten, Zenon
  <2>. QED
    BY <2>1, <2>2, <2>3, Zenon DEF WriteStep
<1>. HIDE DEF u, reg
<1>3. Stores(u, reg, Stored)
  BY <1>1, StoreFacts, Zenon DEF u, reg
<1>4. u = [c \in Cells |-> u[c]]
  <2>1. DOMAIN window = Cells
    BY <1>1, Zenon DEF Types
  <2>. QED
    BY <2>1, Zenon DEF u, Store
<1>5. Plain \subseteq Cells /\ "DEVICE_FEATURES" \in Cells /\ "QUEUE_NUM_MAX" \in Cells
  BY Zenon DEF Plain, Cells
<1>6. ASSUME NEW r \in Plain, u[r] # window[r]
      PROVE  Writes(r, step)
  <2>1. CASE r = reg
    BY <1>2, <2>1, Zenon
  <2>2. CASE r # reg
    <3>1. reg = "QUEUE_SEL" /\ r \in QueueRegs
      BY <1>3, <1>5, <1>6, <2>2, Zenon DEF Stores
    <3>2. r = "QUEUE_READY"
      BY <3>1, Zenon DEF QueueRegs, Plain
    <3>3. SelStep(step)
      BY <1>2, <3>1, Zenon DEF Writes
    <3>. QED
      BY <3>2, <3>3, Zenon DEF Writes
  <2>. QED
    BY <2>1, <2>2, Zenon
<1>7. ASSUME reg \in {"QUEUE_NUM", "QUEUE_ADDR"},
             NEW r \in Plain \cup {"DEVICE_FEATURES", "QUEUE_NUM_MAX"}
      PROVE  u[r] = window[r]
  <2>1. r # reg /\ reg # "QUEUE_SEL" /\ r \in Cells
    BY <1>5, <1>7, Zenon DEF Plain
  <2>. QED
    BY <1>3, <2>1, Zenon DEF Stores
<1>. QED
  BY <1>2, <1>4, <1>6, <1>7, Zenon DEF u, reg

-----------------------------------------------------------------------------
(* The frontend's steps.                                                   *)

\* A driver that runs.
LEMMA Running ==
  ASSUME SetupInv, driver = "run"
  PROVE  /\ Settled /\ Idle /\ Reached = step /\ Pos = 13
         /\ step = 4 => mmio.status # {}
         /\ step = 2 => mmio.status = {}
         /\ step \in 1 .. LastStep /\ session \in {0, 1}
         /\ FollowsAt(step, 13, leftover) /\ QueuesAt(step, 13) /\ (BanksFollow => BanksAt(step, 13, leftover))
<1>1. Settled /\ Idle /\ Reached = step
  BY Zenon DEF SetupInv, OneWakeup, Reached, Settled, Idle
<1>2. 2 \in {2, 3}
  BY Zenon
<1>3. Pos = 13 /\ (step = 4 => mmio.status # {}) /\ (step = 2 => mmio.status = {})
  BY <1>1, <1>2, AtRest, Zenon
<1>4. step \in 1 .. LastStep /\ session \in {0, 1}
  BY Zenon DEF SetupInv, Types
<1>. QED
  BY <1>1, <1>3, <1>4, Zenon DEF SetupInv, BanksFollow

\* axi_uio_write keeps the invariant.
LEMMA WriteKeeps ==
  ASSUME SetupInv, axi_uio_write
  PROVE  SetupInv' /\ (BanksFollow => BanksFollow')
<1>1. /\ driver = "run" /\ Access.op \in {"write", "status", "features"}
      /\ window' = Store(Access.reg, Stored)
      /\ UNCHANGED <<barrier, daemonVars>>
  BY Zenon DEF axi_uio_write, Stored
<1>2. /\ Settled /\ Idle /\ Reached = step /\ Pos = 13
      /\ step = 4 => mmio.status # {}
      /\ step = 2 => mmio.status = {}
      /\ step \in 1 .. LastStep /\ session \in {0, 1}
      /\ FollowsAt(step, 13, leftover) /\ QueuesAt(step, 13) /\ (BanksFollow => BanksAt(step, 13, leftover))
  BY <1>1, Running, Zenon
<1>3. WriteStep(step)
  BY <1>1, <1>2, Kinds, Zenon DEF Access
<1>4. /\ WindowAt(window', step + 1, session, leftover)
      /\ window' = [c \in Cells |-> window'[c]]
      /\ \A r \in Plain : window'[r] # window[r] => Writes(r, step)
      /\ Access.reg \in {"QUEUE_NUM", "QUEUE_ADDR"} =>
           /\ \E q \in Queues : step \in {20 + 6 * q, 21 + 6 * q}
           /\ \A r \in Plain \cup {"DEVICE_FEATURES", "QUEUE_NUM_MAX"} : window'[r] = window[r]
  <2>. DEFINE u == Store(Access.reg, Stored)
  <2>1. /\ WindowAt(u, step + 1, session, leftover)
        /\ u = [c \in Cells |-> u[c]]
        /\ \A r \in Plain : u[r] # window[r] => Writes(r, step)
        /\ Access.reg \in {"QUEUE_NUM", "QUEUE_ADDR"} =>
             /\ \E q \in Queues : step \in {20 + 6 * q, 21 + 6 * q}
             /\ \A r \in Plain \cup {"DEVICE_FEATURES", "QUEUE_NUM_MAX"} : u[r] = window[r]
    BY <1>1, <1>3, Written, Zenon
  <2>2. window' = u
    BY <1>1, Zenon
  <2>. HIDE DEF u
  <2>. QED
    BY <2>1, <2>2, Zenon
<1>5. CASE axi_uio_notify_backend
  BY <1>1, <1>4, <1>5, Notified, Zenon
<1>6. CASE Access.reg \in {"QUEUE_NUM", "QUEUE_ADDR"} /\ EndAccess /\ UNCHANGED linkVars
  <2>1. \E q \in Queues : step \in {20 + 6 * q, 21 + 6 * q}
    BY <1>4, <1>6, Zenon
  <2>2. step \notin {11, 13} /\ \A q \in Queues : step \notin {17 + 6 * q, 22 + 6 * q}
    BY <2>1, QueueSteps
  <2>3. FollowsAt(step + 1, 13, leftover) /\ QueuesAt(step + 1, 13) /\ (BanksFollow => BanksAt(step + 1, 13, leftover))
    BY <1>2, <2>2, Unasked, Zenon
  <2>4. UNCHANGED <<barrier, toBack, events, daemonVars>> /\ acks' = 0
    BY <1>1, <1>2, <1>6, Zenon DEF linkVars, Settled
  <2>. QED
    BY <1>2, <1>4, <1>6, <2>3, <2>4, Ended, Zenon
<1>. QED
  BY <1>5, <1>6, Zenon DEF axi_uio_write, axi_uio_write_needs_backend

\* axi_uio_read keeps the invariant.
LEMMA ReadKeeps ==
  ASSUME SetupInv, axi_uio_read
  PROVE  SetupInv' /\ (BanksFollow => BanksFollow')
<1>1. /\ driver = "run" /\ Access.op \in {"read", "expect"}
      /\ window' = window /\ UNCHANGED <<barrier, daemonVars>>
  BY Zenon DEF axi_uio_read
<1>2. /\ Settled /\ Idle /\ Reached = step /\ Pos = 13
      /\ step = 4 => mmio.status # {}
      /\ step = 2 => mmio.status = {}
      /\ step \in 1 .. LastStep /\ session \in {0, 1}
      /\ FollowsAt(step, 13, leftover) /\ QueuesAt(step, 13) /\ (BanksFollow => BanksAt(step, 13, leftover))
  BY <1>1, Running, Zenon
<1>3. ReadStep(step)
  BY <1>1, <1>2, Kinds, Zenon DEF Access
<1>4. WindowAt(window', step + 1, session, leftover)
  <2>1. Types /\ WindowAt(window, step, session, leftover)
    BY <1>2, Zenon DEF SetupInv
  <2>. QED
    BY <1>1, <1>3, <2>1, ReadOn, Zenon
<1>5. window' = [c \in Cells |-> window'[c]]
  <2>1. window = [c \in Cells |-> window[c]]
    BY Zenon DEF SetupInv, Types
  <2>. QED
    BY <1>1, <2>1, Zenon
<1>6. CASE axi_uio_notify_backend
  BY <1>1, <1>4, <1>5, <1>6, Notified, Zenon
<1>7. CASE EndAccess /\ UNCHANGED linkVars
  <2>2. step \notin {11, 13} /\ \A q \in Queues : step \notin {17 + 6 * q, 22 + 6 * q}
    BY <1>3, QueueSteps DEF ReadStep
  <2>3. FollowsAt(step + 1, 13, leftover) /\ QueuesAt(step + 1, 13) /\ (BanksFollow => BanksAt(step + 1, 13, leftover))
    BY <1>2, <2>2, Unasked, Zenon
  <2>4. UNCHANGED <<barrier, toBack, events, daemonVars>> /\ acks' = 0
    BY <1>1, <1>2, <1>7, Zenon DEF linkVars, Settled
  <2>. QED
    BY <1>1, <1>2, <1>4, <1>5, <1>7, <2>3, <2>4, Ended, Zenon
<1>. QED
  BY <1>6, <1>7, Zenon DEF axi_uio_read

\* The end of a wait.
LEMMA WaitEnds ==
  ASSUME SetupInv, driver = "wait", Idle, EndAccess, acks' = 0, window' = window,
         UNCHANGED <<barrier, toBack, events, daemonVars>>
  PROVE  SetupInv' /\ (BanksFollow => BanksFollow')
<1>1. Reached = step + 1 /\ Pos = 13
  BY DEF Reached, Pos, Idle
<1>2. /\ WindowAt(window', step + 1, session, leftover) /\ FollowsAt(step + 1, 13, leftover) /\ QueuesAt(step + 1, 13)
      /\ BanksFollow => BanksAt(step + 1, 13, leftover)
  BY <1>1, Zenon DEF SetupInv, BanksFollow
<1>3. window' = [c \in Cells |-> window'[c]]
  <2>1. window = [c \in Cells |-> window[c]]
    BY Zenon DEF SetupInv, Types
  <2>. QED
    BY <2>1, Zenon
<1>. QED
  BY <1>2, <1>3, Ended, Zenon

\* An ACK ends the wait of the access it belongs to, and the invariant is kept.
LEMMA AckKeeps ==
  ASSUME SetupInv, take_notify_ack
  PROVE  SetupInv' /\ (BanksFollow => BanksFollow')
<1>1. acks = 1 /\ acks' = 0
  BY DEF take_notify_ack, SetupInv, Types
<1>2. driver = "wait"
  <2>1. driver \in {"run", "wait"} /\ (driver = "run" => acks = 0)
    BY Zenon DEF SetupInv, Types, OneWakeup, Settled
  <2>. QED
    BY <1>1, <2>1
<1>3. Idle
  <2>1. toBack \in {0, 1} /\ events \in {0, 1} /\ at \in 0 .. 12
    BY Zenon DEF SetupInv, Types
  <2>2. toBack # 1 /\ events # 1 /\ ~(at > 0)
    BY <1>1 DEF SetupInv, OneWakeup
  <2>. QED
    BY <2>1, <2>2 DEF Idle
<1>4. EndAccess /\ window' = window /\ UNCHANGED <<barrier, toBack, events, daemonVars>>
  BY <1>2, Zenon DEF take_notify_ack
<1>. QED
  BY <1>1, <1>2, <1>3, <1>4, WaitEnds, Zenon

\* So it is when notify_delay_us is over, which under Prompt finds the daemon at rest.
LEMMA DeadlineKeeps ==
  ASSUME SetupInv, Prompt, notify_deadline
  PROVE  SetupInv' /\ (BanksFollow => BanksFollow')
<1>1. driver = "wait" /\ EndAccess /\ Settled
  BY Zenon DEF notify_deadline
<1>2. window' = window /\ UNCHANGED <<barrier, toBack, events, daemonVars>> /\ acks' = 0 /\ Idle
  BY <1>1, Zenon DEF notify_deadline, linkVars, Settled, Idle
<1>. QED
  BY <1>1, <1>2, WaitEnds, Zenon

\* A reboot keeps the invariant.
LEMMA RebootKeeps ==
  ASSUME SetupInv, reboot
  PROVE  SetupInv' /\ (BanksFollow => BanksFollow')
<1>1. driver = "run"
  BY Zenon DEF reboot, SetupInv, Types
<1>2. /\ driver' = "run" /\ session' = 1 - session /\ step' = 1 /\ got' = {}
      /\ offered' = [b \in Banks |-> 0] /\ window' = window
      /\ toBack' = toBack /\ events' = events /\ acks' = acks
      /\ at' = at /\ reload' = reload /\ shadow' = shadow /\ lower' = lower /\ mmio' = mmio
      /\ barrier' = barrier /\ leftover' \in BOOLEAN /\ (leftover' \/ Clear(window))
  BY Zenon DEF reboot, linkVars, daemonVars, Negotiating, Clear
<1>3. /\ Settled /\ Idle /\ Reached = step /\ Pos = 13
      /\ step \in 1 .. LastStep /\ session \in {0, 1}
      /\ FollowsAt(step, 13, leftover) /\ QueuesAt(step, 13)
  BY <1>1, Running, Zenon
<1>4. Reached' = 1 /\ Pos' = Pos
  BY <1>2, Zenon DEF Reached, Pos
<1>5. Types'
  <2>1. session' \in {0, 1} /\ step' \in 1 .. LastStep /\ got' \in SUBSET Bits /\ driver' \in {"run", "wait"}
    BY <1>2, <1>3, QueueSteps
  <2>2. offered' \in [Banks -> Words]
    BY <1>2, Zenon DEF Words
  <2>3. window' = [c \in Cells |-> window'[c]]
    BY <1>2, Zenon DEF SetupInv, Types
  <2>4. shadow' = [c \in Shadowed |-> shadow'[c]]
    BY <1>2, Zenon DEF SetupInv, Types
  <2>. QED
    BY <1>2, <2>1, <2>2, <2>3, <2>4, Zenon DEF SetupInv, Types
<1>6. OneWakeup'
  <2>1. reload = 0 /\ lower = FALSE /\ at = 0 /\ toBack = 0 /\ events = 0 /\ acks = 0
    BY <1>3, AtRest, Zenon DEF Settled
  <2>2. ~(reload' > 0) /\ ~lower' /\ ~(at' > 0) /\ events' # 1 /\ toBack' # 1
    BY <1>2, <2>1
  <2>. QED
    BY <1>2, <2>1, <2>2, Zenon DEF OneWakeup, Settled
<1>7. GuestKnows'
  <2>1. /\ step' # 3 /\ step' # 5 /\ step' # 15 /\ step' # Up - 2
        /\ ~(step' >= 8) /\ ~(step' >= 10)
    BY <1>2, QueueSteps
  <2>. QED
    BY <2>1, Zenon DEF GuestKnows, Up
<1>8. WindowAt(window, 1, session', leftover')
  <2>1. step \in 1 .. LastStep + 1
    BY <1>3, QueueSteps
  <2>2. WindowAt(window, step, session, leftover) /\ leftover \in BOOLEAN
    BY <1>3, Zenon DEF SetupInv, Types
  <2>. QED
    BY <1>2, <2>1, <2>2, Anew, Zenon
<1>9. WindowAt(window, Reached, session, leftover)'
  <2>1. WindowAt(window', Reached', session', leftover')
    BY <1>2, <1>4, <1>8, Zenon
  <2>. QED
    BY <2>1, WindowPrimed, Zenon
<1>10. Synced'
  <2>1. driver' # "wait" /\ ~(Pos' <= 2)
    BY <1>2, <1>3, <1>4
  <2>2. \A r \in Shadowed \ {"QUEUE_NUM", "QUEUE_ADDR"} : shadow'[r] = window'[r]
    BY <1>2, <1>3, AtRest, Zenon DEF Plain
  <2>. QED
    BY <2>1, <2>2, Zenon DEF Synced
<1>11. FollowsAt(1, 13, leftover') /\ QueuesAt(1, 13) /\ BanksAt(1, 13, leftover')
  <2>1. "DEVICE_FEATURES_SEL" \in Plain /\ "DRIVER_FEATURES_SEL" \in Plain
    BY Zenon DEF Plain, Shadowed
  <2>2. leftover' \/ (shadow["DEVICE_FEATURES_SEL"] = 0 /\ shadow["DRIVER_FEATURES_SEL"] = 0)
    BY <1>2, <1>3, <2>1, AtRest, Zenon DEF Clear
  <2>. QED
    BY <1>2, <1>3, <2>2, FollowsAnew, Zenon
<1>12. FollowsAt(Reached, Pos, leftover)' /\ QueuesAt(Reached, Pos)' /\ BanksFollow'
  BY <1>2, <1>3, <1>4, <1>11, Carried, Zenon DEF BanksFollow
<1>13. Fresh'
  BY <1>2, <1>4, Zenon DEF SetupInv, Fresh, virtio_mmio_read
<1>. QED
  BY <1>5, <1>6, <1>7, <1>9, <1>10, <1>12, <1>13, Zenon DEF SetupInv

-----------------------------------------------------------------------------
(* The way to the daemon, and its refresh.                                 *)

\* The places of the scan and of the refresh.
LEMMA Scan ==
  /\ Refresh = 9 /\ Flush = 12 /\ DOMAIN WriteOffsets = 1 .. 8
  /\ \A n \in 1 .. 8 : WriteOffsets[n] \in Shadowed /\ Place(WriteOffsets[n]) = n
  /\ ReadOffsets[1] = "DEVICE_FEATURES" /\ ReadOffsets[2] = "QUEUE_NUM_MAX" /\ ReadOffsets[3] = "STATUS"
  /\ Len(QueueOffsets) = 3 /\ \A n \in 1 .. 3 : QueueOffsets[n] \in QueueRegs
<1>1. Refresh = 9 /\ Flush = 12 /\ DOMAIN WriteOffsets = 1 .. 8
  BY DEF Refresh, Flush, WriteOffsets, ReadOffsets
<1>2. \A n \in 1 .. 8 : WriteOffsets[n] \in Shadowed
  BY DEF WriteOffsets, Shadowed
<1>3. \A n \in 1 .. 8 : Place(WriteOffsets[n]) = n
  BY Places DEF WriteOffsets
<1>4. /\ ReadOffsets[1] = "DEVICE_FEATURES" /\ ReadOffsets[2] = "QUEUE_NUM_MAX"
      /\ ReadOffsets[3] = "STATUS"
  BY Zenon DEF ReadOffsets
<1>5. Len(QueueOffsets) = 3 /\ \A n \in 1 .. 3 : QueueOffsets[n] \in QueueRegs
  BY DEF QueueOffsets, QueueRegs
<1>. QED
  BY <1>1, <1>2, <1>3, <1>4, <1>5, Zenon

\* The window is compared by the registers it shares with the shadow.
LEMMA WindowSame ==
  ASSUME NEW w, NEW u, NEW k, NEW s, WindowAt(w, k, s, leftover), \A r \in Shadowed : u[r] = w[r]
  PROVE  WindowAt(u, k, s, leftover)
<1>1. /\ u["DEVICE_FEATURES_SEL"] = w["DEVICE_FEATURES_SEL"]
      /\ u["DRIVER_FEATURES_SEL"] = w["DRIVER_FEATURES_SEL"]
      /\ u["DRIVER_FEATURES"] = w["DRIVER_FEATURES"] /\ u["STATUS"] = w["STATUS"]
      /\ u["QUEUE_SEL"] = w["QUEUE_SEL"] /\ u["QUEUE_NUM"] = w["QUEUE_NUM"]
      /\ u["QUEUE_ADDR"] = w["QUEUE_ADDR"] /\ u["QUEUE_READY"] = w["QUEUE_READY"]
  BY Zenon DEF Shadowed
<1>2. SelectorsAt(u, k, leftover)
  BY <1>1, Zenon DEF WindowAt, SelectorsAt
<1>3. StatusAt(u, k)
  BY <1>1, Zenon DEF WindowAt, StatusAt
<1>4. QueueAt(u, k, s)
  BY <1>1, Zenon DEF WindowAt, QueueAt
<1>. QED
  BY <1>2, <1>3, <1>4, Zenon DEF WindowAt

\* A step that leaves the registers and the device alone.
LEMMA Quiet ==
  ASSUME SetupInv, UNCHANGED <<guestVars, shadow, mmio>>, Types', OneWakeup', Fresh',
         \A r \in Shadowed : window'[r] = window[r],
         Pos \in 0 .. 13, Pos' \in 0 .. 13, Alike(Pos, Pos')
  PROVE  SetupInv' /\ (BanksFollow => BanksFollow')
<1>1. /\ session' = session /\ step' = step /\ got' = got /\ offered' = offered
      /\ driver' = driver /\ leftover' = leftover
      /\ shadow' = shadow /\ mmio' = mmio
  BY Zenon DEF guestVars
<1>2. Reached' = Reached
  BY <1>1, Zenon DEF Reached
<1>3. GuestKnows'
  BY <1>1, Zenon DEF SetupInv, GuestKnows
<1>4. WindowAt(window, Reached, session, leftover)'
  <2>1. WindowAt(window', Reached, session, leftover)
    BY WindowSame, Zenon DEF SetupInv
  <2>. QED
    BY <1>1, <1>2, <2>1, WindowPrimed, Zenon
<1>5. Synced'
  <2>1. \A n \in 1 .. 8 : (Pos > n <=> Pos' > n) /\ (Pos <= n <=> Pos' <= n)
    BY DEF Alike
  <2>2. (Pos' <= 2 <=> Pos <= 2)
    BY <2>1
  <2>3. \A r \in Shadowed : (Pos > Place(r) <=> Pos' > Place(r)) /\ (Pos <= Place(r) <=> Pos' <= Place(r))
    BY <2>1, Places, Zenon
  <2>4. "QUEUE_NUM" \in Shadowed /\ "QUEUE_ADDR" \in Shadowed /\ "DRIVER_FEATURES" \in Shadowed
    BY Zenon DEF Shadowed
  <2>5. \A r \in Shadowed \ {"QUEUE_NUM", "QUEUE_ADDR"} :
          shadow'[r] # window'[r] => driver' = "wait" /\ Pos' <= Place(r) /\ Writes(r, step')
    BY <1>1, <2>3, Zenon DEF SetupInv, Synced
  <2>6. \A r \in {"QUEUE_NUM", "QUEUE_ADDR"} :
          driver' = "wait" /\ Pos' > Place(r) => shadow'[r] = window'[r]
    BY <1>1, <2>3, <2>4, Zenon DEF SetupInv, Synced
  <2>7. /\ Reached' = 12 /\ Pos' <= 2 /\ ~leftover' => shadow'["DRIVER_FEATURES"] \in {0, Features[0]}
        /\ Reached' = 14 /\ Pos' <= 2 /\ ~leftover' => shadow'["DRIVER_FEATURES"] = Features[1]
    BY <1>1, <1>2, <2>2, Zenon DEF SetupInv, Synced
  <2>8. \A r \in Shadowed \ {"QUEUE_NUM", "QUEUE_ADDR"} : Writes(r, step') = Writes(r, step)'
    BY Zenon DEF Writes, SelStep, ReadyStep
  <2>. QED
    BY <2>5, <2>6, <2>7, <2>8, Zenon DEF Synced, Place
<1>6. FollowsAt(Reached', Pos', leftover) /\ QueuesAt(Reached', Pos') /\ (BanksFollow => BanksAt(Reached', Pos', leftover))
  BY <1>2, AlikeHolds, Zenon DEF SetupInv, BanksFollow
<1>7. FollowsAt(Reached, Pos, leftover)' /\ QueuesAt(Reached, Pos)' /\ (BanksFollow => BanksFollow')
  <2>1. /\ FollowsAt(Reached', Pos', leftover')
        /\ BanksFollow => BanksAt(Reached', Pos', leftover')
    BY <1>1, <1>6, Zenon
  <2>. QED
    BY <1>1, <1>6, <2>1, Carried, Zenon DEF BanksFollow
<1>. QED
  BY <1>3, <1>4, <1>5, <1>7, Zenon DEF SetupInv

\* The places.
LEMMA PosRange ==
  ASSUME Types
  PROVE  Pos \in 0 .. 13
BY DEF Types, Pos

\* The pulse keeps the invariant.
LEMMA PulseKeeps ==
  ASSUME SetupInv, axi_notify_pulse
  PROVE  SetupInv' /\ (BanksFollow => BanksFollow')
<1>1. toBack = 1 /\ toBack' = 0
  BY DEF axi_notify_pulse, SetupInv, Types
<1>2. events = 0 /\ at = 0 /\ acks = 0
  BY <1>1, Zenon DEF SetupInv, OneWakeup
<1>3. /\ events' = 1 /\ window' = window /\ acks' = acks /\ at' = at /\ reload' = reload
      /\ lower' = lower /\ shadow' = shadow /\ mmio' = mmio /\ barrier' = barrier
      /\ session' = session /\ step' = step /\ got' = got /\ offered' = offered
      /\ driver' = driver /\ leftover' = leftover
  BY <1>2 DEF axi_notify_pulse, daemonVars, guestVars
<1>4. Pos = 0 /\ Pos' = 0
  BY <1>1, <1>3 DEF Pos
<1>5. Types'
  <2>1. toBack' \in {0, 1} /\ events' \in {0, 1}
    BY <1>1, <1>3, Zenon
  <2>2. window' = [c \in Cells |-> window'[c]]
    BY <1>3, Zenon DEF SetupInv, Types
  <2>3. shadow' = [c \in Shadowed |-> shadow'[c]]
    BY <1>3, Zenon DEF SetupInv, Types
  <2>. QED
    BY <1>3, <2>1, <2>2, <2>3, Zenon DEF SetupInv, Types
<1>6. OneWakeup'
  <2>1. driver # "run"
    BY <1>1 DEF SetupInv, OneWakeup, Settled
  <2>2. ~(at > 0) /\ toBack' # 1
    BY <1>1, <1>2
  <2>3. (reload > 0 => at = 5 /\ SelStep(step)) /\ (lower => at > 8)
    BY Zenon DEF SetupInv, OneWakeup
  <2>. QED
    BY <1>2, <1>3, <2>1, <2>2, <2>3, Zenon DEF OneWakeup, SelStep
<1>7. Fresh'
  BY <1>4 DEF Fresh
<1>8. Alike(Pos, Pos') /\ Pos \in 0 .. 13 /\ Pos' \in 0 .. 13 /\ UNCHANGED <<guestVars, shadow, mmio>>
  BY <1>3, <1>4 DEF Alike, guestVars, axi_notify_pulse
<1>. QED
  BY <1>3, <1>5, <1>6, <1>7, <1>8, Quiet, Zenon

\* The daemon's wake-up keeps the invariant.
LEMMA InterruptKeeps ==
  ASSUME SetupInv, wait_for_uio_interrupt
  PROVE  SetupInv' /\ (BanksFollow => BanksFollow')
<1>1. events = 1 /\ events' = 0 /\ at = 0 /\ at' = 1
  BY DEF wait_for_uio_interrupt, TakeEvent, SetupInv, Types
<1>2. toBack = 0 /\ acks = 0 /\ driver # "run"
  BY <1>1 DEF SetupInv, OneWakeup, Settled, Types
<1>3. /\ toBack' = toBack /\ window' = window /\ acks' = acks /\ reload' = reload
      /\ lower' = lower /\ shadow' = shadow /\ mmio' = mmio /\ barrier' = barrier
      /\ session' = session /\ step' = step /\ got' = got /\ offered' = offered
      /\ driver' = driver /\ leftover' = leftover
      /\ UNCHANGED guestVars
  BY Zenon DEF wait_for_uio_interrupt, guestVars
<1>4. Pos = 0 /\ Pos' = 1
  BY <1>1, <1>2, <1>3 DEF Pos
<1>5. Types'
  <2>1. at' \in 0 .. 12 /\ events' \in {0, 1}
    BY <1>1
  <2>2. window' = [c \in Cells |-> window'[c]]
    BY <1>3, Zenon DEF SetupInv, Types
  <2>3. shadow' = [c \in Shadowed |-> shadow'[c]]
    BY <1>3, Zenon DEF SetupInv, Types
  <2>. QED
    BY <1>3, <2>1, <2>2, <2>3, Zenon DEF SetupInv, Types
<1>6. OneWakeup'
  <2>1. ~(reload > 0) /\ ~lower
    BY <1>1 DEF SetupInv, OneWakeup
  <2>2. toBack' # 1 /\ events' # 1
    BY <1>1, <1>2, <1>3
  <2>. QED
    BY <1>2, <1>3, <2>1, <2>2, Zenon DEF OneWakeup
<1>7. Fresh'
  BY <1>4 DEF Fresh
<1>8. Alike(Pos, Pos') /\ Pos \in 0 .. 13 /\ Pos' \in 0 .. 13 /\ UNCHANGED <<guestVars, shadow, mmio>>
  BY <1>3, <1>4 DEF Alike
<1>. QED
  BY <1>3, <1>5, <1>6, <1>7, <1>8, Quiet, Zenon

\* The daemon in its scan.
LEMMA Scanning ==
  ASSUME SetupInv, at > 0
  PROVE  /\ driver = "wait" /\ toBack = 0 /\ events = 0 /\ acks = 0
         /\ Pos = at /\ Reached = step + 1 /\ at \in 1 .. 12
         /\ step \in 1 .. LastStep /\ session \in {0, 1}
<1>1. toBack \in {0, 1} /\ events \in {0, 1} /\ at \in 0 .. 12 /\ driver \in {"run", "wait"}
      /\ step \in 1 .. LastStep /\ session \in {0, 1}
  BY Zenon DEF SetupInv, Types
<1>2. toBack = 0 /\ events = 0 /\ acks = 0 /\ driver = "wait"
  BY <1>1 DEF SetupInv, OneWakeup, Settled
<1>3. Pos = at /\ Reached = step + 1 /\ at \in 1 .. 12
  BY <1>1, <1>2 DEF Pos, Reached
<1>. QED
  BY <1>1, <1>2, <1>3, Zenon

\* flush_pending_irq_level keeps the invariant.
LEMMA FlushKeeps ==
  ASSUME SetupInv, flush_pending_irq_level
  PROVE  SetupInv' /\ (BanksFollow => BanksFollow')
<1>1. at = 12 /\ at' = 0 /\ lower' = FALSE
  BY Scan, Zenon DEF flush_pending_irq_level
<1>2. driver = "wait" /\ toBack = 0 /\ events = 0 /\ acks = 0 /\ Pos = at
  BY <1>1, Scanning
<1>3. /\ toBack' = toBack /\ events' = events /\ window' = window /\ reload' = reload
      /\ shadow' = shadow /\ mmio' = mmio /\ barrier' = barrier
      /\ session' = session /\ step' = step /\ got' = got /\ offered' = offered
      /\ driver' = driver /\ leftover' = leftover
      /\ UNCHANGED guestVars
  BY Zenon DEF flush_pending_irq_level, guestVars
<1>4. Pos = 12 /\ Pos' = 13
  BY <1>1, <1>2, <1>3 DEF Pos
<1>5. acks' \in {0, 1}
  BY <1>2 DEF flush_pending_irq_level
<1>6. Types'
  <2>0. lower' \in BOOLEAN
    BY <1>1, Zenon
  <2>1. at' \in 0 .. 12
    BY <1>1
  <2>2. window' = [c \in Cells |-> window'[c]]
    BY <1>3, Zenon DEF SetupInv, Types
  <2>3. shadow' = [c \in Shadowed |-> shadow'[c]]
    BY <1>3, Zenon DEF SetupInv, Types
  <2>. QED
    BY <1>3, <1>5, <2>0, <2>1, <2>2, <2>3, Zenon DEF SetupInv, Types
<1>7. OneWakeup'
  <2>1. ~(reload > 0)
    BY <1>1 DEF SetupInv, OneWakeup
  <2>2. toBack' # 1 /\ events' # 1 /\ ~(at' > 0) /\ driver # "run"
    BY <1>1, <1>2, <1>3
  <2>. QED
    BY <1>1, <1>3, <2>1, <2>2, Zenon DEF OneWakeup
<1>8. Fresh'
  <2>1. /\ window["DEVICE_FEATURES"] = virtio_mmio_read(mmio, "DEVICE_FEATURES")
        /\ window["QUEUE_NUM_MAX"] = QueueSize
    BY <1>4 DEF SetupInv, Fresh
  <2>. QED
    BY <1>3, <2>1, Zenon DEF Fresh, virtio_mmio_read
<1>9. Alike(Pos, Pos') /\ Pos \in 0 .. 13 /\ Pos' \in 0 .. 13 /\ UNCHANGED <<guestVars, shadow, mmio>>
  BY <1>3, <1>4 DEF Alike
<1>. QED
  BY <1>3, <1>6, <1>7, <1>8, <1>9, Quiet, Zenon

\* refresh_read_registers keeps the invariant: STATUS is already what it writes.
LEMMA RefreshKeeps ==
  ASSUME SetupInv, refresh_read_register
  PROVE  SetupInv' /\ (BanksFollow => BanksFollow')
<1>. DEFINE off == ReadOffsets[1 + at - Refresh]
            v == virtio_mmio_read(mmio, off)
<1>1. at \in 9 .. 11 /\ at' = at + 1 /\ window' = [window EXCEPT ![off] = v]
  BY Scan DEF refresh_read_register
<1>2. driver = "wait" /\ toBack = 0 /\ events = 0 /\ acks = 0 /\ Pos = at
  <2>1. at > 0
    BY <1>1
  <2>. QED
    BY <2>1, Scanning, Zenon
<1>3. /\ toBack' = toBack /\ events' = events /\ acks' = acks /\ reload' = reload /\ lower' = lower
      /\ shadow' = shadow /\ mmio' = mmio /\ barrier' = barrier
      /\ session' = session /\ step' = step /\ got' = got /\ offered' = offered
      /\ driver' = driver /\ leftover' = leftover
      /\ UNCHANGED guestVars
  BY Zenon DEF refresh_read_register, guestVars, linkVars
<1>4. Pos \in 9 .. 11 /\ Pos' = Pos + 1
  BY <1>1, <1>2, <1>3 DEF Pos
<1>5. /\ at = 9 => off = "DEVICE_FEATURES"
      /\ at = 10 => off = "QUEUE_NUM_MAX"
      /\ at = 11 => off = "STATUS"
  BY Scan
<1>6. window = [c \in Cells |-> window[c]] /\ mmio \in Device
  BY Zenon DEF SetupInv, Types
<1>7. at = 10 => v = QueueSize
  BY <1>5, <1>6, Zenon DEF virtio_mmio_read, Device
<1>8. at = 11 => v = window["STATUS"]
  <2>. HAVE at = 11
  <2>1. v = mmio.status
    BY <1>5, Zenon DEF virtio_mmio_read
  <2>2. mmio.status = shadow["STATUS"]
    BY Zenon DEF SetupInv, FollowsAt
  <2>3. ~(Pos <= Place("STATUS")) /\ "STATUS" \in Shadowed \ {"QUEUE_NUM", "QUEUE_ADDR"}
    BY <1>2, Places DEF Shadowed
  <2>4. shadow["STATUS"] = window["STATUS"]
    BY <2>3, Zenon DEF SetupInv, Synced
  <2>. QED
    BY <2>1, <2>2, <2>4, Zenon
<1>. HIDE DEF v
<1>9. /\ "DEVICE_FEATURES" \in Cells /\ "QUEUE_NUM_MAX" \in Cells /\ "STATUS" \in Cells
      /\ Shadowed \subseteq Cells /\ "DEVICE_FEATURES" \notin Shadowed /\ "QUEUE_NUM_MAX" \notin Shadowed
  BY Zenon DEF Cells, Shadowed
<1>10. at = 9 \/ at = 10 \/ at = 11
  BY <1>1
<1>11. /\ DOMAIN window = Cells
       /\ \A c \in Cells : c # off => window'[c] = window[c]
       /\ off \in Cells => window'[off] = v
       /\ window' = [c \in Cells |-> window'[c]]
  <2>1. DOMAIN window = Cells
    BY <1>6, Zenon
  <2>. QED
    BY <1>1, <2>1, Zenon
<1>. HIDE DEF off
<1>12. \A r \in Shadowed : window'[r] = window[r]
  BY <1>5, <1>8, <1>9, <1>10, <1>11, ZenonT(40)
<1>13. Types'
  <2>1. at' \in 0 .. 12
    BY <1>1
  <2>2. shadow' = [c \in Shadowed |-> shadow'[c]]
    BY <1>3, Zenon DEF SetupInv, Types
  <2>. QED
    BY <1>3, <1>11, <2>1, <2>2, Zenon DEF SetupInv, Types
<1>14. OneWakeup'
  <2>1. ~(reload > 0)
    BY <1>1 DEF SetupInv, OneWakeup
  <2>2. toBack' # 1 /\ events' # 1 /\ at' > 8 /\ driver # "run" /\ acks' = 0
    BY <1>1, <1>2, <1>3
  <2>. QED
    BY <1>3, <2>1, <2>2, Zenon DEF OneWakeup
<1>15. Fresh'
  <2>1. window'["DEVICE_FEATURES"] = virtio_mmio_read(mmio, "DEVICE_FEATURES")
    <3>1. CASE at = 9
      BY <1>5, <1>9, <1>11, <3>1, Zenon DEF v
    <3>2. CASE at # 9
      <4>1. Pos >= 10 /\ off # "DEVICE_FEATURES"
        BY <1>2, <1>4, <1>5, <1>10, <3>2
      <4>2. window["DEVICE_FEATURES"] = virtio_mmio_read(mmio, "DEVICE_FEATURES")
        BY <4>1, Zenon DEF SetupInv, Fresh
      <4>. QED
        BY <1>9, <1>11, <4>1, <4>2, Zenon
    <3>. QED
      BY <3>1, <3>2, Zenon
  <2>2. at # 9 => window'["QUEUE_NUM_MAX"] = QueueSize
    <3>1. CASE at = 10
      BY <1>5, <1>7, <1>9, <1>11, <3>1, Zenon
    <3>2. CASE at = 11
      <4>1. Pos >= 11 /\ off # "QUEUE_NUM_MAX"
        BY <1>2, <1>4, <1>5, <3>2
      <4>2. window["QUEUE_NUM_MAX"] = QueueSize
        BY <4>1, Zenon DEF SetupInv, Fresh
      <4>. QED
        BY <1>9, <1>11, <4>1, <4>2, Zenon
    <3>. QED
      BY <1>10, <3>1, <3>2, Zenon
  <2>3. Pos' >= 11 => at # 9
    BY <1>2, <1>4
  <2>4. virtio_mmio_read(mmio, "DEVICE_FEATURES")' = virtio_mmio_read(mmio, "DEVICE_FEATURES")
    BY <1>3, Zenon DEF virtio_mmio_read
  <2>. QED
    BY <2>1, <2>2, <2>3, <2>4, Zenon DEF Fresh
<1>16. Alike(Pos, Pos') /\ Pos \in 0 .. 13 /\ Pos' \in 0 .. 13 /\ UNCHANGED <<guestVars, shadow, mmio>>
  BY <1>3, <1>4 DEF Alike
<1>. QED
  BY <1>12, <1>13, <1>14, <1>15, <1>16, Quiet, Zenon

-----------------------------------------------------------------------------
(* The shadow.                                                             *)

\* What the scan has taken up to its place.
LEMMA Taken ==
  ASSUME SetupInv, at > 0
  PROVE  /\ \A r \in Shadowed : at > Place(r) => shadow[r] = window[r]
         /\ \A r \in Plain : shadow[r] # window[r] => Writes(r, step)
         /\ step >= Up => mmio.status = {}
<1>1. /\ driver = "wait" /\ Pos = at /\ Reached = step + 1 /\ at \in 1 .. 12
      /\ step \in 1 .. LastStep
  BY Scanning, Zenon
<1>2. \A r \in Plain : shadow[r] # window[r] => Pos <= Place(r) /\ Writes(r, step)
  BY Zenon DEF SetupInv, Synced, Plain
<1>3. \A r \in {"QUEUE_NUM", "QUEUE_ADDR"} : Pos > Place(r) => shadow[r] = window[r]
  BY <1>1, Zenon DEF SetupInv, Synced
<1>4. \A r \in Shadowed : at > Place(r) => ~(at <= Place(r))
  BY <1>1, Places
<1>5. \A r \in Shadowed : at > Place(r) => shadow[r] = window[r]
  BY <1>1, <1>2, <1>3, <1>4, Zenon DEF Plain
<1>6. step >= Up => mmio.status = {}
  <2>. HAVE step >= Up
  <2>1. step + 1 >= Up /\ step \notin {1, 3, 5, 15, Up - 2, Up - 1}
    BY <1>1, QueueSteps
  <2>2. ~Writes("STATUS", step)
    BY <2>1, Zenon DEF Writes
  <2>3. "STATUS" \in Plain
    BY Zenon DEF Plain, Shadowed
  <2>4. window["STATUS"] = {}
    BY <1>1, <2>1, Zenon DEF SetupInv, WindowAt, StatusAt
  <2>5. mmio.status = shadow["STATUS"]
    BY Zenon DEF SetupInv, FollowsAt
  <2>. QED
    BY <1>2, <2>2, <2>3, <2>4, <2>5, Zenon
<1>. QED
  BY <1>2, <1>5, <1>6, Zenon

\* A register is taken into the shadow, at its place in the scan.
LEMMA TakenOver ==
  ASSUME SetupInv, at > 0, UNCHANGED <<barrier, guestVars, window, linkVars>>,
         NEW r \in Shadowed,
         shadow' = [shadow EXCEPT ![r] = window[r]],
         \/ at \in 1 .. 8 /\ Place(r) = at /\ at' = at + 1
         \/ at = 5 /\ at' = at,
         lower' \in BOOLEAN, lower' => at' > 8,
         reload' \in 0 .. 3, reload' > 0 => at' = 5 /\ SelStep(step),
         mmio' \in Device, FollowsAt(Reached, Pos, leftover)', QueuesAt(Reached, Pos)'
  PROVE  SetupInv'
<1>1. /\ driver = "wait" /\ toBack = 0 /\ events = 0 /\ acks = 0
      /\ Pos = at /\ Reached = step + 1 /\ at \in 1 .. 12
      /\ step \in 1 .. LastStep /\ session \in {0, 1}
  BY Scanning, Zenon
<1>2. /\ session' = session /\ step' = step /\ got' = got /\ offered' = offered
      /\ driver' = driver /\ leftover' = leftover
      /\ window' = window /\ toBack' = toBack /\ events' = events /\ acks' = acks
      /\ barrier' = barrier
  BY Zenon DEF guestVars, linkVars
<1>3. /\ at \in 1 .. 8 /\ at' \in 1 .. 9 /\ Pos' = at' /\ Reached' = Reached
  BY <1>1, <1>2 DEF Pos, Reached
<1>4. shadow = [c \in Shadowed |-> shadow[c]]
  BY Zenon DEF SetupInv, Types
<1>5. /\ shadow'[r] = window[r]
      /\ \A c \in Shadowed : c # r => shadow'[c] = shadow[c]
      /\ shadow' = [c \in Shadowed |-> shadow'[c]]
  <2>1. DOMAIN shadow = Shadowed
    BY <1>4, Zenon
  <2>. QED
    BY <2>1, Zenon
<1>6. Types'
  <2>1. at' \in 0 .. 12
    BY <1>3
  <2>2. window' = [c \in Cells |-> window'[c]]
    BY <1>2, Zenon DEF SetupInv, Types
  <2>. QED
    BY <1>2, <1>5, <2>1, <2>2, Zenon DEF SetupInv, Types
<1>7. OneWakeup'
  <2>1. driver # "run" /\ toBack' # 1 /\ events' # 1 /\ acks' = 0
    BY <1>1, <1>2
  <2>. QED
    BY <1>2, <2>1, Zenon DEF OneWakeup, SelStep
<1>8. GuestKnows'
  BY <1>2, Zenon DEF SetupInv, GuestKnows
<1>9. WindowAt(window, Reached, session, leftover)'
  <2>1. WindowAt(window', Reached', session', leftover')
    BY <1>2, <1>3, Zenon DEF SetupInv
  <2>. QED
    BY <2>1, WindowPrimed, Zenon
<1>10. Fresh'
  <2>1. ~(Pos' >= 10) /\ ~(Pos' >= 11)
    BY <1>3
  <2>. QED
    BY <2>1, Zenon DEF Fresh
<1>11. ASSUME NEW c \in Shadowed, c # r
       PROVE  at' > Place(c) => at > Place(c)
  <2>1. Place(c) \in 1 .. 8 /\ Place(c) # Place(r)
    BY <1>11, Places DEF Shadowed
  <2>. QED
    BY <1>3, <2>1
<1>12. ASSUME NEW c \in Plain, shadow'[c] # window'[c]
       PROVE  driver' = "wait" /\ Pos' <= Place(c) /\ Writes(c, step')
  <2>1. c # r /\ c \in Shadowed /\ shadow[c] # window[c]
    BY <1>2, <1>5, <1>12, Zenon DEF Plain
  <2>2. ~(at > Place(c)) /\ Writes(c, step)
    BY <1>12, <2>1, Taken, Zenon
  <2>3. ~(at' > Place(c)) /\ Place(c) \in 1 .. 8
    BY <1>11, <2>1, <2>2, Places, Zenon
  <2>4. at' <= Place(c)
    BY <1>3, <2>3
  <2>. QED
    BY <1>1, <1>2, <1>3, <2>2, <2>4, Zenon
<1>13. ASSUME NEW c \in {"QUEUE_NUM", "QUEUE_ADDR"}, Pos' > Place(c)
       PROVE  shadow'[c] = window'[c]
  <2>1. c \in Shadowed
    BY Zenon DEF Shadowed
  <2>2. c # r => at > Place(c)
    BY <1>3, <1>11, <1>13, <2>1, Zenon
  <2>. QED
    BY <1>2, <1>5, <2>1, <2>2, Taken, Zenon
<1>14. Pos' <= 2 => r # "DRIVER_FEATURES" /\ Pos <= 2
  BY <1>1, <1>3, Places
<1>15. "DRIVER_FEATURES" \in Shadowed
  BY Zenon DEF Shadowed
<1>16. /\ Reached' = 12 /\ Pos' <= 2 /\ ~leftover' => shadow'["DRIVER_FEATURES"] \in {0, Features[0]}
       /\ Reached' = 14 /\ Pos' <= 2 /\ ~leftover' => shadow'["DRIVER_FEATURES"] = Features[1]
  <2>1. Pos' <= 2 => shadow'["DRIVER_FEATURES"] = shadow["DRIVER_FEATURES"] /\ Pos <= 2
    BY <1>5, <1>14, <1>15, Zenon
  <2>2. /\ Reached = 12 /\ Pos <= 2 /\ ~leftover => shadow["DRIVER_FEATURES"] \in {0, Features[0]}
        /\ Reached = 14 /\ Pos <= 2 /\ ~leftover => shadow["DRIVER_FEATURES"] = Features[1]
    BY Zenon DEF SetupInv, Synced
  <2>. QED
    BY <1>2, <1>3, <2>1, <2>2, Zenon
<1>17. Synced'
  <2>1. \A c \in Plain : Writes(c, step') = Writes(c, step)'
    BY Zenon DEF Writes, SelStep, ReadyStep
  <2>. QED
    BY <1>12, <1>13, <1>16, <2>1, Zenon DEF Synced, Place, Plain
<1>. QED
  BY <1>6, <1>7, <1>8, <1>9, <1>10, <1>17, Zenon DEF SetupInv

\* The reload of the queue registers' shadows keeps the invariant: they are clear.
LEMMA ReloadKeeps ==
  ASSUME SetupInv, reload_queue_shadow
  PROVE  SetupInv' /\ (BanksFollow => BanksFollow')
<1>. DEFINE off == QueueOffsets[1 + Len(QueueOffsets) - reload]
<1>0. reload \in 0 .. 3
  BY Zenon DEF SetupInv, Types
<1>1. /\ reload \in 1 .. 3 /\ reload' \in 0 .. 2
      /\ shadow' = [shadow EXCEPT ![off] = window[off]]
      /\ at' = at /\ lower' = lower /\ mmio' = mmio
      /\ UNCHANGED <<barrier, guestVars, window, linkVars>>
  BY <1>0 DEF reload_queue_shadow
<1>2. at = 5 /\ SelStep(step) /\ ~lower
  BY <1>1 DEF SetupInv, OneWakeup
<1>3. off \in QueueRegs /\ off \in Shadowed
  <2>1. 1 + Len(QueueOffsets) - reload \in 1 .. 3
    BY <1>1, Scan
  <2>. QED
    BY <2>1, Scan, Places, Zenon
<1>4. /\ Pos = at /\ Reached = step + 1 /\ step \in 1 .. LastStep /\ at > 0
  BY <1>2, Scanning
<1>5. Pos' = Pos /\ Reached' = Reached /\ session' = session /\ leftover' = leftover
  BY <1>1, Zenon DEF Pos, Reached, guestVars, linkVars
<1>. HIDE DEF off
<1>6. \A c \in Shadowed : c \notin QueueRegs => shadow'[c] = shadow[c]
  <2>1. DOMAIN shadow = Shadowed
    BY Zenon DEF SetupInv, Types
  <2>. QED
    BY <1>1, <1>3, <2>1, Zenon
<1>7. FollowsAt(Reached, Pos, leftover)'
  <2>1. /\ shadow'["STATUS"] = shadow["STATUS"]
        /\ shadow'["DEVICE_FEATURES_SEL"] = shadow["DEVICE_FEATURES_SEL"]
        /\ shadow'["DRIVER_FEATURES_SEL"] = shadow["DRIVER_FEATURES_SEL"]
        /\ shadow'["QUEUE_SEL"] = shadow["QUEUE_SEL"]
    BY <1>6, Zenon DEF Shadowed, QueueRegs
  <2>. QED
    BY <1>1, <1>5, <2>1, Zenon DEF SetupInv, FollowsAt
<1>8. QueuesAt(Reached, Pos)'
  <2>1. ASSUME NEW q \in Queues, NEW r \in QueueRegs
        PROVE  ~(Reached \in 18 + 6 * q .. Top(q) /\ (Reached > 18 + 6 * q \/ Pos > Place(r)))
    <3>1. Pos = 5 /\ Place(r) \in 5 .. 7
      BY <1>2, <1>4, Places, Zenon
    <3>2. \A p \in Queues : step = 17 + 6 * p \/ step = Up + 3 * p =>
            ~(step + 1 \in 18 + 6 * q .. Top(q) /\ step + 1 > 18 + 6 * q)
      BY <1>4, QueueSteps
    <3>3. ~(Reached \in 18 + 6 * q .. Top(q) /\ Reached > 18 + 6 * q)
      BY <1>2, <1>4, <3>2, Zenon DEF SelStep
    <3>4. ~(Pos > Place(r))
      BY <3>1
    <3>. QED
      BY <3>3, <3>4, Zenon
  <2>2. ASSUME NEW q \in Queues, QueueFollows(q, Reached, Pos)
        PROVE  QueueFollows(q, Reached, Pos)'
    BY <1>1, <1>5, <2>1, <2>2, ZenonT(40) DEF QueueFollows, Ring, Place
  <2>. QED
    BY <1>1, <1>5, <2>2, Zenon DEF SetupInv, QueuesAt
<1>9. BanksFollow => BanksFollow'
  BY <1>1, <1>5, Zenon DEF BanksFollow, BanksAt
<1>10. /\ lower' \in BOOLEAN /\ (lower' => at' > 8) /\ mmio' \in Device
  BY <1>1, <1>2, Zenon DEF SetupInv, Types
<1>11. reload' \in 0 .. 3 /\ (reload' > 0 => at' = 5 /\ SelStep(step))
  BY <1>1, <1>2
<1>12. SetupInv'
  BY <1>1, <1>2, <1>3, <1>4, <1>7, <1>8, <1>10, <1>11, TakenOver, Zenon
<1>. QED
  BY <1>9, <1>12, Zenon

-----------------------------------------------------------------------------
(* The dispatch of the selectors and the features.                         *)

\* Register r is dispatched at its place in the scan.
Polled(r) ==
  /\ at > 0 /\ at = Place(r) /\ shadow[r] # window[r]
  /\ shadow' = [shadow EXCEPT ![r] = window[r]]
  /\ mmio' = virtio_mmio_write(mmio, r, window[r])
  /\ Pos' = at + 1 /\ Reached' = Reached /\ session' = session /\ leftover' = leftover

\* What has to be shown of the device then.
Fits == mmio' \in Device /\ FollowsAt(Reached, Pos, leftover)' /\ QueuesAt(Reached, Pos)'

\* What is known when register r is dispatched.
LEMMA PolledFacts ==
  ASSUME SetupInv, NEW r \in Shadowed, Polled(r)
  PROVE  /\ shadow'[r] = window[r] /\ \A c \in Shadowed : c # r => shadow'[c] = shadow[c]
         /\ mmio \in Device /\ WindowAt(window, Reached, session, leftover) /\ FollowsAt(Reached, Pos, leftover)
         /\ QueuesAt(Reached, Pos)
         /\ Pos = at /\ Reached = step + 1 /\ step \in 1 .. LastStep /\ session \in {0, 1}
         /\ \A c \in Shadowed : at > Place(c) => shadow[c] = window[c]
         /\ r \in Plain => Writes(r, step)
         /\ step >= Up => mmio.status = {}
<1>1. DOMAIN shadow = Shadowed
  BY Zenon DEF SetupInv, Types
<1>2. shadow'[r] = window[r] /\ \A c \in Shadowed : c # r => shadow'[c] = shadow[c]
  BY <1>1, Zenon DEF Polled
<1>3. at > 0 /\ shadow[r] # window[r]
  BY Zenon DEF Polled
<1>4. mmio \in Device
  BY Zenon DEF SetupInv, Types
<1>. QED
  BY <1>2, <1>3, <1>4, Scanning, Taken, Zenon DEF SetupInv

\* What a write does to the device.
LEMMA WriteCases ==
  ASSUME NEW m, NEW v
  PROVE  /\ virtio_mmio_write(m, "DEVICE_FEATURES_SEL", v) = [m EXCEPT !.device_features_sel = v]
         /\ virtio_mmio_write(m, "DRIVER_FEATURES_SEL", v) = [m EXCEPT !.driver_features_sel = v]
         /\ virtio_mmio_write(m, "DRIVER_FEATURES", v) = WriteFeatures(m, v)
         /\ virtio_mmio_write(m, "QUEUE_SEL", v) = [m EXCEPT !.queue_sel = v]
         /\ \A r \in QueueRegs : virtio_mmio_write(m, r, v) = WriteQueue(m, r, v)
         /\ virtio_mmio_write(m, "STATUS", v) = IF v = {} THEN virtio_mmio_reset
                                                ELSE [m EXCEPT !.status = v]
<1>1. /\ virtio_mmio_write(m, "DEVICE_FEATURES_SEL", v) = [m EXCEPT !.device_features_sel = v]
      /\ virtio_mmio_write(m, "DRIVER_FEATURES_SEL", v) = [m EXCEPT !.driver_features_sel = v]
      /\ virtio_mmio_write(m, "DRIVER_FEATURES", v) = WriteFeatures(m, v)
      /\ virtio_mmio_write(m, "QUEUE_SEL", v) = [m EXCEPT !.queue_sel = v]
  BY Zenon DEF virtio_mmio_write, QueueRegs
<1>2. \A r \in QueueRegs : virtio_mmio_write(m, r, v) = WriteQueue(m, r, v)
  BY Zenon DEF virtio_mmio_write, QueueRegs
<1>3. virtio_mmio_write(m, "STATUS", v) = IF v = {} THEN virtio_mmio_reset
                                          ELSE [m EXCEPT !.status = v]
  BY Zenon DEF virtio_mmio_write, QueueRegs
<1>. QED
  BY <1>1, <1>2, <1>3, Zenon

\* Steps that leave the queues and their shadows alone.
LEMMA QueueSame ==
  ASSUME mmio'.queues = mmio.queues, Reached' = Reached, session' = session,
         \A r \in QueueRegs : shadow'[r] = shadow[r],
         \A r \in QueueRegs : Pos > Place(r) <=> Pos' > Place(r), Pos > 7 <=> Pos' > 7
  PROVE  \A q \in Queues : QueueFollows(q, Reached, Pos) => QueueFollows(q, Reached, Pos)'
BY Zenon DEF QueueFollows, Ring, Place

\* All queues together.
LEMMA QueuesSame ==
  ASSUME QueuesAt(Reached, Pos), Pos \in 0 .. 13, Pos' \in 0 .. 13,
         mmio'.queues = mmio.queues, mmio'.status = mmio.status, Reached' = Reached, session' = session,
         \A r \in QueueRegs : shadow'[r] = shadow[r],
         (Pos <= 4 /\ Pos' <= 5) \/ (Pos > 7 /\ Pos' > 7)
  PROVE  QueuesAt(Reached, Pos)'
<1>1. \A r \in QueueRegs : Pos > Place(r) <=> Pos' > Place(r)
  BY Places
<1>2. Pos > 7 <=> Pos' > 7
  OBVIOUS
<1>3. \A q \in Queues : QueueFollows(q, Reached, Pos) => QueueFollows(q, Reached, Pos)'
  BY <1>1, <1>2, QueueSame, Zenon
<1>. QED
  BY <1>3, Zenon DEF QueuesAt

\* Steps that leave the feature banks alone.
LEMMA BanksSame ==
  ASSUME mmio'.driver_features = mmio.driver_features, mmio'.status = mmio.status,
         Reached' = Reached, leftover' = leftover, Pos' > 2 <=> Pos > 2
  PROVE  BanksFollow => BanksFollow'
<1>. SUFFICES ASSUME BanksFollow, ~leftover, Reached > 2, mmio.status # {}
              PROVE  /\ mmio.driver_features[1] =
                          (IF Reached > 12 \/ (Reached = 12 /\ Pos' > 2) THEN Features[1] ELSE 0)
                     /\ mmio.driver_features[0] =
                          (IF Reached > 14 \/ (Reached = 14 /\ Pos' > 2) THEN Features[0] ELSE 0)
  BY DEF BanksFollow, BanksAt
<1>. QED
  BY DEF BanksFollow, BanksAt

\* DEVICE_FEATURES_SEL is dispatched.
LEMMA PolledDeviceSel ==
  ASSUME SetupInv, Polled("DEVICE_FEATURES_SEL")
  PROVE  Fits /\ (BanksFollow => BanksFollow')
<1>. DEFINE r == "DEVICE_FEATURES_SEL"
            v == window[r]
<1>1. r \in Shadowed
  BY Zenon DEF Shadowed
<1>2. /\ shadow'[r] = window[r] /\ \A c \in Shadowed : c # r => shadow'[c] = shadow[c]
      /\ mmio \in Device /\ WindowAt(window, Reached, session, leftover) /\ FollowsAt(Reached, Pos, leftover)
      /\ QueuesAt(Reached, Pos) /\ Pos = at
  BY <1>1, PolledFacts, Zenon
<1>3. /\ at = 1 /\ Pos' = 2 /\ Reached' = Reached /\ session' = session
      /\ leftover' = leftover
  BY Places DEF Polled
<1>4. v \in Banks
  BY <1>2, Zenon DEF WindowAt, SelectorsAt, Banks
<1>5. mmio' = [mmio EXCEPT !.device_features_sel = v]
  BY WriteCases, Zenon DEF Polled
<1>6. /\ mmio'.device_features_sel = v /\ mmio'.driver_features_sel = mmio.driver_features_sel
      /\ mmio'.queue_sel = mmio.queue_sel /\ mmio'.driver_features = mmio.driver_features
      /\ mmio'.queues = mmio.queues /\ mmio'.status = mmio.status /\ mmio' \in Device
  BY <1>2, <1>4, <1>5, Zenon DEF Device
<1>7. /\ shadow'["STATUS"] = shadow["STATUS"] /\ shadow'["QUEUE_SEL"] = shadow["QUEUE_SEL"]
      /\ shadow'["DRIVER_FEATURES_SEL"] = shadow["DRIVER_FEATURES_SEL"]
      /\ \A c \in QueueRegs : shadow'[c] = shadow[c]
  BY <1>2, Zenon DEF Shadowed, QueueRegs
<1>. HIDE DEF v
<1>8. FollowsAt(Reached, Pos, leftover)'
  <2>1. Pos' > 4 <=> Pos > 4
    BY <1>2, <1>3
  <2>. QED
    BY <1>2, <1>3, <1>6, <1>7, <2>1, Zenon DEF FollowsAt, v
<1>9. QueuesAt(Reached, Pos)'
  <2>1. Pos \in 0 .. 13 /\ Pos' \in 0 .. 13 /\ Pos <= 4 /\ Pos' <= 5
    BY <1>2, <1>3
  <2>. QED
    BY <1>2, <1>3, <1>6, <1>7, <2>1, QueuesSame, Zenon
<1>10. BanksFollow => BanksFollow'
  <2>1. Pos' > 2 <=> Pos > 2
    BY <1>2, <1>3
  <2>. QED
    BY <1>3, <1>6, <2>1, BanksSame, Zenon
<1>. QED
  BY <1>6, <1>8, <1>9, <1>10, Zenon DEF Fits

\* DRIVER_FEATURES_SEL is dispatched.
LEMMA PolledDriverSel ==
  ASSUME SetupInv, Polled("DRIVER_FEATURES_SEL")
  PROVE  Fits /\ (BanksFollow => BanksFollow')
<1>. DEFINE r == "DRIVER_FEATURES_SEL"
            v == window[r]
<1>1. r \in Shadowed
  BY Zenon DEF Shadowed
<1>2. /\ shadow'[r] = window[r] /\ \A c \in Shadowed : c # r => shadow'[c] = shadow[c]
      /\ mmio \in Device /\ WindowAt(window, Reached, session, leftover) /\ FollowsAt(Reached, Pos, leftover)
      /\ QueuesAt(Reached, Pos) /\ Pos = at
  BY <1>1, PolledFacts, Zenon
<1>3. /\ at = 3 /\ Pos' = 4 /\ Reached' = Reached /\ session' = session
      /\ leftover' = leftover
  BY Places DEF Polled
<1>4. v \in Banks
  BY <1>2, Zenon DEF WindowAt, SelectorsAt, Banks
<1>5. mmio' = [mmio EXCEPT !.driver_features_sel = v]
  BY WriteCases, Zenon DEF Polled
<1>6. /\ mmio'.driver_features_sel = v /\ mmio'.device_features_sel = mmio.device_features_sel
      /\ mmio'.queue_sel = mmio.queue_sel /\ mmio'.driver_features = mmio.driver_features
      /\ mmio'.queues = mmio.queues /\ mmio'.status = mmio.status /\ mmio' \in Device
  BY <1>2, <1>4, <1>5, Zenon DEF Device
<1>7. /\ shadow'["STATUS"] = shadow["STATUS"] /\ shadow'["QUEUE_SEL"] = shadow["QUEUE_SEL"]
      /\ shadow'["DEVICE_FEATURES_SEL"] = shadow["DEVICE_FEATURES_SEL"]
      /\ \A c \in QueueRegs : shadow'[c] = shadow[c]
  BY <1>2, Zenon DEF Shadowed, QueueRegs
<1>. HIDE DEF v
<1>8. FollowsAt(Reached, Pos, leftover)'
  <2>1. Pos' > 4 <=> Pos > 4
    BY <1>2, <1>3
  <2>. QED
    BY <1>2, <1>3, <1>6, <1>7, <2>1, Zenon DEF FollowsAt, v
<1>9. QueuesAt(Reached, Pos)'
  <2>1. Pos \in 0 .. 13 /\ Pos' \in 0 .. 13 /\ Pos <= 4 /\ Pos' <= 5
    BY <1>2, <1>3
  <2>. QED
    BY <1>2, <1>3, <1>6, <1>7, <2>1, QueuesSame, Zenon
<1>10. BanksFollow => BanksFollow'
  <2>1. Pos' > 2 <=> Pos > 2
    BY <1>2, <1>3
  <2>. QED
    BY <1>3, <1>6, <2>1, BanksSame, Zenon
<1>. QED
  BY <1>6, <1>8, <1>9, <1>10, Zenon DEF Fits

\* QUEUE_SEL is dispatched.
LEMMA PolledQueueSel ==
  ASSUME SetupInv, Polled("QUEUE_SEL")
  PROVE  Fits /\ (BanksFollow => BanksFollow')
<1>. DEFINE r == "QUEUE_SEL"
            v == window[r]
<1>1. r \in Shadowed
  BY Zenon DEF Shadowed
<1>2. /\ shadow'[r] = window[r] /\ \A c \in Shadowed : c # r => shadow'[c] = shadow[c]
      /\ mmio \in Device /\ WindowAt(window, Reached, session, leftover) /\ FollowsAt(Reached, Pos, leftover)
      /\ QueuesAt(Reached, Pos) /\ Pos = at
  BY <1>1, PolledFacts, Zenon
<1>3. /\ at = 4 /\ Pos' = 5 /\ Reached' = Reached /\ session' = session
      /\ leftover' = leftover
  BY Places DEF Polled
<1>4. v \in Queues
  BY <1>2, Zenon DEF WindowAt, QueueAt
<1>5. mmio' = [mmio EXCEPT !.queue_sel = v]
  BY WriteCases, Zenon DEF Polled
<1>6. /\ mmio'.queue_sel = v /\ mmio'.device_features_sel = mmio.device_features_sel
      /\ mmio'.driver_features_sel = mmio.driver_features_sel
      /\ mmio'.driver_features = mmio.driver_features
      /\ mmio'.queues = mmio.queues /\ mmio'.status = mmio.status /\ mmio' \in Device
  BY <1>2, <1>4, <1>5, Zenon DEF Device
<1>7. /\ shadow'["STATUS"] = shadow["STATUS"]
      /\ shadow'["DEVICE_FEATURES_SEL"] = shadow["DEVICE_FEATURES_SEL"]
      /\ shadow'["DRIVER_FEATURES_SEL"] = shadow["DRIVER_FEATURES_SEL"]
      /\ \A c \in QueueRegs : shadow'[c] = shadow[c]
  BY <1>2, Zenon DEF Shadowed, QueueRegs
<1>. HIDE DEF v
<1>8. FollowsAt(Reached, Pos, leftover)'
  BY <1>2, <1>3, <1>6, <1>7, Zenon DEF FollowsAt, v
<1>9. QueuesAt(Reached, Pos)'
  <2>1. Pos \in 0 .. 13 /\ Pos' \in 0 .. 13 /\ Pos <= 4 /\ Pos' <= 5
    BY <1>2, <1>3
  <2>. QED
    BY <1>2, <1>3, <1>6, <1>7, <2>1, QueuesSame, Zenon
<1>10. BanksFollow => BanksFollow'
  <2>1. Pos' > 2 <=> Pos > 2
    BY <1>2, <1>3
  <2>. QED
    BY <1>3, <1>6, <2>1, BanksSame, Zenon
<1>. QED
  BY <1>6, <1>8, <1>9, <1>10, Zenon DEF Fits

\* DRIVER_FEATURES is dispatched, to the bank that the driver selected before.
LEMMA PolledFeatures ==
  ASSUME SetupInv, Polled("DRIVER_FEATURES")
  PROVE  Fits /\ (BanksFollow => BanksFollow')
<1>. DEFINE r == "DRIVER_FEATURES"
            v == window[r]
            b == mmio.driver_features_sel
<1>1. r \in Shadowed /\ r \in Plain
  BY Zenon DEF Shadowed, Plain
<1>2. /\ shadow'[r] = window[r] /\ \A c \in Shadowed : c # r => shadow'[c] = shadow[c]
      /\ mmio \in Device /\ WindowAt(window, Reached, session, leftover) /\ FollowsAt(Reached, Pos, leftover)
      /\ QueuesAt(Reached, Pos) /\ Pos = at
      /\ Reached = step + 1 /\ step \in 1 .. LastStep /\ Writes(r, step)
  BY <1>1, PolledFacts, Zenon
<1>3. /\ at = 2 /\ Pos' = 3 /\ Reached' = Reached /\ session' = session
      /\ leftover' = leftover
  BY Places DEF Polled
<1>4. Reached = 12 \/ Reached = 14
  BY <1>2 DEF Writes
<1>5. /\ Reached = 12 => (~leftover => v = Features[1]) /\ window["DRIVER_FEATURES_SEL"] = 1
      /\ Reached = 14 => v = Features[0] /\ window["DRIVER_FEATURES_SEL"] = 0
  BY <1>2 DEF WindowAt, SelectorsAt
<1>6. v \in Words
  BY <1>2, Zenon DEF WindowAt, SelectorsAt, Words
<1>7. b \in Banks
  BY <1>2, Zenon DEF Device
<1>8. mmio' = [mmio EXCEPT !.driver_features[b] = v]
  BY <1>7, WriteCases, Zenon DEF Polled, WriteFeatures
<1>9. /\ mmio'.queue_sel = mmio.queue_sel /\ mmio'.device_features_sel = mmio.device_features_sel
      /\ mmio'.driver_features_sel = mmio.driver_features_sel
      /\ mmio'.driver_features = [mmio.driver_features EXCEPT ![b] = v]
      /\ mmio'.queues = mmio.queues /\ mmio'.status = mmio.status /\ mmio' \in Device
  BY <1>2, <1>6, <1>7, <1>8, Zenon DEF Device
<1>10. /\ shadow'["STATUS"] = shadow["STATUS"] /\ shadow'["QUEUE_SEL"] = shadow["QUEUE_SEL"]
       /\ shadow'["DEVICE_FEATURES_SEL"] = shadow["DEVICE_FEATURES_SEL"]
       /\ shadow'["DRIVER_FEATURES_SEL"] = shadow["DRIVER_FEATURES_SEL"]
       /\ \A c \in QueueRegs : shadow'[c] = shadow[c]
  BY <1>2, Zenon DEF Shadowed, QueueRegs
<1>. HIDE DEF v, b
<1>11. mmio.status # {}
  <2>1. Reached \in 5 .. Up - 1
    BY <1>4, QueueSteps
  <2>. QED
    BY <1>2, <2>1, Zenon DEF FollowsAt
<1>12. FollowsAt(Reached, Pos, leftover)'
  <2>1. Pos' > 4 <=> Pos > 4
    BY <1>2, <1>3
  <2>. QED
    BY <1>2, <1>3, <1>9, <1>10, <1>11, <2>1, Zenon DEF FollowsAt
<1>13. QueuesAt(Reached, Pos)'
  <2>1. Pos \in 0 .. 13 /\ Pos' \in 0 .. 13 /\ Pos <= 4 /\ Pos' <= 5
    BY <1>2, <1>3
  <2>. QED
    BY <1>2, <1>3, <1>9, <1>10, <2>1, QueuesSame, Zenon
<1>14. BanksFollow => BanksFollow'
  <2>. SUFFICES ASSUME BanksFollow, ~leftover PROVE BanksFollow'
    BY <1>3, Zenon DEF BanksFollow, BanksAt
  <2>1. b = window["DRIVER_FEATURES_SEL"]
    <3>1. shadow["DRIVER_FEATURES_SEL"] = window["DRIVER_FEATURES_SEL"]
      <4>1. ~Writes("DRIVER_FEATURES_SEL", step) /\ "DRIVER_FEATURES_SEL" \in Plain
        BY <1>2, <1>4 DEF Writes, Plain, Shadowed
      <4>2. at > 0
        BY <1>3
      <4>. QED
        BY <4>1, <4>2, Taken, Zenon
    <3>2. mmio.driver_features_sel = shadow["DRIVER_FEATURES_SEL"]
      BY <1>2, Zenon DEF FollowsAt
    <3>. QED
      BY <3>1, <3>2, Zenon DEF b
  <2>2. mmio.driver_features = [c \in Banks |-> mmio.driver_features[c]]
    BY <1>2, Zenon DEF Device
  <2>3. CASE Reached = 12
    <3>1. mmio.driver_features[0] = 0
      BY <1>2, <1>3, <1>11, <2>3 DEF BanksFollow, BanksAt
    <3>2. mmio'.driver_features[1] = Features[1] /\ mmio'.driver_features[0] = 0
      BY <1>5, <1>9, <2>1, <2>2, <2>3, <3>1 DEF Banks
    <3>. QED
      BY <1>3, <2>3, <3>2 DEF BanksFollow, BanksAt
  <2>4. CASE Reached = 14
    <3>1. mmio.driver_features[1] = Features[1]
      BY <1>2, <1>3, <1>11, <2>4 DEF BanksFollow, BanksAt
    <3>2. mmio'.driver_features[1] = Features[1] /\ mmio'.driver_features[0] = Features[0]
      BY <1>5, <1>9, <2>1, <2>2, <2>4, <3>1 DEF Banks
    <3>. QED
      BY <1>3, <2>4, <3>2 DEF BanksFollow, BanksAt
  <2>. QED
    BY <1>4, <2>3, <2>4, Zenon
<1>. QED
  BY <1>9, <1>12, <1>13, <1>14, Zenon DEF Fits

-----------------------------------------------------------------------------
(* The dispatch of a queue's size and addresses.                           *)

\* Every access of the queues' set-up belongs to a queue.
LEMMA QueueOf ==
  ASSUME NEW k \in 18 .. Up
  PROVE  \E q \in Queues : k \in 18 + 6 * q .. Top(q)
<1>. DEFINE n == (k - 18) \div 6
<1>1. n \in Nat /\ k \in 18 + 6 * n .. 23 + 6 * n
  BY QueueSteps
<1>. HIDE DEF n
<1>2. CASE n <= QueueCount - 1
  <2>1. n \in Queues
    BY <1>1, <1>2, QueueSteps DEF Queues
  <2>2. k \in 18 + 6 * n .. Top(n)
    BY <1>1, <2>1, QueueSteps
  <2>. QED
    BY <2>1, <2>2, Zenon
<1>3. CASE n > QueueCount - 1
  <2>1. QueueCount - 1 \in Queues
    BY QueueSteps DEF Queues
  <2>2. Top(QueueCount - 1) = Up
    BY Zenon DEF Top
  <2>3. k \in 18 + 6 * (QueueCount - 1) .. Top(QueueCount - 1)
    BY <1>1, <1>3, <2>2, QueueSteps
  <2>. QED
    BY <2>1, <2>3, Zenon
<1>. QED
  BY <1>1, <1>2, <1>3, QueueSteps

\* The queue the daemon has selected is the one the driver sets up.
LEMMA CurrentQueue ==
  ASSUME SetupInv, at > 4, mmio.status # {}, NEW q \in Queues, Reached \in 18 + 6 * q .. Top(q)
  PROVE  mmio.queue_sel = q
<1>1. at > 0 /\ at \in 1 .. 12 /\ Pos = at
  <2>1. at > 0
    BY DEF SetupInv, Types
  <2>. QED
    BY <2>1, Scanning, Zenon
<1>2. Reached \in 19 .. Up \/ (Reached = 18 /\ Pos > 4)
  BY <1>1, QueueSteps
<1>3. mmio.queue_sel = shadow["QUEUE_SEL"]
  BY <1>2, Zenon DEF SetupInv, FollowsAt
<1>4. shadow["QUEUE_SEL"] = window["QUEUE_SEL"]
  <2>1. "QUEUE_SEL" \in Shadowed /\ at > Place("QUEUE_SEL")
    BY Places, Zenon DEF Shadowed
  <2>. QED
    BY <1>1, <2>1, Taken, Zenon
<1>5. window["QUEUE_SEL"] = q
  BY Zenon DEF SetupInv, WindowAt, QueueAt
<1>. QED
  BY <1>3, <1>4, <1>5, Zenon

\* A write of a queue's register.
LEMMA WriteQueueFacts ==
  ASSUME mmio \in Device, NEW r \in QueueRegs, NEW v \in Nat, mmio' = WriteQueue(mmio, r, v)
  PROVE  /\ mmio' \in Device /\ mmio.queue_sel \in Queues
         /\ mmio'.queue_sel = mmio.queue_sel /\ mmio'.device_features_sel = mmio.device_features_sel
         /\ mmio'.driver_features_sel = mmio.driver_features_sel
         /\ mmio'.driver_features = mmio.driver_features /\ mmio'.status = mmio.status
         /\ mmio'.queues[mmio.queue_sel][r] = v
         /\ \A q \in Queues, c \in QueueRegs : q # mmio.queue_sel \/ c # r =>
              mmio'.queues[q][c] = mmio.queues[q][c]
<1>. DEFINE p == mmio.queue_sel
<1>1. p \in Queues
  BY Zenon DEF Device
<1>2. mmio' = [mmio EXCEPT !.queues[p][r] = v]
  BY <1>1, Zenon DEF WriteQueue
<1>. DEFINE new == [mmio.queues EXCEPT ![p][r] = v]
<1>3. mmio.queues \in [Queues -> [QueueRegs -> Nat]]
  BY Zenon DEF Device
<1>4. new \in [Queues -> [QueueRegs -> Nat]]
  BY <1>1, <1>3, Zenon
<1>5. /\ mmio'.queue_sel = mmio.queue_sel /\ mmio'.device_features_sel = mmio.device_features_sel
      /\ mmio'.driver_features_sel = mmio.driver_features_sel
      /\ mmio'.driver_features = mmio.driver_features /\ mmio'.status = mmio.status
      /\ mmio'.queues = new
  BY <1>2, Zenon DEF Device
<1>6. mmio' = [mmio EXCEPT !.queues = new]
  BY <1>2, Zenon
<1>7. new[p][r] = v
  BY <1>1, <1>3, Zenon
<1>8. \A q \in Queues, c \in QueueRegs : q # p \/ c # r => new[q][c] = mmio.queues[q][c]
  BY <1>1, <1>3, Zenon
<1>. HIDE DEF new
<1>9. mmio' \in Device
  BY <1>4, <1>6, Zenon DEF Device
<1>. QED
  BY <1>1, <1>5, <1>7, <1>8, <1>9, Zenon

\* QUEUE_NUM and the addresses.
LEMMA PolledConfig ==
  ASSUME SetupInv, NEW r \in {"QUEUE_NUM", "QUEUE_ADDR"}, Polled(r)
  PROVE  Fits /\ (BanksFollow => BanksFollow')
<1>. DEFINE v == window[r]
            p == mmio.queue_sel
<1>1. r \in Shadowed /\ r \in QueueRegs /\ r # "QUEUE_READY"
  BY Zenon DEF Shadowed, QueueRegs
<1>2. /\ shadow'[r] = window[r] /\ \A c \in Shadowed : c # r => shadow'[c] = shadow[c]
      /\ mmio \in Device /\ WindowAt(window, Reached, session, leftover) /\ FollowsAt(Reached, Pos, leftover)
      /\ QueuesAt(Reached, Pos) /\ Pos = at
      /\ Reached = step + 1 /\ step \in 1 .. LastStep
      /\ step >= Up => mmio.status = {}
  BY <1>1, PolledFacts, Zenon
<1>3. /\ at \in 5 .. 6 /\ Place(r) = at /\ Pos' = at + 1 /\ Reached' = Reached /\ session' = session
      /\ leftover' = leftover
  BY Places DEF Polled
<1>4. v \in Nat
  <2>1. window["QUEUE_NUM"] \in Nat /\ window["QUEUE_ADDR"] \in Nat
    BY <1>2, Zenon DEF WindowAt, QueueAt
  <2>. QED
    BY <2>1, Zenon
<1>5. mmio' = WriteQueue(mmio, r, v)
  <2>1. mmio' = virtio_mmio_write(mmio, r, v)
    BY Zenon DEF Polled
  <2>2. \A c \in QueueRegs : virtio_mmio_write(mmio, c, v) = WriteQueue(mmio, c, v)
    BY WriteCases, Zenon
  <2>. QED
    BY <1>1, <2>1, <2>2, Zenon
<1>. HIDE DEF v
<1>6. /\ mmio' \in Device /\ p \in Queues
      /\ mmio'.queue_sel = mmio.queue_sel /\ mmio'.device_features_sel = mmio.device_features_sel
      /\ mmio'.driver_features_sel = mmio.driver_features_sel
      /\ mmio'.driver_features = mmio.driver_features /\ mmio'.status = mmio.status
      /\ mmio'.queues[p][r] = v
      /\ \A q \in Queues, c \in QueueRegs : q # p \/ c # r =>
           mmio'.queues[q][c] = mmio.queues[q][c]
  BY <1>1, <1>2, <1>4, <1>5, WriteQueueFacts, Zenon
<1>7. /\ shadow'["STATUS"] = shadow["STATUS"] /\ shadow'["QUEUE_SEL"] = shadow["QUEUE_SEL"]
      /\ shadow'["DEVICE_FEATURES_SEL"] = shadow["DEVICE_FEATURES_SEL"]
      /\ shadow'["DRIVER_FEATURES_SEL"] = shadow["DRIVER_FEATURES_SEL"]
  BY <1>1, <1>2, Zenon DEF Shadowed, QueueRegs
<1>. HIDE DEF p
<1>8. \A q \in Queues : mmio'.queues[q]["QUEUE_READY"] = mmio.queues[q]["QUEUE_READY"]
  <2>1. "QUEUE_READY" \in QueueRegs
    BY Zenon DEF QueueRegs
  <2>. QED
    BY <1>1, <1>6, <2>1, Zenon
<1>9. FollowsAt(Reached, Pos, leftover)'
  <2>1. Pos' > 4 <=> Pos > 4
    BY <1>2, <1>3
  <2>. QED
    BY <1>2, <1>3, <1>6, <1>7, <1>8, <2>1, Zenon DEF FollowsAt
<1>10. ASSUME mmio.status # {}, NEW q \in Queues, Reached \in 18 + 6 * q .. Top(q)
       PROVE  p = q
  <2>1. at > 4
    BY <1>3
  <2>. QED
    BY <1>10, <2>1, CurrentQueue, Zenon DEF p
<1>11. ASSUME mmio.status # {}, NEW q \in Queues, Reached >= 23 + 6 * q, p = q
       PROVE  v = IF r = "QUEUE_NUM" THEN QueueSize ELSE Ring(session, q)
  <2>1. Reached \in 18 .. Up
    <3>1. ~(step >= Up)
      BY <1>2, <1>11, Zenon
    <3>. QED
      BY <1>2, <1>11, <3>1, QueueSteps
  <2>2. PICK o \in Queues : Reached \in 18 + 6 * o .. Top(o)
    BY <2>1, QueueOf, Zenon
  <2>3. o = q
    BY <1>10, <1>11, <2>2, Zenon
  <2>4. Reached \in 18 + 6 * q .. Top(q) /\ ~(Reached <= 20 + 6 * q) /\ ~(Reached <= 21 + 6 * q)
    BY <1>2, <1>11, <2>2, <2>3, QueueSteps
  <2>5. window["QUEUE_NUM"] = QueueSize /\ window["QUEUE_ADDR"] = Ring(session, q)
    BY <1>2, <2>4, Zenon DEF WindowAt, QueueAt
  <2>. QED
    BY <2>5, Zenon DEF v
<1>12. ASSUME mmio.status # {}, NEW q \in Queues, QueueFollows(q, Reached, Pos)
       PROVE  QueueFollows(q, Reached, Pos)'
  <2>1. ASSUME mmio.queues[q]["QUEUE_READY"] = 1
        PROVE  /\ Reached >= 23 + 6 * q
               /\ mmio'.queues[q]["QUEUE_NUM"] = QueueSize
               /\ mmio'.queues[q]["QUEUE_ADDR"] = Ring(session, q)
    <3>1. /\ Reached >= 23 + 6 * q
          /\ mmio.queues[q]["QUEUE_NUM"] = QueueSize
          /\ mmio.queues[q]["QUEUE_ADDR"] = Ring(session, q)
      BY <1>12, <2>1, Zenon DEF QueueFollows
    <3>2. "QUEUE_NUM" \in QueueRegs /\ "QUEUE_ADDR" \in QueueRegs /\ "QUEUE_NUM" # "QUEUE_ADDR"
      BY Zenon DEF QueueRegs
    <3>. QED
      BY <1>6, <1>11, <1>12, <3>1, <3>2, Zenon
  <2>2. ~(Pos' > 7) /\ ~(Pos > 7)
    BY <1>2, <1>3
  <2>3. ASSUME NEW c \in QueueRegs, Reached \in 18 + 6 * q .. Top(q),
               Reached > 18 + 6 * q \/ Pos' > Place(c)
        PROVE  shadow'[c] = 0 \/ shadow'[c] = mmio'.queues[q][c]
    <3>1. CASE c = r
      BY <1>2, <1>6, <1>10, <1>12, <2>3, <3>1, Zenon DEF v
    <3>2. CASE c # r
      <4>1. c \in Shadowed /\ Place(c) # Place(r) /\ Place(c) \in 5 .. 7
        BY <3>2, Places DEF QueueRegs
      <4>2. Pos' > Place(c) => Pos > Place(c)
        BY <1>2, <1>3, <4>1
      <4>3. shadow[c] = 0 \/ shadow[c] = mmio.queues[q][c]
        BY <1>12, <2>3, <4>2, Zenon DEF QueueFollows
      <4>. QED
        BY <1>2, <1>6, <3>2, <4>1, <4>3, Zenon
    <3>. QED
      BY <3>1, <3>2, Zenon
  <2>4. mmio'.queues[q]["QUEUE_READY"] = mmio.queues[q]["QUEUE_READY"]
    BY <1>8, Zenon
  <2>. QED
    BY <1>3, <1>12, <2>1, <2>2, <2>3, <2>4, Zenon DEF QueueFollows, Place, Ring
<1>13. QueuesAt(Reached, Pos)'
  BY <1>2, <1>3, <1>6, <1>12, Zenon DEF QueuesAt
<1>14. BanksFollow => BanksFollow'
  <2>1. Pos' > 2 <=> Pos > 2
    BY <1>2, <1>3
  <2>. QED
    BY <1>3, <1>6, <2>1, BanksSame, Zenon
<1>. QED
  BY <1>6, <1>9, <1>13, <1>14, Zenon DEF Fits

-----------------------------------------------------------------------------
(* The dispatch of QUEUE_READY and STATUS.                                 *)

\* QUEUE_READY is dispatched, when the queue has its size and its addresses.
LEMMA PolledReady ==
  ASSUME SetupInv, Polled("QUEUE_READY")
  PROVE  Fits /\ (BanksFollow => BanksFollow')
<1>. DEFINE r == "QUEUE_READY"
            v == window[r]
            p == mmio.queue_sel
<1>1. r \in Shadowed /\ r \in QueueRegs /\ r \in Plain
  BY Zenon DEF Shadowed, QueueRegs, Plain
<1>2. /\ shadow'[r] = window[r] /\ \A c \in Shadowed : c # r => shadow'[c] = shadow[c]
      /\ mmio \in Device /\ WindowAt(window, Reached, session, leftover) /\ FollowsAt(Reached, Pos, leftover)
      /\ QueuesAt(Reached, Pos) /\ Pos = at
      /\ Reached = step + 1 /\ step \in 1 .. LastStep /\ session \in {0, 1}
      /\ \A c \in Shadowed : at > Place(c) => shadow[c] = window[c]
      /\ Writes(r, step)
      /\ step >= Up => mmio.status = {}
  BY <1>1, PolledFacts, Zenon
<1>3. /\ at = 7 /\ Pos' = 8 /\ Reached' = Reached /\ session' = session
      /\ leftover' = leftover
  BY Places DEF Polled
<1>4. v \in {0, 1} /\ v \in Nat
  BY <1>2 DEF WindowAt, QueueAt
<1>5. mmio' = WriteQueue(mmio, r, v)
  <2>1. mmio' = virtio_mmio_write(mmio, r, v)
    BY Zenon DEF Polled
  <2>2. \A c \in QueueRegs : virtio_mmio_write(mmio, c, v) = WriteQueue(mmio, c, v)
    BY WriteCases, Zenon
  <2>. QED
    BY <1>1, <2>1, <2>2, Zenon
<1>. HIDE DEF v
<1>6. /\ mmio' \in Device /\ p \in Queues
      /\ mmio'.queue_sel = mmio.queue_sel /\ mmio'.device_features_sel = mmio.device_features_sel
      /\ mmio'.driver_features_sel = mmio.driver_features_sel
      /\ mmio'.driver_features = mmio.driver_features /\ mmio'.status = mmio.status
      /\ mmio'.queues[p][r] = v
      /\ \A q \in Queues, c \in QueueRegs : q # p \/ c # r =>
           mmio'.queues[q][c] = mmio.queues[q][c]
  BY <1>1, <1>2, <1>4, <1>5, WriteQueueFacts, Zenon
<1>7. /\ shadow'["STATUS"] = shadow["STATUS"] /\ shadow'["QUEUE_SEL"] = shadow["QUEUE_SEL"]
      /\ shadow'["DEVICE_FEATURES_SEL"] = shadow["DEVICE_FEATURES_SEL"]
      /\ shadow'["DRIVER_FEATURES_SEL"] = shadow["DRIVER_FEATURES_SEL"]
  BY <1>1, <1>2, Zenon DEF Shadowed, QueueRegs
<1>. HIDE DEF p
<1>8. \/ Reached > Up
      \/ \E q \in Queues : Reached = 18 + 6 * q \/ Reached = 23 + 6 * q
  <2>1. SelStep(step) \/ ReadyStep(step)
    BY <1>2, Zenon DEF Writes
  <2>2. ASSUME NEW q \in Queues PROVE /\ step = 17 + 6 * q => Reached = 18 + 6 * q
                                      /\ step = 22 + 6 * q => Reached = 23 + 6 * q
                                      /\ step = Up + 3 * q => Reached > Up
                                      /\ step = Up + 1 + 3 * q => Reached > Up
    BY <1>2, QueueSteps
  <2>. QED
    BY <2>1, <2>2, Zenon DEF SelStep, ReadyStep
<1>9. FollowsAt(Reached, Pos, leftover)'
  <2>1. Pos' > 4 <=> Pos > 4
    BY <1>2, <1>3
  <2>2. mmio.status = {} => v = 0
    <3>. HAVE mmio.status = {}
    <3>1. ASSUME NEW q \in Queues PROVE Reached # 18 + 6 * q /\ Reached # 23 + 6 * q
      <4>1. Reached = 18 + 6 * q \/ Reached = 23 + 6 * q => Reached \in 5 .. Up - 1
        BY QueueSteps
      <4>2. Reached \notin 5 .. Up - 1
        BY <1>2, Zenon DEF FollowsAt
      <4>. QED
        BY <4>1, <4>2, Zenon
    <3>2. Reached > Up
      BY <1>8, <3>1, Zenon
    <3>. QED
      BY <1>2, <3>2, Zenon DEF WindowAt, QueueAt, v
  <2>3. mmio.status = {} => \A q \in Queues : mmio'.queues[q][r] = 0
    BY <1>1, <1>2, <1>6, <2>2, Zenon DEF FollowsAt
  <2>. QED
    BY <1>2, <1>3, <1>6, <1>7, <2>1, <2>3, Zenon DEF FollowsAt
<1>10. ASSUME mmio.status # {}, NEW q \in Queues, Reached \in 18 + 6 * q .. Top(q)
       PROVE  p = q
  <2>1. at > 4
    BY <1>3
  <2>. QED
    BY <1>10, <2>1, CurrentQueue, Zenon DEF p
<1>11. ASSUME mmio.status # {}, NEW q \in Queues, QueueFollows(q, Reached, Pos)
       PROVE  QueueFollows(q, Reached, Pos)'
  <2>1. PICK o \in Queues : Reached = 18 + 6 * o \/ Reached = 23 + 6 * o
    <3>1. ~(Reached > Up)
      <4>1. ~(step >= Up)
        BY <1>2, <1>11, Zenon
      <4>. QED
        BY <1>2, <4>1, QueueSteps
    <3>. QED
      BY <1>8, <3>1, Zenon
  <2>2. Reached \in 18 + 6 * o .. Top(o)
    BY <2>1, QueueSteps
  <2>3. p = o
    BY <1>10, <1>11, <2>2, Zenon
  <2>4. /\ Reached = 18 + 6 * o => v = 0
        /\ Reached = 23 + 6 * o =>
             v = 1 /\ window["QUEUE_NUM"] = QueueSize /\ window["QUEUE_ADDR"] = Ring(session, o)
    <3>1. /\ Reached = 18 + 6 * o => Reached <= 22 + 6 * o
          /\ Reached = 23 + 6 * o => /\ ~(Reached <= 22 + 6 * o) /\ ~(Reached <= 20 + 6 * o)
                                     /\ ~(Reached <= 21 + 6 * o)
      BY QueueSteps
    <3>. QED
      BY <1>2, <2>2, <3>1, Zenon DEF WindowAt, QueueAt, v
  <2>5. ASSUME NEW c \in QueueRegs, Reached \in 18 + 6 * q .. Top(q),
               Reached > 18 + 6 * q \/ Pos' > Place(c)
        PROVE  shadow'[c] = 0 \/ shadow'[c] = mmio'.queues[q][c]
    <3>1. CASE c = r
      BY <1>2, <1>6, <1>10, <1>11, <2>5, <3>1, Zenon DEF v
    <3>2. CASE c # r
      <4>1. c \in Shadowed /\ Place(c) \in 5 .. 6
        BY <3>2, Places DEF QueueRegs
      <4>2. Pos > Place(c)
        BY <1>2, <1>3, <4>1
      <4>3. shadow[c] = 0 \/ shadow[c] = mmio.queues[q][c]
        BY <1>11, <2>5, <4>2, Zenon DEF QueueFollows
      <4>. QED
        BY <1>2, <1>6, <3>2, <4>1, <4>3, Zenon
    <3>. QED
      BY <3>1, <3>2, Zenon
  <2>6. "QUEUE_NUM" \in QueueRegs /\ "QUEUE_ADDR" \in QueueRegs /\ "QUEUE_NUM" # r /\ "QUEUE_ADDR" # r
    BY Zenon DEF QueueRegs
  <2>7. CASE q # p
    <3>1. \A c \in QueueRegs : mmio'.queues[q][c] = mmio.queues[q][c]
      BY <1>6, <2>7, Zenon
    <3>2. Reached # 23 + 6 * q
      BY <2>1, <2>3, <2>7, QueueSteps
    <3>3. /\ mmio'.queues[q][r] = mmio.queues[q][r]
          /\ mmio'.queues[q]["QUEUE_NUM"] = mmio.queues[q]["QUEUE_NUM"]
          /\ mmio'.queues[q]["QUEUE_ADDR"] = mmio.queues[q]["QUEUE_ADDR"]
      BY <1>1, <2>6, <3>1, Zenon
    <3>. QED
      BY <1>3, <1>11, <2>5, <3>2, <3>3, Zenon DEF QueueFollows, Place, Ring
  <2>8. CASE q = p /\ Reached = 18 + 6 * q
    <3>1. mmio'.queues[q][r] = 0
      BY <1>6, <2>3, <2>4, <2>8, Zenon
    <3>2. 0 # 1 /\ ~(Reached > 23 + 6 * q) /\ Reached # 23 + 6 * q
      BY <2>8, QueueSteps
    <3>. QED
      BY <1>3, <2>5, <3>1, <3>2, Zenon DEF QueueFollows, Place, Ring
  <2>9. CASE q = p /\ Reached = 23 + 6 * q
    <3>1. /\ mmio'.queues[q][r] = 1
          /\ window["QUEUE_NUM"] = QueueSize /\ window["QUEUE_ADDR"] = Ring(session, q)
      BY <1>6, <2>3, <2>4, <2>9, Zenon
    <3>2. /\ "QUEUE_NUM" \in Shadowed /\ "QUEUE_ADDR" \in Shadowed
          /\ at > Place("QUEUE_NUM") /\ at > Place("QUEUE_ADDR")
      BY <1>3, Places DEF Shadowed
    <3>3. shadow["QUEUE_NUM"] = QueueSize /\ shadow["QUEUE_ADDR"] = Ring(session, q)
      BY <1>2, <3>1, <3>2, Zenon
    <3>4. QueueSize # 0 /\ Ring(session, q) # 0
      <4>1. Ring(session, q) \in Nat \ {0}
        BY <1>2, QueueSteps DEF Ring
      <4>. QED
        BY <4>1, DeviceAssumption, Zenon DEF DeviceAssumption
    <3>5. Reached \in 18 + 6 * q .. Top(q) /\ Reached > 18 + 6 * q /\ Reached >= 23 + 6 * q
      BY <2>2, <2>3, <2>9, QueueSteps
    <3>6. /\ mmio.queues[q]["QUEUE_NUM"] = QueueSize
          /\ mmio.queues[q]["QUEUE_ADDR"] = Ring(session, q)
      BY <1>11, <2>6, <3>3, <3>4, <3>5, Zenon DEF QueueFollows
    <3>7. /\ mmio'.queues[q]["QUEUE_NUM"] = QueueSize
          /\ mmio'.queues[q]["QUEUE_ADDR"] = Ring(session, q)
      BY <1>6, <2>6, <3>6, Zenon
    <3>. QED
      BY <1>3, <2>5, <3>1, <3>5, <3>7, Zenon DEF QueueFollows, Place, Ring
  <2>. QED
    BY <2>1, <2>3, <2>7, <2>8, <2>9, Zenon
<1>12. QueuesAt(Reached, Pos)'
  BY <1>2, <1>3, <1>6, <1>11, Zenon DEF QueuesAt
<1>13. BanksFollow => BanksFollow'
  <2>1. Pos' > 2 <=> Pos > 2
    BY <1>2, <1>3
  <2>. QED
    BY <1>3, <1>6, <2>1, BanksSame, Zenon
<1>. QED
  BY <1>6, <1>9, <1>12, <1>13, Zenon DEF Fits

\* STATUS is dispatched.
LEMMA PolledStatus ==
  ASSUME SetupInv, Polled("STATUS")
  PROVE  Fits /\ (BanksFollow => BanksFollow')
<1>. DEFINE r == "STATUS"
            v == window[r]
<1>1. r \in Shadowed /\ r \in Plain
  BY Zenon DEF Shadowed, Plain
<1>2. /\ shadow'[r] = window[r] /\ \A c \in Shadowed : c # r => shadow'[c] = shadow[c]
      /\ mmio \in Device /\ WindowAt(window, Reached, session, leftover) /\ FollowsAt(Reached, Pos, leftover)
      /\ QueuesAt(Reached, Pos) /\ Pos = at
      /\ Reached = step + 1 /\ step \in 1 .. LastStep
      /\ \A c \in Shadowed : at > Place(c) => shadow[c] = window[c]
      /\ Writes(r, step)
  BY <1>1, PolledFacts, Zenon
<1>3. /\ at = 8 /\ Pos' = 9 /\ Reached' = Reached /\ session' = session
      /\ leftover' = leftover
  BY Places DEF Polled
<1>4. Reached \in {2, 4, 6, 16, Up - 1, Up}
  <2>1. step \in {1, 3, 5, 15, Up - 2, Up - 1}
    BY <1>2, Zenon DEF Writes
  <2>. QED
    BY <1>2, <2>1, QueueSteps
<1>5. v \in SUBSET Bits
  BY <1>2, Zenon DEF WindowAt, StatusAt
<1>6. v = {} => Reached = 2 \/ Reached = Up
  <2>1. /\ Reached = 4 => Reached \in 4 .. 5
        /\ Reached \in {6} => Reached \in 6 .. 15
        /\ Reached = 16 => Reached \in 16 .. Up - 2
    BY QueueSteps
  <2>2. {"ACKNOWLEDGE"} # {} /\ {"ACKNOWLEDGE", "DRIVER"} # {} /\ Three # {} /\ Bits # {}
    BY Zenon DEF Three, Bits
  <2>. QED
    BY <1>2, <1>4, <2>1, <2>2, Zenon DEF WindowAt, StatusAt
<1>7. mmio' = IF v = {} THEN virtio_mmio_reset ELSE [mmio EXCEPT !.status = v]
  BY WriteCases, Zenon DEF Polled
<1>8. /\ shadow'["QUEUE_SEL"] = shadow["QUEUE_SEL"]
      /\ shadow'["DEVICE_FEATURES_SEL"] = shadow["DEVICE_FEATURES_SEL"]
      /\ shadow'["DRIVER_FEATURES_SEL"] = shadow["DRIVER_FEATURES_SEL"]
      /\ \A c \in QueueRegs : shadow'[c] = shadow[c]
  BY <1>2, Zenon DEF Shadowed, QueueRegs
<1>. HIDE DEF v
<1>9. CASE v = {}
  <2>1. mmio' = virtio_mmio_reset
    BY <1>7, <1>9, Zenon
  <2>2. 0 \in Queues /\ 0 \in Banks /\ QueueSize \in Nat
    BY QueueSteps, DeviceAssumption DEF Queues, Banks, DeviceAssumption
  <2>3. [q \in Queues |-> ResetQueue] \in [Queues -> [QueueRegs -> Nat]]
    BY <2>2, Zenon DEF ResetQueue
  <2>4. [b \in Banks |-> 0] \in [Banks -> Words] /\ {} \in SUBSET Bits
    BY Zenon DEF Words
  <2>5. mmio' \in Device
    BY <2>1, <2>2, <2>3, <2>4, Zenon DEF Device, virtio_mmio_reset
  <2>6. /\ mmio'.status = {} /\ mmio'.device_features_sel = 0 /\ mmio'.driver_features_sel = 0
        /\ mmio'.queue_sel = 0 /\ mmio'.queues = [q \in Queues |-> ResetQueue]
        /\ mmio'.driver_features = [b \in Banks |-> 0]
    BY <2>1, Zenon DEF virtio_mmio_reset
  <2>7. /\ \A q \in Queues : mmio'.queues[q]["QUEUE_READY"] = 0
        /\ \A b \in Banks : mmio'.driver_features[b] = 0
    BY <2>6 DEF ResetQueue, QueueRegs
  <2>8. Reached \notin {7, 8} /\ Reached \notin {11, 12} /\ Reached \notin 5 .. Up - 1
    BY <1>6, <1>9, QueueSteps
  <2>9. ~leftover => shadow["DEVICE_FEATURES_SEL"] = 0 /\ shadow["DRIVER_FEATURES_SEL"] = 0
    <3>1. ~leftover => window["DEVICE_FEATURES_SEL"] = 0 /\ window["DRIVER_FEATURES_SEL"] = 0
      BY <1>2, <2>8, Zenon DEF WindowAt, SelectorsAt
    <3>2. /\ "DEVICE_FEATURES_SEL" \in Shadowed /\ "DRIVER_FEATURES_SEL" \in Shadowed
          /\ at > Place("DEVICE_FEATURES_SEL") /\ at > Place("DRIVER_FEATURES_SEL")
      BY <1>3, Places DEF Shadowed
    <3>. QED
      BY <1>2, <3>1, <3>2, Zenon
  <2>10. FollowsAt(Reached, Pos, leftover)'
    <3>1. 0 \in {0, shadow'["QUEUE_SEL"]}
      BY Zenon
    <3>2. shadow'["STATUS"] = {}
      BY <1>2, <1>9, Zenon DEF v
    <3>. QED
      BY <1>3, <1>8, <2>6, <2>7, <2>8, <2>9, <3>1, <3>2, Zenon DEF FollowsAt
  <2>11. QueuesAt(Reached, Pos)'
    BY <2>6, Zenon DEF QueuesAt
  <2>12. BanksFollow'
    BY <2>6, Zenon DEF BanksFollow, BanksAt
  <2>. QED
    BY <2>5, <2>10, <2>11, <2>12, Zenon DEF Fits
<1>10. CASE v # {}
  <2>1. mmio' = [mmio EXCEPT !.status = v]
    BY <1>7, <1>10, Zenon
  <2>2. /\ mmio'.queue_sel = mmio.queue_sel /\ mmio'.device_features_sel = mmio.device_features_sel
        /\ mmio'.driver_features_sel = mmio.driver_features_sel
        /\ mmio'.driver_features = mmio.driver_features /\ mmio'.queues = mmio.queues
        /\ mmio'.status = v /\ mmio' \in Device
    BY <1>2, <1>5, <2>1, Zenon DEF Device
  <2>3. Reached # 2 /\ Reached # Up
    <3>1. Reached = 2 => Reached \in 2 .. 3
      OBVIOUS
    <3>2. Reached = Up => Reached >= Up
      BY QueueSteps
    <3>. QED
      BY <1>2, <1>10, <3>1, <3>2, Zenon DEF WindowAt, StatusAt, v
  <2>4. Reached \in 5 .. Up - 1 \/ Reached = 4
    BY <1>4, <2>3, QueueSteps
  <2>5. Reached \in 5 .. Up - 1 => mmio.status # {}
    BY <1>2, Zenon DEF FollowsAt
  <2>6. FollowsAt(Reached, Pos, leftover)'
    <3>1. Pos' > 4 <=> Pos > 4
      BY <1>2, <1>3
    <3>2. Reached \in 19 .. Up \/ (Reached = 18 /\ Pos > 4) => Reached # 4
      BY QueueSteps
    <3>3. shadow'["STATUS"] = v
      BY <1>2, Zenon DEF v
    <3>. QED
      BY <1>2, <1>3, <1>8, <1>10, <2>2, <2>4, <2>5, <3>1, <3>2, <3>3, Zenon DEF FollowsAt
  <2>7. CASE mmio.status # {}
    <3>1. Pos > 7 /\ Pos' > 7 /\ (Pos > 2 <=> Pos' > 2)
      BY <1>2, <1>3
    <3>2. \A c \in QueueRegs : Pos > Place(c) <=> Pos' > Place(c)
      BY <1>2, <1>3, Places
    <3>3. \A q \in Queues : QueueFollows(q, Reached, Pos) => QueueFollows(q, Reached, Pos)'
      BY <1>3, <1>8, <2>2, <3>1, <3>2, QueueSame, Zenon
    <3>4. QueuesAt(Reached, Pos)'
      BY <1>2, <1>3, <2>2, <2>7, <3>3, Zenon DEF QueuesAt
    <3>5. BanksFollow => BanksFollow'
      BY <1>3, <2>2, <2>7, <3>1, Zenon DEF BanksFollow, BanksAt
    <3>. QED
      BY <2>2, <2>6, <3>4, <3>5, Zenon DEF Fits
  <2>8. CASE mmio.status = {}
    <3>1. Reached = 4
      BY <2>4, <2>5, <2>8, Zenon
    <3>2. /\ \A q \in Queues : mmio'.queues[q]["QUEUE_READY"] = 0
          /\ \A b \in Banks : mmio'.driver_features[b] = 0
      BY <1>2, <2>2, <2>8, Zenon DEF FollowsAt
    <3>3. \A q \in Queues : ~(Reached > 23 + 6 * q) /\ Reached # 23 + 6 * q /\ Reached \notin 18 + 6 * q .. Top(q)
      BY <3>1, QueueSteps
    <3>4. 0 # 1
      OBVIOUS
    <3>5. \A q \in Queues : QueueFollows(q, Reached, Pos)'
      BY <1>3, <3>2, <3>3, <3>4, Zenon DEF QueueFollows
    <3>6. QueuesAt(Reached, Pos)'
      BY <3>5, Zenon DEF QueuesAt
    <3>7. BanksFollow'
      BY <1>3, <3>1, <3>2 DEF BanksFollow, BanksAt, Banks
    <3>. QED
      BY <2>2, <2>6, <3>6, <3>7, Zenon DEF Fits
  <2>. QED
    BY <2>7, <2>8, Zenon
<1>. QED
  BY <1>9, <1>10, Zenon

-----------------------------------------------------------------------------
(* The scan.                                                               *)

\* The two feature banks of the device differ, as those of virtio-consoled (bit 0; bits
\* 32 and 33) and virtio-blkd (bits 1, 2, 6 and 9; bits 32 and 33) do.  Of equal banks the
\* second would not be dispatched: DRIVER_FEATURES would equal its shadow.
DistinctBanks == Features[0] # Features[1]

\* A register that equals its shadow is not dispatched, and need not be.
LEMMA Unchanged ==
  ASSUME SetupInv, at > 0, NEW r \in Shadowed, at = Place(r), shadow[r] = window[r]
  PROVE  /\ FollowsAt(Reached, at + 1, leftover) /\ QueuesAt(Reached, at + 1)
         /\ DistinctBanks /\ BanksFollow => BanksAt(Reached, at + 1, leftover)
<1>1. /\ Pos = at /\ Reached = step + 1 /\ step \in 1 .. LastStep /\ at \in 1 .. 12
  BY Scanning, Zenon
<1>2. WindowAt(window, Reached, session, leftover) /\ FollowsAt(Reached, at, leftover) /\ QueuesAt(Reached, at)
  BY <1>1, Zenon DEF SetupInv
<1>3. \A c \in Shadowed : Place(c) = at => c = r
  BY Places DEF Shadowed
<1>4. FollowsAt(Reached, at + 1, leftover)
  <2>1. ASSUME Reached = 18, at + 1 > 4, ~(at > 4)
        PROVE  mmio.queue_sel = shadow["QUEUE_SEL"]
    <3>1. at = 4
      BY <1>1, <2>1
    <3>2. r = "QUEUE_SEL"
      BY <1>3, <3>1, Places, Zenon DEF Shadowed
    <3>3. 0 \in Queues /\ Reached \in 18 + 6 * 0 .. Top(0)
      BY <2>1, QueueSteps DEF Queues
    <3>4. window["QUEUE_SEL"] = 0
      BY <1>2, <3>3, Zenon DEF WindowAt, QueueAt
    <3>5. mmio.queue_sel \in {0, shadow["QUEUE_SEL"]}
      BY <1>2, Zenon DEF FollowsAt
    <3>. QED
      BY <3>2, <3>4, <3>5, Zenon
  <2>. QED
    BY <1>2, <2>1, Zenon DEF FollowsAt
<1>5. ASSUME NEW q \in Queues, QueueFollows(q, Reached, at)
      PROVE  QueueFollows(q, Reached, at + 1)
  <2>1. ASSUME NEW c \in QueueRegs, Reached \in 18 + 6 * q .. Top(q), ~(Reached > 18 + 6 * q),
               at + 1 > Place(c), ~(at > Place(c))
        PROVE  shadow[c] = 0
    <3>1. c = r
      <4>1. Place(c) = at /\ c \in Shadowed
        BY <1>1, <2>1, Places
      <4>. QED
        BY <1>3, <4>1, Zenon
    <3>2. Reached <= 20 + 6 * q /\ Reached <= 21 + 6 * q /\ Reached <= 22 + 6 * q
      BY <1>1, <2>1, QueueSteps
    <3>3. window["QUEUE_NUM"] = 0 /\ window["QUEUE_ADDR"] = 0 /\ window["QUEUE_READY"] = 0
      BY <1>2, <2>1, <3>2, Zenon DEF WindowAt, QueueAt
    <3>. QED
      BY <3>1, <3>3, Zenon DEF QueueRegs
  <2>2. ASSUME Reached = 23 + 6 * q, at + 1 > 7, ~(at > 7)
        PROVE  mmio.queues[q]["QUEUE_READY"] = 1
    <3>1. at = 7
      BY <1>1, <2>2
    <3>2. r = "QUEUE_READY"
      BY <1>3, <3>1, Places, Zenon DEF Shadowed
    <3>3. Reached \in 18 + 6 * q .. Top(q) /\ Reached > 18 + 6 * q /\ ~(Reached <= 22 + 6 * q)
      BY <2>2, QueueSteps
    <3>4. window["QUEUE_READY"] = 1
      BY <1>2, <3>3, Zenon DEF WindowAt, QueueAt
    <3>5. "QUEUE_READY" \in QueueRegs /\ 0 # 1
      BY DEF QueueRegs
    <3>. QED
      BY <1>5, <3>2, <3>3, <3>4, <3>5, Zenon DEF QueueFollows
  <2>. QED
    BY <1>5, <2>1, <2>2, Zenon DEF QueueFollows
<1>6. QueuesAt(Reached, at + 1)
  BY <1>2, <1>5, Zenon DEF QueuesAt
<1>7. ASSUME DistinctBanks, BanksFollow, ~leftover
      PROVE  BanksAt(Reached, at + 1, leftover)
  <2>1. BanksAt(Reached, at, leftover)
    BY <1>1, <1>7, Zenon DEF BanksFollow
  <2>2. CASE at # 2
    <3>1. at + 1 > 2 <=> at > 2
      BY <1>1, <2>2
    <3>. QED
      BY <2>1, <3>1, Zenon DEF BanksAt
  <2>3. CASE at = 2
    <3>1. r = "DRIVER_FEATURES" /\ Pos <= 2
      BY <1>1, <1>3, <2>3, Places DEF Shadowed
    <3>2. CASE Reached = 12
      <4>1. window["DRIVER_FEATURES"] = Features[1]
        BY <1>2, <1>7, <3>2 DEF WindowAt, SelectorsAt
      <4>2. shadow["DRIVER_FEATURES"] \in {0, Features[0]}
        BY <1>7, <3>1, <3>2, Zenon DEF SetupInv, Synced
      <4>3. Features[1] = 0
        BY <1>7, <3>1, <4>1, <4>2, Zenon DEF DistinctBanks
      <4>. QED
        BY <2>1, <2>3, <3>2, <4>3 DEF BanksAt
    <3>3. CASE Reached = 14
      <4>1. window["DRIVER_FEATURES"] = Features[0]
        BY <1>2, <1>7, <3>3 DEF WindowAt, SelectorsAt
      <4>2. shadow["DRIVER_FEATURES"] = Features[1]
        BY <1>7, <3>1, <3>3, Zenon DEF SetupInv, Synced
      <4>. QED
        BY <1>7, <3>1, <4>1, <4>2, Zenon DEF DistinctBanks
    <3>4. CASE Reached # 12 /\ Reached # 14
      BY <2>1, <3>4, Zenon DEF BanksAt
    <3>. QED
      BY <3>2, <3>3, <3>4, Zenon
  <2>. QED
    BY <2>2, <2>3, Zenon
<1>8. leftover => BanksAt(Reached, at + 1, leftover)
  BY Zenon DEF BanksAt
<1>. QED
  BY <1>4, <1>6, <1>7, <1>8, Zenon

\* poll_write_registers keeps the invariant, one register at a time.
LEMMA PollKeeps ==
  ASSUME SetupInv, poll_write_register
  PROVE  SetupInv' /\ (DistinctBanks /\ BanksFollow => BanksFollow')
<1>. DEFINE r == WriteOffsets[at]
<1>1. /\ at \in 1 .. 8 /\ at > 0 /\ at' = at + 1 /\ reload = 0
      /\ UNCHANGED <<barrier, guestVars, window, linkVars>>
  BY Scan DEF poll_write_register
<1>2. r \in Shadowed /\ Place(r) = at
  BY <1>1, Scan, Zenon
<1>3. /\ driver = "wait" /\ toBack = 0 /\ events = 0 /\ Pos = at /\ Reached = step + 1
  BY <1>1, Scanning, Zenon
<1>4. Pos' = at + 1 /\ Reached' = Reached /\ session' = session /\ leftover' = leftover
  BY <1>1, <1>3 DEF Pos, Reached, guestVars, linkVars
<1>5. ~lower
  BY <1>1 DEF SetupInv, OneWakeup
<1>6. lower \in BOOLEAN
  BY Zenon DEF SetupInv, Types
<1>7. IF window[r] = shadow[r]
        THEN UNCHANGED <<shadow, mmio, lower, reload>>
        ELSE /\ shadow' = [shadow EXCEPT ![r] = window[r]]
             /\ mmio' = virtio_mmio_write(mmio, r, window[r])
             /\ lower' = (lower \/ LowersIrq(r, window[r]))
             /\ reload' = IF r = "QUEUE_SEL" THEN Len(QueueOffsets) ELSE 0
  BY Zenon DEF poll_write_register
<1>. HIDE DEF r
<1>8. CASE window[r] = shadow[r]
  <2>1. shadow' = shadow /\ mmio' = mmio /\ lower' = lower /\ reload' = reload
    BY <1>7, <1>8, Zenon
  <2>2. /\ FollowsAt(Reached, at + 1, leftover) /\ QueuesAt(Reached, at + 1)
        /\ DistinctBanks /\ BanksFollow => BanksAt(Reached, at + 1, leftover)
    BY <1>1, <1>2, <1>8, Unchanged, Zenon
  <2>3. /\ FollowsAt(Reached, Pos, leftover)' /\ QueuesAt(Reached, Pos)'
        /\ DistinctBanks /\ BanksFollow => BanksFollow'
    <3>1. /\ FollowsAt(Reached', Pos', leftover') /\ QueuesAt(Reached', Pos')
          /\ DistinctBanks /\ BanksFollow => BanksAt(Reached', Pos', leftover')
      BY <1>4, <2>2, Zenon
    <3>. QED
      BY <1>4, <2>1, <3>1, Carried, Zenon DEF BanksFollow
  <2>4. shadow' = [shadow EXCEPT ![r] = window[r]]
    <3>1. shadow = [c \in Shadowed |-> shadow[c]]
      BY Zenon DEF SetupInv, Types
    <3>2. DOMAIN shadow = Shadowed
      BY <3>1, Zenon
    <3>3. [shadow EXCEPT ![r] = window[r]] = [c \in Shadowed |-> shadow[c]]
      BY <1>2, <1>8, <3>2, Zenon
    <3>. QED
      BY <2>1, <3>1, <3>3, Zenon
  <2>5. /\ lower' \in BOOLEAN /\ (lower' => at' > 8) /\ mmio' \in Device
    BY <1>5, <1>6, <2>1, Zenon DEF SetupInv, Types
  <2>6. reload' \in 0 .. 3 /\ (reload' > 0 => at' = 5 /\ SelStep(step))
    BY <1>1, <2>1
  <2>7. SetupInv'
    BY <1>1, <1>2, <2>3, <2>4, <2>5, <2>6, TakenOver, Zenon
  <2>. QED
    BY <2>3, <2>7, Zenon
<1>9. CASE window[r] # shadow[r]
  <2>1. /\ shadow' = [shadow EXCEPT ![r] = window[r]]
        /\ mmio' = virtio_mmio_write(mmio, r, window[r])
        /\ lower' = (lower \/ LowersIrq(r, window[r]))
        /\ reload' = IF r = "QUEUE_SEL" THEN Len(QueueOffsets) ELSE 0
    BY <1>7, <1>9, Zenon
  <2>2. Polled(r)
    BY <1>1, <1>2, <1>4, <1>9, <2>1, Zenon DEF Polled
  <2>3. Fits /\ (BanksFollow => BanksFollow')
    BY <1>2, <2>2, PolledDeviceSel, PolledDriverSel, PolledQueueSel, PolledFeatures, PolledConfig,
       PolledReady, PolledStatus, Zenon DEF Shadowed
  <2>4. lower' \in BOOLEAN
    BY <2>1, Zenon
  <2>5. lower' => at' > 8
    <3>1. lower' => r = "STATUS"
      BY <1>5, <2>1, Zenon DEF LowersIrq
    <3>2. r = "STATUS" => at' > 8
      BY <1>1, <1>2, Places
    <3>. QED
      BY <3>1, <3>2, Zenon
  <2>6. reload' \in 0 .. 3 /\ (reload' > 0 => at' = 5 /\ SelStep(step))
    <3>1. r # "QUEUE_SEL" => reload' = 0
      BY <2>1, Zenon
    <3>2. r = "QUEUE_SEL" => reload' = 3 /\ at' = 5
      BY <1>1, <1>2, <2>1, Scan, Places
    <3>3. r = "QUEUE_SEL" => SelStep(step)
      <4>1. r = "QUEUE_SEL" => r \in Plain
        BY Zenon DEF Plain, Shadowed
      <4>2. r = "QUEUE_SEL" => Writes(r, step)
        BY <1>2, <2>2, <4>1, PolledFacts, Zenon
      <4>. QED
        BY <4>2, Zenon DEF Writes
    <3>. QED
      BY <3>1, <3>2, <3>3
  <2>7. mmio' \in Device /\ FollowsAt(Reached, Pos, leftover)' /\ QueuesAt(Reached, Pos)'
    BY <2>3, Zenon DEF Fits
  <2>8. SetupInv'
    BY <1>1, <1>2, <2>1, <2>4, <2>5, <2>6, <2>7, TakenOver, Zenon
  <2>. QED
    BY <2>3, <2>8, Zenon
<1>. QED
  BY <1>8, <1>9, Zenon

-----------------------------------------------------------------------------
(* The theorems.                                                           *)

\* The invariant holds when daemon and frontend have started.
LEMMA SetupInvInit ==
  ASSUME Init
  PROVE  SetupInv /\ BanksFollow
<1>1. /\ session = 0 /\ step = 1 /\ got = {} /\ offered = [b \in Banks |-> 0] /\ driver = "run"
      /\ leftover = FALSE /\ mmio = virtio_mmio_reset /\ toBack = 0 /\ events = 0 /\ acks = 0
      /\ at = 0 /\ reload = 0 /\ lower = FALSE /\ barrier \in BOOLEAN
  BY Zenon DEF Init
<1>2. /\ window = [r \in Range(WriteOffsets) \cup Range(ReadOffsets) |->
                     IF r \in Range(ReadOffsets) THEN virtio_mmio_read(mmio, r) ELSE 0]
      /\ shadow = [r \in Range(WriteOffsets) |-> window[r]]
  BY Zenon DEF Init
<1>3. Range(WriteOffsets) = Shadowed
  <2>1. DOMAIN WriteOffsets = 1 .. 8
    BY Scan, Zenon
  <2>2. Range(WriteOffsets) \subseteq Shadowed
    BY <2>1, Scan, Zenon DEF Range
  <2>3. /\ WriteOffsets[1] = "DEVICE_FEATURES_SEL" /\ WriteOffsets[2] = "DRIVER_FEATURES"
        /\ WriteOffsets[3] = "DRIVER_FEATURES_SEL" /\ WriteOffsets[4] = "QUEUE_SEL"
        /\ WriteOffsets[5] = "QUEUE_NUM" /\ WriteOffsets[6] = "QUEUE_ADDR"
        /\ WriteOffsets[7] = "QUEUE_READY" /\ WriteOffsets[8] = "STATUS"
    BY Zenon DEF WriteOffsets
  <2>4. 1 \in 1 .. 8 /\ 2 \in 1 .. 8 /\ 3 \in 1 .. 8 /\ 4 \in 1 .. 8 /\ 5 \in 1 .. 8 /\ 6 \in 1 .. 8
        /\ 7 \in 1 .. 8 /\ 8 \in 1 .. 8
    OBVIOUS
  <2>5. Shadowed \subseteq Range(WriteOffsets)
    BY <2>1, <2>3, <2>4, Zenon DEF Range, Shadowed
  <2>. QED
    BY <2>2, <2>5, Zenon
<1>4. Range(ReadOffsets) = {"DEVICE_FEATURES", "QUEUE_NUM_MAX", "STATUS"}
  <2>1. DOMAIN ReadOffsets = 1 .. 3
    BY DEF ReadOffsets
  <2>2. 1 .. 3 = {1, 2, 3}
    OBVIOUS
  <2>. QED
    BY <2>1, <2>2, Scan, Zenon DEF Range
<1>5. Range(WriteOffsets) \cup Range(ReadOffsets) = Cells
  BY <1>3, <1>4, Zenon DEF Cells, Shadowed
<1>6. /\ window = [c \in Cells |-> window[c]]
      /\ \A c \in Cells : window[c] = IF c \in {"DEVICE_FEATURES", "QUEUE_NUM_MAX", "STATUS"}
                                        THEN virtio_mmio_read(mmio, c) ELSE 0
  <2>. DEFINE f == [c \in Cells |-> IF c \in {"DEVICE_FEATURES", "QUEUE_NUM_MAX", "STATUS"}
                                      THEN virtio_mmio_read(mmio, c) ELSE 0]
  <2>1. window = f
    BY <1>2, <1>4, <1>5, Zenon
  <2>2. f = [c \in Cells |-> f[c]]
    BY Zenon
  <2>3. \A c \in Cells : f[c] = IF c \in {"DEVICE_FEATURES", "QUEUE_NUM_MAX", "STATUS"}
                                  THEN virtio_mmio_read(mmio, c) ELSE 0
    BY Zenon
  <2>. HIDE DEF f
  <2>. QED
    BY <2>1, <2>2, <2>3, Zenon
<1>7. /\ shadow = [c \in Shadowed |-> shadow[c]] /\ \A c \in Shadowed : shadow[c] = window[c]
  <2>1. shadow = [c \in Shadowed |-> window[c]]
    BY <1>2, <1>3, Zenon
  <2>. QED
    BY <2>1, Zenon
<1>8. /\ window["DEVICE_FEATURES_SEL"] = 0 /\ window["DRIVER_FEATURES"] = 0
      /\ window["DRIVER_FEATURES_SEL"] = 0 /\ window["QUEUE_SEL"] = 0 /\ window["QUEUE_NUM"] = 0
      /\ window["QUEUE_ADDR"] = 0 /\ window["QUEUE_READY"] = 0
  BY <1>6, Zenon DEF Cells, Shadowed
<1>9. /\ "DEVICE_FEATURES" \in Cells /\ "QUEUE_NUM_MAX" \in Cells /\ "STATUS" \in Cells
  BY Zenon DEF Cells, Shadowed
<1>10. /\ window["DEVICE_FEATURES"] = virtio_mmio_read(mmio, "DEVICE_FEATURES")
       /\ window["QUEUE_NUM_MAX"] = virtio_mmio_read(mmio, "QUEUE_NUM_MAX")
       /\ window["STATUS"] = virtio_mmio_read(mmio, "STATUS")
  BY <1>6, <1>9, Zenon
<1>11. /\ mmio.status = {} /\ mmio.device_features_sel = 0 /\ mmio.driver_features_sel = 0
       /\ mmio.queue_sel = 0 /\ mmio.queues = [q \in Queues |-> ResetQueue]
       /\ mmio.driver_features = [b \in Banks |-> 0]
  BY <1>1, Zenon DEF virtio_mmio_reset
<1>12. 0 \in Queues /\ 0 \in Banks /\ QueueSize \in Nat
  BY QueueSteps, DeviceAssumption DEF Queues, Banks, DeviceAssumption
<1>13. window["QUEUE_NUM_MAX"] = QueueSize /\ window["STATUS"] = {}
  BY <1>10, <1>11, <1>12, Zenon DEF virtio_mmio_read
<1>14. mmio \in Device
  <2>1. [q \in Queues |-> ResetQueue] \in [Queues -> [QueueRegs -> Nat]]
    BY <1>12, Zenon DEF ResetQueue
  <2>2. [b \in Banks |-> 0] \in [Banks -> Words] /\ {} \in SUBSET Bits
    BY Zenon DEF Words
  <2>. QED
    BY <1>1, <1>12, <2>1, <2>2, Zenon DEF Device, virtio_mmio_reset
<1>15. Types
  <2>1. /\ session \in {0, 1} /\ step \in 1 .. LastStep /\ driver \in {"run", "wait"}
        /\ toBack \in {0, 1} /\ events \in {0, 1} /\ acks \in {0, 1} /\ at \in 0 .. 12 /\ reload \in 0 .. 3
    BY <1>1, QueueSteps
  <2>2. got \in SUBSET Bits /\ offered \in [Banks -> Words]
    BY <1>1, Zenon DEF Words
  <2>3. lower \in BOOLEAN /\ leftover \in BOOLEAN
    BY <1>1, Zenon
  <2>. QED
    BY <1>1, <1>6, <1>7, <1>14, <2>1, <2>2, <2>3, Zenon DEF Types
<1>16. Pos = 13 /\ Reached = 1
  BY <1>1 DEF Pos, Reached
<1>17. OneWakeup
  <2>1. toBack # 1 /\ events # 1 /\ ~(at > 0) /\ ~(reload > 0) /\ ~lower
    BY <1>1
  <2>. QED
    BY <1>1, <2>1, Zenon DEF OneWakeup, Settled
<1>18. GuestKnows
  BY <1>1, QueueSteps DEF GuestKnows
<1>19. WindowAt(window, Reached, session, leftover)
  <2>1. SelectorsAt(window, 1, leftover)
    BY <1>1, <1>8 DEF SelectorsAt
  <2>2. StatusAt(window, 1)
    BY <1>13, QueueSteps DEF StatusAt
  <2>3. QueueAt(window, 1, session)
    <3>1. ~(1 > Up) /\ \A q \in Queues : 1 \notin 18 + 6 * q .. Top(q)
      BY QueueSteps
    <3>2. 0 \in Nat /\ 0 \in {0, 1}
      BY Zenon
    <3>. QED
      BY <1>8, <1>12, <3>1, <3>2, Zenon DEF QueueAt
  <2>. QED
    BY <1>16, <2>1, <2>2, <2>3, Zenon DEF WindowAt
<1>20. Synced
  <2>1. driver # "wait" /\ ~(Pos <= 2)
    BY <1>1, <1>16
  <2>. QED
    BY <1>7, <2>1, Zenon DEF Synced
<1>21. FollowsAt(1, 13, leftover)
  <2>1. /\ shadow["STATUS"] = {} /\ shadow["DEVICE_FEATURES_SEL"] = 0
        /\ shadow["DRIVER_FEATURES_SEL"] = 0
    BY <1>7, <1>8, <1>13, Zenon DEF Shadowed
  <2>2. /\ \A q \in Queues : mmio.queues[q]["QUEUE_READY"] = 0
        /\ \A b \in Banks : mmio.driver_features[b] = 0
    BY <1>11 DEF ResetQueue, QueueRegs
  <2>3. 1 \notin 5 .. Up - 1 /\ 0 \in {0, shadow["QUEUE_SEL"]}
    OBVIOUS
  <2>. QED
    BY <1>11, <2>1, <2>2, <2>3, Zenon DEF FollowsAt
<1>22. QueuesAt(1, 13) /\ BanksAt(1, 13, leftover)
  <2>1. ~(1 > 2)
    OBVIOUS
  <2>. QED
    BY <2>1, Zenon DEF QueuesAt, BanksAt
<1>23. Fresh
  BY <1>10, <1>13, Zenon DEF Fresh
<1>. QED
  BY <1>15, <1>16, <1>17, <1>18, <1>19, <1>20, <1>21, <1>22, <1>23, Zenon DEF SetupInv, BanksFollow

\* Every step keeps it, and with it the feature banks where they differ.
LEMMA SetupInvNext ==
  ASSUME SetupInv, Prompt, [Next]_vars
  PROVE  SetupInv' /\ (DistinctBanks /\ BanksFollow => BanksFollow')
<1>1. CASE Next
  BY <1>1, WriteKeeps, ReadKeeps, AckKeeps, DeadlineKeeps, RebootKeeps, PulseKeeps, InterruptKeeps,
     PollKeeps, ReloadKeeps, RefreshKeeps, FlushKeeps, Zenon DEF Next, Frontend, Daemon
<1>2. CASE UNCHANGED vars
  <2>1. /\ toBack' = toBack /\ events' = events /\ acks' = acks /\ at' = at /\ reload' = reload
        /\ lower' = lower /\ barrier' = barrier /\ window' = window
        /\ session' = session /\ step' = step /\ got' = got /\ offered' = offered
        /\ driver' = driver /\ leftover' = leftover
        /\ shadow' = shadow /\ mmio' = mmio /\ UNCHANGED <<guestVars, shadow, mmio>>
    BY <1>2, Zenon DEF vars, guestVars, linkVars, daemonVars
  <2>2. Pos' = Pos /\ Pos \in 0 .. 13
    BY <2>1, PosRange, Zenon DEF Pos, SetupInv
  <2>3. Types'
    <3>1. window' = [c \in Cells |-> window'[c]]
      BY <2>1, Zenon DEF SetupInv, Types
    <3>2. shadow' = [c \in Shadowed |-> shadow'[c]]
      BY <2>1, Zenon DEF SetupInv, Types
    <3>. QED
      BY <2>1, <3>1, <3>2, Zenon DEF SetupInv, Types
  <2>4. OneWakeup'
    BY <2>1, Zenon DEF SetupInv, OneWakeup, Settled, SelStep
  <2>5. Fresh'
    BY <2>1, <2>2, Zenon DEF SetupInv, Fresh, virtio_mmio_read
  <2>6. Alike(Pos, Pos')
    BY <2>2, Zenon DEF Alike
  <2>. QED
    BY <2>1, <2>2, <2>3, <2>4, <2>5, <2>6, Quiet, Zenon
<1>. QED
  BY <1>1, <1>2, Zenon

\* The inductive invariant: with a wait that outlasts the daemon's scan, the window is a
\* function of the access that the driver has reached, and shadow and device lag behind
\* it by the registers that the scan has not come to.
THEOREM SetupInvAlways ==
  ASSUME Prompt
  PROVE  Spec => []SetupInv
<1>1. Init => SetupInv
  BY SetupInvInit, Zenon
<1>2. SetupInv /\ [Next]_vars => SetupInv'
  BY SetupInvNext, Zenon
<1>. QED
  BY <1>1, <1>2, PTL DEF Spec

\* No probe fails: every value that vm_setup_vq and the feature negotiation expect in the
\* window is there when the driver reads it.
THEOREM NeverFailsAlways ==
  ASSUME Prompt
  PROVE  Spec => []NeverFails
<1>1. SetupInv => NeverFails
  BY Zenon DEF SetupInv, Types, NeverFails
<1>. QED
  BY <1>1, SetupInvAlways, PTL

\* Once the driver has reset the device, a queue that the device takes for ready has the
\* size and the rings that this session's driver gave it, however often the guest reboots.
THEOREM ReadyConfiguredAlways ==
  ASSUME Prompt
  PROVE  Spec => []ReadyConfigured
<1>1. ASSUME SetupInv PROVE ReadyConfigured
  <2>. SUFFICES ASSUME NEW q \in Queues, step > 1, mmio.queues[q]["QUEUE_READY"] = 1
                PROVE  /\ mmio.queues[q]["QUEUE_ADDR"] = Ring(session, q)
                       /\ mmio.queues[q]["QUEUE_NUM"] = QueueSize
    BY Zenon DEF ReadyConfigured
  <2>1. mmio.status # {}
    <3>1. mmio.status = {} => mmio.queues[q]["QUEUE_READY"] = 0
      BY <1>1, Zenon DEF SetupInv, FollowsAt
    <3>. QED
      BY <3>1
  <2>2. Reached > 2
    <3>1. CASE driver = "run"
      <4>1. step # 2
        BY <1>1, <2>1, <3>1, Running, Zenon
      <4>. QED
        BY <1>1, <3>1, <4>1, QueueSteps DEF SetupInv, Types, Reached
    <3>2. CASE driver = "wait"
      BY <1>1, <3>2, QueueSteps DEF SetupInv, Types, Reached
    <3>. QED
      BY <1>1, <3>1, <3>2, Zenon DEF SetupInv, Types
  <2>3. QueueFollows(q, Reached, Pos)
    BY <1>1, <2>1, <2>2, Zenon DEF SetupInv, QueuesAt
  <2>. QED
    BY <2>3, Zenon DEF QueueFollows
<1>2. SetupInv => ReadyConfigured
  BY <1>1, Zenon
<1>. QED
  BY <1>2, SetupInvAlways, PTL

\* When a probe is over, the device has the status and every queue that the driver asked
\* for, wherever in its script an earlier driver was interrupted by a reboot; and it has
\* both feature banks if they differ and that reboot left no unfinished negotiation.
THEOREM ProbeDeliveredAlways ==
  ASSUME Prompt, DistinctBanks
  PROVE  Spec => []ProbeDelivered
<1>1. Init => SetupInv /\ BanksFollow
  BY SetupInvInit, Zenon
<1>2. SetupInv /\ BanksFollow /\ [Next]_vars => (SetupInv /\ BanksFollow)'
  BY SetupInvNext, Zenon
<1>3. ASSUME SetupInv, BanksFollow PROVE ProbeDelivered
  <2>. SUFFICES ASSUME ProbeDone
                PROVE  /\ mmio.status = Bits
                       /\ \A q \in Queues : mmio.queues[q]["QUEUE_READY"] = 1
                       /\ ~leftover => \A b \in Banks : mmio.driver_features[b] = Features[b]
    BY Zenon DEF ProbeDelivered, Bits
  <2>1. driver = "run" /\ step = Up - 1
    <3>1. session \in {0, 1}
      BY <1>3, Zenon DEF SetupInv, Types
    <3>2. Len(Probe(session)) = Up - 2
      BY <3>1, ScriptAt, Zenon
    <3>. QED
      BY <3>2, QueueSteps DEF ProbeDone
  <2>2. /\ Idle /\ Reached = step /\ FollowsAt(step, 13, leftover) /\ QueuesAt(step, 13) /\ BanksAt(step, 13, leftover)
    BY <1>3, <2>1, Running, Zenon
  <2>3. mmio.status = Bits
    <3>1. "STATUS" \in Plain
      BY Zenon DEF Plain, Shadowed
    <3>2. shadow["STATUS"] = window["STATUS"]
      BY <1>3, <2>2, <3>1, AtRest, Zenon
    <3>3. mmio.status = shadow["STATUS"]
      BY <2>2, Zenon DEF FollowsAt
    <3>4. window["STATUS"] = Bits
      BY <1>3, <2>1, <2>2, Zenon DEF SetupInv, WindowAt, StatusAt
    <3>. QED
      BY <3>2, <3>3, <3>4, Zenon
  <2>4. step > 14 /\ step > 12 /\ step > 2 /\ \A q \in Queues : step > 23 + 6 * q
    BY <2>1, QueueSteps
  <2>5. mmio.status # {}
    BY <2>3, Zenon DEF Bits
  <2>6. ~leftover => mmio.driver_features[1] = Features[1] /\ mmio.driver_features[0] = Features[0]
    BY <2>2, <2>4, <2>5, Zenon DEF BanksAt
  <2>7. \A q \in Queues : mmio.queues[q]["QUEUE_READY"] = 1
    BY <2>2, <2>4, <2>5, Zenon DEF QueuesAt, QueueFollows
  <2>. QED
    BY <2>3, <2>6, <2>7, Zenon DEF Banks
<1>4. SetupInv /\ BanksFollow => ProbeDelivered
  BY <1>3, Zenon
<1>. QED
  BY <1>1, <1>2, <1>4, PTL DEF Spec
=============================================================================

--------------------------- MODULE SocketWireProofs ---------------------------
(***************************************************************************)
(* Proofs about SocketWire for any values and any bounds: the two sides    *)
(* stay in step, and the protocol implements RegisterBus.                  *)
(***************************************************************************)
EXTENDS SocketWire, TLAPS

\* Messages and payloads are items of a stream.
LEMMA ItemFacts ==
  /\ \A k \in Kinds : Header(k) \in Items /\ Header(k).kind = k /\ Header(k).val = Zero
  /\ \A v \in Values : Data(v) \in Items /\ Data(v).kind = "DATA" /\ Data(v).val = v
  /\ \A k \in Kinds : Header(k) \in IrqItems => k \in {"IRQ_ASSERT", "IRQ_DEASSERT"}
  /\ \A v \in Values : Data(v) \notin IrqItems
  /\ \A x \in IrqItems : x \in Items /\ x.kind \in {"IRQ_ASSERT", "IRQ_DEASSERT"}
BY WireAssumption DEF WireAssumption, Header, Data, Items, Kinds, IrqItems

\* Trails for no, one and two last messages.
LEMMA TrailsForms ==
  ASSUME NEW s \in Seq(Items), NEW y \in Items, NEW z \in Items
  PROVE  /\ Trails(s, <<>>) <=> \A i \in 1 .. Len(s) : s[i] \in IrqItems
         /\ Trails(s, <<y>>) <=>
              /\ Len(s) >= 1 /\ s[Len(s)] = y
              /\ \A i \in 1 .. Len(s) - 1 : s[i] \in IrqItems
         /\ Trails(s, <<y, z>>) <=>
              /\ Len(s) >= 2 /\ s[Len(s) - 1] = y /\ s[Len(s)] = z
              /\ \A i \in 1 .. Len(s) - 2 : s[i] \in IrqItems
<1>1. Len(<<>>) = 0 /\ Len(<<y>>) = 1 /\ Len(<<y, z>>) = 2 /\ Len(s) \in Nat
  OBVIOUS
<1>2. <<y>>[1] = y /\ <<y, z>>[1] = y /\ <<y, z>>[2] = z /\ 1 .. 2 = {1, 2} /\ 1 .. 1 = {1}
  OBVIOUS
<1>3. Trails(s, <<>>) <=> \A i \in 1 .. Len(s) : s[i] \in IrqItems
  BY <1>1 DEF Trails
<1>4. Trails(s, <<y>>) <=>
        /\ Len(s) - 1 >= 0
        /\ \A i \in 1 .. Len(s) - 1 : s[i] \in IrqItems
        /\ \A i \in {1} : s[Len(s) - 1 + i] = <<y>>[i]
  BY <1>1, <1>2, Zenon DEF Trails
<1>5. Trails(s, <<y, z>>) <=>
        /\ Len(s) - 2 >= 0
        /\ \A i \in 1 .. Len(s) - 2 : s[i] \in IrqItems
        /\ \A i \in {1, 2} : s[Len(s) - 2 + i] = <<y, z>>[i]
  BY <1>1, <1>2, Zenon DEF Trails
<1>6. (Len(s) - 1) + 1 = Len(s) /\ (Len(s) - 2) + 1 = Len(s) - 1 /\ (Len(s) - 2) + 2 = Len(s)
  BY <1>1
<1>. QED
  BY <1>1, <1>2, <1>3, <1>4, <1>5, <1>6

\* A message at the end of a stream.
LEMMA TrailsAppend ==
  ASSUME NEW s \in Seq(Items), NEW x \in Items
  PROVE  /\ Append(s, x) \in Seq(Items)
         /\ Trails(s, <<>>) => Trails(Append(s, x), <<x>>)
         /\ Trails(s, <<>>) /\ x \in IrqItems => Trails(Append(s, x), <<>>)
         /\ \A y \in Items : Trails(s, <<y>>) => Trails(Append(s, x), <<y, x>>)
<1>. DEFINE t == Append(s, x)
<1>1. /\ t \in Seq(Items) /\ Len(t) = Len(s) + 1 /\ Len(s) \in Nat
      /\ \A i \in 1 .. Len(s) : t[i] = s[i]
      /\ t[Len(s) + 1] = x
  OBVIOUS
<1>. HIDE DEF t
<1>2. Trails(s, <<>>) => Trails(t, <<x>>)
  BY <1>1 DEF Trails
<1>3. Trails(s, <<>>) /\ x \in IrqItems => Trails(t, <<>>)
  BY <1>1 DEF Trails
<1>4. ASSUME NEW y \in Items, Trails(s, <<y>>) PROVE Trails(t, <<y, x>>)
  <2>1. /\ Len(s) >= 1 /\ s[Len(s)] = y
        /\ \A i \in 1 .. Len(s) - 1 : s[i] \in IrqItems
    BY <1>4, TrailsForms, Zenon
  <2>2. /\ Len(t) >= 2 /\ t[Len(t) - 1] = y /\ t[Len(t)] = x
        /\ \A i \in 1 .. Len(t) - 2 : t[i] \in IrqItems
    BY <1>1, <2>1
  <2>. QED
    BY <1>1, <2>2, TrailsForms, Zenon
<1>. QED
  BY <1>1, <1>2, <1>3, <1>4, Zenon DEF t

\* The first message of a stream.
LEMMA TrailsTail ==
  ASSUME NEW s \in Seq(Items), s # <<>>
  PROVE  /\ Head(s) \in Items /\ Tail(s) \in Seq(Items)
         /\ Trails(s, <<>>) => Head(s) \in IrqItems /\ Trails(Tail(s), <<>>)
         /\ \A y \in Items \ IrqItems : Trails(s, <<y>>) =>
              \/ Head(s) \in IrqItems /\ Trails(Tail(s), <<y>>)
              \/ s = <<y>>
         /\ \A y, z \in Items \ IrqItems : Trails(s, <<y, z>>) =>
              \/ Head(s) \in IrqItems /\ Trails(Tail(s), <<y, z>>)
              \/ s = <<y, z>>
<1>. DEFINE t == Tail(s)
            n == Len(s)
<1>1. /\ n \in Nat /\ n > 0 /\ t \in Seq(Items) /\ Len(t) = n - 1
      /\ Head(s) = s[1] /\ s[1] \in Items
      /\ \A i \in 1 .. n - 1 : t[i] = s[i + 1]
  OBVIOUS
<1>. HIDE DEF t
<1>2. Trails(s, <<>>) => Head(s) \in IrqItems /\ Trails(t, <<>>)
  BY <1>1 DEF Trails
<1>3. ASSUME NEW y \in Items \ IrqItems, Trails(s, <<y>>)
      PROVE  (Head(s) \in IrqItems /\ Trails(t, <<y>>)) \/ s = <<y>>
  <2>1. CASE n = 1
    BY <1>1, <1>3, <2>1 DEF Trails
  <2>2. CASE n > 1
    BY <1>1, <1>3, <2>2, SMTT(30) DEF Trails
  <2>. QED
    BY <1>1, <2>1, <2>2
<1>4. ASSUME NEW y \in Items \ IrqItems, NEW z \in Items \ IrqItems, Trails(s, <<y, z>>)
      PROVE  (Head(s) \in IrqItems /\ Trails(t, <<y, z>>)) \/ s = <<y, z>>
  <2>0. /\ n >= 2 /\ s[n - 1] = y /\ s[n] = z
        /\ \A i \in 1 .. n - 2 : s[i] \in IrqItems
    BY <1>4, TrailsForms, Zenon
  <2>1. CASE n = 2
    BY <1>1, <2>0, <2>1
  <2>2. CASE n > 2
    <3>0. n - 2 \in 1 .. n - 1 /\ n - 1 \in 1 .. n - 1 /\ (n - 2) + 1 = n - 1
      BY <1>1, <2>2
    <3>a. t[n - 2] = s[n - 1] /\ t[n - 1] = s[n]
      BY <1>1, <3>0
    <3>b. Len(t) >= 2 /\ Len(t) - 1 = n - 2 /\ Len(t) = n - 1 /\ Len(t) - 2 = n - 3
      BY <1>1, <2>2
    <3>c. ASSUME NEW i \in 1 .. n - 3 PROVE t[i] \in IrqItems
      <4>1. i \in 1 .. n - 1 /\ i + 1 \in 1 .. n - 2
        BY <1>1, <2>2
      <4>. QED
        BY <1>1, <2>0, <4>1, Zenon
    <3>1. /\ Len(t) >= 2 /\ t[Len(t) - 1] = y /\ t[Len(t)] = z
          /\ \A i \in 1 .. Len(t) - 2 : t[i] \in IrqItems
      BY <2>0, <3>a, <3>b, <3>c, Zenon
    <3>2. Trails(t, <<y, z>>)
      BY <1>1, <3>1, TrailsForms, Zenon
    <3>. QED
      BY <1>1, <2>0, <2>2, <3>2
  <2>. QED
    BY <1>1, <2>0, <2>1, <2>2
<1>. QED
  BY <1>1, <1>2, <1>3, <1>4, Zenon DEF t

\* A message at the end of a stream, index by index.
LEMMA AppendFacts ==
  ASSUME NEW s \in Seq(Items), NEW x \in Items
  PROVE  /\ Append(s, x) \in Seq(Items) /\ Len(Append(s, x)) = Len(s) + 1
         /\ \A i \in 1 .. Len(s) : Append(s, x)[i] = s[i]
         /\ Append(s, x)[Len(s) + 1] = x
OBVIOUS

\* A stream of two items, from its parts.
LEMMA PairStream ==
  ASSUME NEW s \in Seq(Items), NEW x \in Items, NEW y \in Items,
         Len(s) = 2, s[1] = x, s[2] = y
  PROVE  s = <<x, y>>
OBVIOUS

\* Streams of up to two items.
LEMMA ShortStreams ==
  ASSUME NEW x \in Items, NEW y \in Items
  PROVE  /\ <<>> \in Seq(Items) /\ <<x>> \in Seq(Items) /\ <<x, y>> \in Seq(Items)
         /\ Append(<<>>, x) = <<x>> /\ Append(<<x>>, y) = <<x, y>>
         /\ <<>> \o <<x, y>> = <<x, y>>
         /\ Head(<<x>>) = x /\ Tail(<<x>>) = <<>>
         /\ Head(<<x, y>>) = x /\ Tail(<<x, y>>) = <<y>>
         /\ <<x>> # <<>> /\ <<x, y>> # <<>> /\ \A z : <<x, y>> # <<z>>
<1>1. <<x>> \in Seq(Items) /\ Len(<<x>>) = 1 /\ <<x>>[1] = x
  OBVIOUS
<1>2. Len(<<x>>) + 1 = 2 /\ 1 \in 1 .. Len(<<x>>)
  OBVIOUS
<1>3. /\ Append(<<x>>, y) \in Seq(Items) /\ Len(Append(<<x>>, y)) = Len(<<x>>) + 1
      /\ \A i \in 1 .. Len(<<x>>) : Append(<<x>>, y)[i] = <<x>>[i]
      /\ Append(<<x>>, y)[Len(<<x>>) + 1] = y
  BY <1>1, AppendFacts, Zenon
<1>4. Len(Append(<<x>>, y)) = 2 /\ Append(<<x>>, y)[1] = x /\ Append(<<x>>, y)[2] = y
  BY <1>1, <1>2, <1>3, Zenon
<1>5. Append(<<x>>, y) = <<x, y>>
  BY <1>3, <1>4, PairStream, Zenon
<1>. QED
  BY <1>5

\* An empty stream trails nothing, and a stream of one message trails itself.
LEMMA TrailsShort ==
  /\ Trails(<<>>, <<>>)
  /\ \A x \in Items : Trails(<<x>>, <<x>>)
  /\ \A x, y \in Items : Trails(<<x, y>>, <<x, y>>)
  /\ \A x \in IrqItems : Trails(<<x>>, <<>>)
BY DEF Trails

-----------------------------------------------------------------------------
(* WireInv is inductive.                                                   *)

\* Register accesses.
LEMMA AccessFacts ==
  ASSUME NEW a \in Accesses
  PROVE  a # None /\ a.op \in {"read", "write"} /\ a.val \in Values
<1>1. a # None
  BY AccessAssumption, Zenon DEF AccessAssumption
<1>2. a.op \in {"read", "write"} /\ a.val \in Values
  BY WireAssumption, Zenon DEF WireAssumption, Accesses
<1>. QED
  BY <1>1, <1>2, Zenon

\* No connection and no access: the invariant holds initially.
LEMMA WireInit == Init => WireInv
<1>. SUFFICES ASSUME Init PROVE WireInv
  BY Zenon
<1>a. 0 \in 0 .. MaxOps /\ 0 \in 0 .. MaxCrashes
  BY WireAssumption DEF WireAssumption
<1>b. <<>> \in Seq(Items)
  OBVIOUS
<1>1. TypeOK
  BY <1>a, <1>b, WireAssumption, Zenon DEF WireAssumption, Init, TypeOK
<1>2. AccessInv /\ BacklogInv
  BY Zenon DEF Init, AccessInv, BacklogInv
<1>. QED
  BY <1>1, <1>2, Zenon DEF Init, WireInv

\* Between two accesses nothing is on its way, and a daemon that is connected waits for
\* a request.
LEMMA IdleFacts ==
  ASSUME WireInv, qpc = "idle"
  PROVE  /\ toQ = <<>> /\ (sockfd <=> peer) /\ backlog = <<>>
         /\ dfd /\ peer => dpc = "header" /\ toD = <<>> /\ ~stale
<1>1. toQ = <<>>
  BY Zenon DEF WireInv, QemuStream
<1>2. (sockfd <=> peer) /\ backlog = <<>>
  BY Zenon DEF WireInv, BacklogInv, TypeOK
<1>3. ASSUME dfd, peer PROVE dpc = "header" /\ toD = <<>> /\ ~stale
  BY <1>3, Zenon DEF WireInv, ServeInv, HandlerInv
<1>. QED
  BY <1>1, <1>2, <1>3, Zenon

\* axi_close leaves no connection on QEMU's side.
LEMMA CloseStep ==
  ASSUME WireInv, axi_close, UNCHANGED <<guestVars, dfd, backlog, daemonVars>>,
         toD' \in Seq(Items), sockfd <=> peer, dfd => OrphanInv'
  PROVE  WireInv'
<1>1. TypeOK'
  <2>1. <<>> \in Seq(Items)
    OBVIOUS
  <2>. QED
    BY <2>1, WireAssumption, Zenon
    DEF WireInv, TypeOK, axi_close, EndAccess, guestVars, daemonVars, WireAssumption
<1>2. AccessInv' /\ BacklogInv'
  BY Zenon DEF WireInv, TypeOK, AccessInv, BacklogInv, axi_close, EndAccess
<1>3. (dfd <=> dpc \notin {"accept", "down"})'
  BY Zenon DEF WireInv, daemonVars
<1>. QED
  BY <1>1, <1>2, <1>3 DEF WireInv, axi_close, EndAccess

\* axi_send_header: an access begins, on the connection there is or on a new one.
LEMMA GuestStep ==
  ASSUME WireInv, NEW a \in Accesses, axi_send_header(a)
  PROVE  WireInv'
<1>. DEFINE h == Header(IF a.op = "read" THEN "MMIO_READ" ELSE "MMIO_WRITE")
<1>1. /\ toQ = <<>> /\ (sockfd <=> peer) /\ backlog = <<>>
      /\ dfd /\ peer => dpc = "header" /\ toD = <<>> /\ ~stale
  BY IdleFacts, Zenon DEF axi_send_header
<1>2. /\ h \in Items /\ <<h>> \in Seq(Items) /\ Append(<<>>, h) = <<h>>
      /\ a # None /\ a.op \in {"read", "write"}
      /\ a.op = "read" => h = Header("MMIO_READ")
      /\ a.op = "write" => h = Header("MMIO_WRITE")
  <2>1. h \in Items
    BY ItemFacts, Zenon DEF Kinds
  <2>2. a # None /\ a.op \in {"read", "write"}
    BY AccessFacts, Zenon
  <2>. QED
    BY <2>1, <2>2, ShortStreams, Zenon
<1>3. /\ UNCHANGED <<guestVars, dfd, daemonVars>>
      /\ qpc = "idle" /\ access = None /\ ~carried /\ taken = Zero
  BY Zenon DEF axi_send_header, WireInv, AccessInv
<1>4. CASE /\ IF sockfd THEN Broken ELSE dpc = "down"
           /\ axi_close /\ UNCHANGED <<toD, backlog>>
  <2>1. ~dfd
    BY <1>4, Zenon DEF Broken, WireInv
  <2>. QED
    BY <1>1, <1>3, <1>4, <2>1, CloseStep, Zenon DEF WireInv, TypeOK
<1>5. CASE /\ IF sockfd THEN ~Broken ELSE dpc # "down"
           /\ access' = a
           /\ qpc' = IF a.op = "read" THEN "reply" ELSE "payload"
           /\ sockfd' = TRUE
           /\ Send(h)
           /\ UNCHANGED <<result, peer, toQ, carried, taken, stale>>
  <2>1. IF peer THEN toD' = <<h>> /\ backlog' = <<>> /\ dfd
                ELSE backlog' = <<h>> /\ toD' = toD
    BY <1>1, <1>2, <1>5, Zenon DEF Send, Broken
  <2>2. TypeOK'
    <3>1. <<>> \in Seq(Items)
      OBVIOUS
    <3>2. toD' \in Seq(Items) /\ backlog' \in Seq(Items)
      BY <1>2, <2>1, <3>1, Zenon DEF WireInv, TypeOK
    <3>. QED
      BY <1>3, <1>5, <3>2, Zenon DEF WireInv, TypeOK, guestVars, daemonVars
  <2>3. AccessInv' /\ BacklogInv'
    BY <1>1, <1>2, <1>3, <1>5, <2>1, Zenon DEF AccessInv, BacklogInv
  <2>4. QemuStream'
    BY <1>1, <1>2, <1>5, Zenon DEF QemuStream
  <2>5. (~sockfd => ~peer)' /\ (~peer => toQ = <<>>)' /\ (dfd <=> dpc \notin {"accept", "down"})'
    BY <1>1, <1>3, <1>5, Zenon DEF WireInv, daemonVars
  <2>6. ASSUME dfd', peer' PROVE ~stale' /\ dpc' = "header" /\ ServeInv'
    BY <1>1, <1>2, <1>3, <1>5, <2>1, <2>6, Zenon DEF ServeInv, daemonVars
  <2>7. ASSUME dfd', ~peer' PROVE OrphanInv'
    BY <1>3, <1>5, <2>1, <2>7, Zenon DEF WireInv, OrphanInv, daemonVars
  <2>. QED
    BY <2>2, <2>3, <2>4, <2>5, <2>6, <2>7, Zenon DEF WireInv
<1>. QED
  BY <1>4, <1>5, Zenon DEF axi_send_header

\* The connection QEMU waits on while something is on its way to it.
LEMMA ConnectedFacts ==
  ASSUME WireInv, qpc # "idle", toQ # <<>> \/ Broken \/ qpc \in {"value", "dma_data", "dma_end"}
  PROVE  sockfd /\ peer /\ backlog = <<>> /\ QemuStream
<1>1. sockfd
  BY Zenon DEF WireInv, AccessInv
<1>2. peer
  BY <1>1, Zenon DEF WireInv, BacklogInv, Broken
<1>. QED
  BY <1>1, <1>2, Zenon DEF WireInv, BacklogInv

\* The value of a register write follows its header.
LEMMA PayloadStep ==
  ASSUME WireInv, send_payload
  PROVE  WireInv'
<1>. DEFINE d == Data(access.val)
            w == Header("MMIO_WRITE")
<1>1. /\ UNCHANGED <<guestVars, dfd, daemonVars>> /\ qpc = "payload"
      /\ sockfd /\ access \in Accesses /\ access # None /\ access.op = "write"
  BY Zenon DEF send_payload, WireInv, AccessInv, TypeOK
<1>2. CASE Broken /\ axi_close /\ UNCHANGED <<toD, backlog>>
  BY <1>1, <1>2, CloseStep, Zenon DEF Broken, WireInv, TypeOK
<1>3. CASE /\ ~Broken
           /\ Send(d)
           /\ qpc' = "service"
           /\ UNCHANGED <<access, sockfd, result, peer, toQ, carried, taken, stale>>
  <2>1. /\ d \in Items /\ w \in Items
    BY <1>1, AccessFacts, ItemFacts, Zenon DEF Kinds
  <2>2. /\ Append(<<>>, d) = <<d>> /\ Append(<<w>>, d) = <<w, d>>
        /\ <<d>> \in Seq(Items) /\ <<w, d>> \in Seq(Items) /\ <<>> \in Seq(Items)
    BY <2>1, ShortStreams, Zenon
  <2>3. IF peer
          THEN /\ dfd /\ toQ = <<>> /\ ~carried /\ backlog = <<>> /\ ~stale
               /\ \/ dpc = "header" /\ toD = <<w>>
                  \/ dpc = "payload" /\ toD = <<>>
          ELSE backlog = <<w>> /\ toQ = <<>> /\ ~carried /\ taken = Zero
    <3>1. CASE peer
      <4>1. dfd /\ toQ = <<>> /\ backlog = <<>> /\ ~stale
        BY <1>1, <1>3, <3>1, Zenon DEF Broken, WireInv, BacklogInv, QemuStream
      <4>2. ~carried /\ ((dpc = "header" /\ toD = <<w>>) \/ (dpc = "payload" /\ toD = <<>>))
        <5>1. CASE dpc = "header"
          <6>1. ServeInv
            BY <3>1, <4>1, <5>1, Zenon DEF WireInv
          <6>. QED
            BY <1>1, <5>1, <6>1, Zenon DEF ServeInv
        <5>2. CASE dpc # "header"
          <6>1. HandlerInv /\ dpc \in {"reply", "value", "payload", "handler", "raise", "dma_reply",
                                       "dma_value", "dma_write", "dma_ack"}
            BY <3>1, <4>1, <5>2, Zenon DEF WireInv
          <6>2. dpc = "payload"
            BY <1>1, <6>1, Zenon DEF HandlerInv
          <6>. QED
            BY <1>1, <6>1, <6>2, Zenon DEF HandlerInv
        <5>. QED
          BY <5>1, <5>2, Zenon
      <4>. QED
        BY <3>1, <4>1, <4>2, Zenon
    <3>2. CASE ~peer
      BY <1>1, <3>2, Zenon DEF WireInv, BacklogInv
    <3>. QED
      BY <3>1, <3>2, Zenon
  <2>4. IF peer THEN /\ backlog' = <<>>
                     /\ \/ dpc = "header" /\ toD' = <<w, d>>
                        \/ dpc = "payload" /\ toD' = <<d>>
                ELSE backlog' = <<w, d>> /\ toD' = toD
    BY <1>3, <2>2, <2>3, Zenon DEF Send
  <2>5. TypeOK'
    <3>1. toD' \in Seq(Items) /\ backlog' \in Seq(Items)
      BY <2>2, <2>4, Zenon DEF WireInv, TypeOK
    <3>. QED
      BY <1>1, <1>3, <3>1, Zenon DEF WireInv, TypeOK, guestVars, daemonVars
  <2>6. AccessInv' /\ BacklogInv'
    BY <1>1, <1>3, <2>3, <2>4, Zenon DEF AccessInv, BacklogInv
  <2>7. QemuStream'
    BY <1>3, <2>3, Zenon DEF QemuStream
  <2>8. /\ (~sockfd => ~peer)' /\ (~peer => toQ = <<>>)' /\ (dfd /\ peer => ~stale)'
        /\ (dfd <=> dpc \notin {"accept", "down"})'
    BY <1>1, <1>3, <2>3, Zenon DEF WireInv, daemonVars
  <2>9. ASSUME dfd', peer'
        PROVE  \/ dpc' = "header" /\ ServeInv'
               \/ dpc' = "payload" /\ HandlerInv'
    BY <1>1, <1>3, <2>3, <2>4, <2>9, Zenon DEF ServeInv, HandlerInv, daemonVars
  <2>10. ASSUME dfd', ~peer' PROVE OrphanInv'
    BY <1>1, <1>3, <2>4, <2>10, Zenon DEF WireInv, OrphanInv, daemonVars
  <2>. QED
    BY <2>5, <2>6, <2>7, <2>8, <2>9, <2>10, Zenon DEF WireInv
<1>. QED
  BY <1>2, <1>3, Zenon DEF send_payload

\* QEMU reads the end of the stream and gives the access up.
LEMMA EofStep ==
  ASSUME WireInv, read_eof
  PROVE  WireInv'
<1>1. sockfd /\ peer /\ ~dfd /\ axi_close /\ UNCHANGED <<toD, backlog, guestVars, dfd, daemonVars>>
  BY Zenon DEF read_eof, Broken
<1>. QED
  BY <1>1, CloseStep, Zenon DEF WireInv, TypeOK

\* What a daemon that is connected may be doing while QEMU is in a given place.
LEMMA DaemonFacts ==
  ASSUME WireInv, dfd, peer
  PROVE  /\ ~stale
         /\ qpc = "reply" =>
              \/ dpc = "header" /\ toD = <<Header("MMIO_READ")>> /\ toQ = <<>> /\ ~carried
              \/ dpc = "header" /\ toD = <<>> /\ toQ = <<Header("MMIO_READ_REPLY"), Data(taken)>>
              \/ dpc = "reply" /\ toD = <<>> /\ toQ = <<>> /\ carried /\ taken = reg
              \/ /\ dpc = "value" /\ toD = <<>> /\ toQ = <<Header("MMIO_READ_REPLY")>>
                 /\ carried /\ taken = reg
         /\ qpc = "value" =>
              \/ dpc = "header" /\ toD = <<>> /\ toQ = <<Data(taken)>>
              \/ dpc = "value" /\ toD = <<>> /\ toQ = <<>> /\ taken = reg
         /\ qpc = "dma_data" =>
              \/ dpc = "dma_write" /\ toD = <<>> /\ toQ = <<>>
              \/ dpc = "dma_ack" /\ toD = <<>> /\ toQ # <<>>
         /\ qpc = "dma_end" => dpc = "dma_ack" /\ toD = <<>>
<1>1. CASE dpc = "header"
  <2>1. ServeInv /\ ~stale
    BY <1>1, Zenon DEF WireInv
  <2>. QED
    BY <1>1, <2>1, Zenon DEF ServeInv
<1>2. CASE dpc # "header"
  <2>1. /\ HandlerInv /\ ~stale
        /\ dpc \in {"reply", "value", "payload", "handler", "raise", "dma_reply",
                    "dma_value", "dma_write", "dma_ack"}
    BY <1>2, Zenon DEF WireInv
  <2>2. \A v : <<Data(v)>> # <<>>
    BY Zenon
  <2>. QED
    BY <2>1, <2>2, Zenon DEF HandlerInv
<1>. QED
  BY <1>1, <1>2, Zenon

\* QEMU reads the header and the value of a read reply.
LEMMA ReplyStep ==
  ASSUME WireInv, read_reply
  PROVE  WireInv'
<1>. DEFINE d == Data(taken)
            r == Header("MMIO_READ_REPLY")
<1>1. UNCHANGED <<sockfd, guestVars, dfd, peer, toD, backlog, daemonVars, stale>>
  BY Zenon DEF read_reply
<1>2. /\ d \in Items /\ r \in Items /\ d.kind = "DATA" /\ d.val = taken /\ taken \in Values
      /\ r.kind = "MMIO_READ_REPLY"
  BY ItemFacts, Zenon DEF Kinds, WireInv, TypeOK
<1>3. /\ Head(<<d>>) = d /\ Tail(<<d>>) = <<>> /\ <<d>> \in Seq(Items) /\ <<>> \in Seq(Items)
      /\ Head(<<r, d>>) = r /\ Tail(<<r, d>>) = <<d>> /\ <<d>> # <<>> /\ <<r, d>> # <<r>>
      /\ Head(<<r>>) = r /\ Tail(<<r>>) = <<>> /\ <<r, d>> # <<>> /\ <<r>> # <<>>
  BY <1>2, ShortStreams, Zenon
<1>4. (dfd <=> dpc \notin {"accept", "down"})' /\ (dfd /\ peer => ~stale)'
  BY <1>1, Zenon DEF WireInv, daemonVars
<1>5. CASE /\ qpc = "reply" /\ Receive("MMIO_READ_REPLY") /\ qpc' = "value"
           /\ UNCHANGED <<access, result, carried, taken>>
  <2>1. sockfd /\ peer /\ backlog = <<>> /\ QemuStream
    BY <1>5, ConnectedFacts, Zenon DEF Receive
  <2>2. carried /\ (toQ = <<r>> \/ toQ = <<r, d>>)
    BY <1>5, <2>1, Zenon DEF QemuStream, Receive
  <2>3. (toQ = <<r>> /\ toQ' = <<>>) \/ (toQ = <<r, d>> /\ toQ' = <<d>>)
    BY <1>3, <1>5, <2>2, Zenon DEF Receive
  <2>4. TypeOK'
    <3>1. toQ' \in Seq(Items)
      BY <1>3, <2>3, Zenon
    <3>. QED
      BY <1>1, <1>5, <3>1, Zenon DEF WireInv, TypeOK, guestVars, daemonVars
  <2>5. AccessInv' /\ BacklogInv' /\ QemuStream'
    BY <1>1, <1>5, <2>1, <2>2, <2>3, Zenon DEF WireInv, AccessInv, BacklogInv, QemuStream
  <2>6. ASSUME dfd'
        PROVE  \/ dpc' = "header" /\ ServeInv'
               \/ dpc' = "value" /\ HandlerInv'
    <3>1. \/ dpc = "header" /\ toD = <<>> /\ toQ = <<r, d>>
          \/ dpc = "value" /\ toD = <<>> /\ toQ = <<r>> /\ carried /\ taken = reg
      BY <1>1, <1>3, <1>5, <2>1, <2>2, <2>6, DaemonFacts, Zenon
    <3>2. \/ dpc = "header" /\ toD = <<>> /\ toQ' = <<d>>
          \/ dpc = "value" /\ toD = <<>> /\ toQ' = <<>> /\ carried /\ taken = reg
      BY <1>3, <2>3, <3>1, Zenon
    <3>. QED
      BY <1>1, <1>5, <3>2, Zenon DEF ServeInv, HandlerInv, daemonVars
  <2>. QED
    BY <1>1, <1>4, <2>1, <2>4, <2>5, <2>6, Zenon DEF WireInv
<1>6. CASE qpc = "value" /\ Receive("DATA") /\ EndAccess(Head(toQ).val)
  <2>1. sockfd /\ peer /\ backlog = <<>> /\ QemuStream
    BY <1>6, ConnectedFacts, Zenon
  <2>2. carried /\ toQ = <<d>>
    BY <1>6, <2>1, Zenon DEF QemuStream, Receive
  <2>3. toQ' = <<>> /\ EndAccess(taken)
    BY <1>2, <1>3, <1>6, <2>2, Zenon DEF Receive
  <2>4. TypeOK'
    BY <1>1, <1>2, <1>3, <2>3, WireAssumption, Zenon
    DEF WireInv, TypeOK, EndAccess, guestVars, daemonVars, WireAssumption
  <2>5. AccessInv' /\ BacklogInv' /\ QemuStream'
    BY <1>1, <2>1, <2>3, Zenon DEF AccessInv, BacklogInv, QemuStream, EndAccess
  <2>6. ASSUME dfd' PROVE dpc' = "header" /\ ServeInv'
    <3>1. dpc = "header" /\ toD = <<>>
      BY <1>1, <1>3, <1>6, <2>1, <2>2, <2>6, DaemonFacts, Zenon
    <3>. QED
      BY <1>1, <2>3, <3>1, Zenon DEF ServeInv, EndAccess, daemonVars
  <2>. QED
    BY <1>1, <1>4, <2>1, <2>4, <2>5, <2>6, Zenon DEF WireInv
<1>. QED
  BY <1>5, <1>6, Zenon DEF read_reply

\* The first message of a stream that a handler writes.
LEMMA StreamHead ==
  ASSUME NEW s \in Seq(Items), s # <<>>
  PROVE  /\ Head(s) \in Items /\ Tail(s) \in Seq(Items)
         /\ Trails(s, <<>>) =>
              Head(s).kind \in {"IRQ_ASSERT", "IRQ_DEASSERT"} /\ Trails(Tail(s), <<>>)
         /\ \A k \in {"DMA_READ", "DMA_WRITE", "ERROR"} : Trails(s, <<Header(k)>>) =>
              \/ /\ Head(s).kind \in {"IRQ_ASSERT", "IRQ_DEASSERT"}
                 /\ Trails(Tail(s), <<Header(k)>>)
              \/ Head(s).kind = k /\ s = <<Header(k)>> /\ Tail(s) = <<>>
         /\ \A v \in Values : Trails(s, <<Header("DMA_WRITE"), Data(v)>>) =>
              \/ /\ Head(s).kind \in {"IRQ_ASSERT", "IRQ_DEASSERT"}
                 /\ Trails(Tail(s), <<Header("DMA_WRITE"), Data(v)>>)
              \/ /\ Head(s).kind = "DMA_WRITE"
                 /\ s = <<Header("DMA_WRITE"), Data(v)>> /\ Tail(s) = <<Data(v)>>
<1>1. /\ Head(s) \in Items /\ Tail(s) \in Seq(Items)
      /\ Trails(s, <<>>) => Head(s) \in IrqItems /\ Trails(Tail(s), <<>>)
  BY TrailsTail, Zenon
<1>2. Head(s) \in IrqItems => Head(s).kind \in {"IRQ_ASSERT", "IRQ_DEASSERT"}
  BY ItemFacts, Zenon
<1>3. ASSUME NEW k \in {"DMA_READ", "DMA_WRITE", "ERROR"}, Trails(s, <<Header(k)>>)
      PROVE  \/ /\ Head(s).kind \in {"IRQ_ASSERT", "IRQ_DEASSERT"}
                /\ Trails(Tail(s), <<Header(k)>>)
             \/ Head(s).kind = k /\ s = <<Header(k)>> /\ Tail(s) = <<>>
  <2>1. k \in Kinds /\ k \notin {"IRQ_ASSERT", "IRQ_DEASSERT"}
    BY Zenon DEF Kinds
  <2>2. Header(k) \in Items \ IrqItems /\ Header(k).kind = k
    BY <2>1, ItemFacts, Zenon
  <2>3. Head(<<Header(k)>>) = Header(k) /\ Tail(<<Header(k)>>) = <<>>
    BY <2>2, ShortStreams, Zenon
  <2>. QED
    BY <1>2, <1>3, <2>2, <2>3, TrailsTail, Zenon
<1>4. ASSUME NEW v \in Values, Trails(s, <<Header("DMA_WRITE"), Data(v)>>)
      PROVE  \/ /\ Head(s).kind \in {"IRQ_ASSERT", "IRQ_DEASSERT"}
                /\ Trails(Tail(s), <<Header("DMA_WRITE"), Data(v)>>)
             \/ /\ Head(s).kind = "DMA_WRITE"
                /\ s = <<Header("DMA_WRITE"), Data(v)>> /\ Tail(s) = <<Data(v)>>
  <2>1. "DMA_WRITE" \in Kinds
    BY Zenon DEF Kinds
  <2>2. Header("DMA_WRITE") \in Items \ IrqItems /\ Header("DMA_WRITE").kind = "DMA_WRITE"
    BY <2>1, ItemFacts, Zenon
  <2>3. Data(v) \in Items \ IrqItems
    BY ItemFacts, Zenon
  <2>4. /\ Head(<<Header("DMA_WRITE"), Data(v)>>) = Header("DMA_WRITE")
        /\ Tail(<<Header("DMA_WRITE"), Data(v)>>) = <<Data(v)>>
    BY <2>2, <2>3, ShortStreams, Zenon
  <2>. QED
    BY <1>2, <1>4, <2>2, <2>3, <2>4, TrailsTail, Zenon
<1>. QED
  BY <1>1, <1>2, <1>3, <1>4, Zenon

\* Something is on its way to a QEMU that serves the daemon.
LEMMA ServiceFacts ==
  ASSUME WireInv, qpc = "service", toQ # <<>>
  PROVE  /\ sockfd /\ peer /\ backlog = <<>> /\ carried
         /\ \/ Trails(toQ, <<>>)
            \/ \E k \in {"DMA_READ", "DMA_WRITE", "ERROR"} : Trails(toQ, <<Header(k)>>)
            \/ \E v \in Values : Trails(toQ, <<Header("DMA_WRITE"), Data(v)>>)
         /\ dfd =>
              /\ toD = <<>> /\ ~stale
              /\ \/ dpc = "header" /\ Trails(toQ, <<Header("ERROR")>>)
                 \/ dpc \in {"handler", "raise"} /\ Trails(toQ, <<>>)
                 \/ dpc = "dma_reply" /\ Trails(toQ, <<Header("DMA_READ")>>)
                 \/ dpc = "dma_write" /\ Trails(toQ, <<Header("DMA_WRITE")>>)
                 \/ /\ dpc = "dma_ack"
                    /\ \E v \in Values : Trails(toQ, <<Header("DMA_WRITE"), Data(v)>>)
<1>1. sockfd /\ peer /\ backlog = <<>> /\ QemuStream
  BY ConnectedFacts, Zenon
<1>2. /\ carried
      /\ \/ Trails(toQ, <<>>)
         \/ \E k \in {"DMA_READ", "DMA_WRITE", "ERROR"} : Trails(toQ, <<Header(k)>>)
         \/ \E v \in Values : Trails(toQ, <<Header("DMA_WRITE"), Data(v)>>)
  BY <1>1, Zenon DEF QemuStream
<1>3. ASSUME dfd, dpc = "header"
      PROVE  toD = <<>> /\ ~stale /\ Trails(toQ, <<Header("ERROR")>>)
  <2>1. ServeInv /\ ~stale
    BY <1>1, <1>3, Zenon DEF WireInv
  <2>. QED
    BY <2>1, <1>2, Zenon DEF ServeInv
<1>4. ASSUME dfd, dpc # "header"
      PROVE  /\ toD = <<>> /\ ~stale
             /\ \/ dpc \in {"handler", "raise"} /\ Trails(toQ, <<>>)
                \/ dpc = "dma_reply" /\ Trails(toQ, <<Header("DMA_READ")>>)
                \/ dpc = "dma_write" /\ Trails(toQ, <<Header("DMA_WRITE")>>)
                \/ /\ dpc = "dma_ack"
                   /\ \E v \in Values : Trails(toQ, <<Header("DMA_WRITE"), Data(v)>>)
  <2>1. /\ HandlerInv /\ ~stale
        /\ dpc \in {"reply", "value", "payload", "handler", "raise", "dma_reply",
                    "dma_value", "dma_write", "dma_ack"}
    BY <1>1, <1>4, Zenon DEF WireInv
  <2>. QED
    BY <1>2, <2>1, Zenon DEF HandlerInv
<1>. QED
  BY <1>1, <1>2, <1>3, <1>4, Zenon

\* axi_service_backend: the ERROR that ends a register write.
LEMMA AckStep ==
  ASSUME WireInv, service_ack
  PROVE  WireInv'
<1>1. /\ UNCHANGED <<sockfd, guestVars, dfd, peer, toD, backlog, daemonVars, stale>>
      /\ qpc = "service" /\ toQ # <<>> /\ Head(toQ).kind = "ERROR" /\ toQ' = Tail(toQ)
      /\ EndAccess(access.val)
  BY Zenon DEF service_ack, Receive
<1>2. sockfd /\ peer /\ backlog = <<>>
  BY <1>1, ServiceFacts, Zenon
<1>3. toQ \in Seq(Items)
  BY Zenon DEF WireInv, TypeOK
<1>4. toQ' = <<>>
  BY <1>1, <1>3, ServiceFacts, StreamHead, Zenon
<1>5. ASSUME dfd PROVE dpc = "header" /\ toD = <<>> /\ ~stale
  <2>1. /\ toD = <<>> /\ ~stale
        /\ \/ dpc = "header" /\ Trails(toQ, <<Header("ERROR")>>)
           \/ dpc \in {"handler", "raise"} /\ Trails(toQ, <<>>)
           \/ dpc = "dma_reply" /\ Trails(toQ, <<Header("DMA_READ")>>)
           \/ dpc = "dma_write" /\ Trails(toQ, <<Header("DMA_WRITE")>>)
           \/ /\ dpc = "dma_ack"
              /\ \E v \in Values : Trails(toQ, <<Header("DMA_WRITE"), Data(v)>>)
    BY <1>1, <1>5, ServiceFacts, Zenon
  <2>. QED
    BY <1>1, <1>3, <2>1, StreamHead, Zenon
<1>6. TypeOK'
  <2>1. access.val \in Values
    BY <1>1, AccessFacts, Zenon DEF WireInv, TypeOK, AccessInv
  <2>2. <<>> \in Seq(Items)
    OBVIOUS
  <2>. QED
    BY <1>1, <1>4, <2>1, <2>2, WireAssumption, Zenon
    DEF WireInv, TypeOK, EndAccess, guestVars, daemonVars, WireAssumption
<1>7. AccessInv' /\ BacklogInv' /\ QemuStream'
  BY <1>1, <1>2, <1>4, Zenon DEF AccessInv, BacklogInv, QemuStream, EndAccess
<1>8. ASSUME dfd' PROVE dpc' = "header" /\ ServeInv' /\ ~stale'
  BY <1>1, <1>4, <1>5, <1>8, Zenon DEF ServeInv, EndAccess, daemonVars
<1>9. (dfd <=> dpc \notin {"accept", "down"})'
  BY <1>1, Zenon DEF WireInv, daemonVars
<1>. QED
  BY <1>1, <1>2, <1>6, <1>7, <1>8, <1>9, Zenon DEF WireInv

\* axi_service_backend: an interrupt message.
LEMMA IrqStep ==
  ASSUME WireInv, service_irq
  PROVE  WireInv'
<1>1. /\ UNCHANGED <<qemuVars, mem, dfd, peer, toD, backlog, daemonVars, history>>
      /\ qpc = "service" /\ toQ # <<>> /\ toQ' = Tail(toQ) /\ line' \in BOOLEAN
      /\ Head(toQ).kind \in {"IRQ_ASSERT", "IRQ_DEASSERT"}
  BY Zenon DEF service_irq, Receive
<1>2. sockfd /\ peer /\ backlog = <<>> /\ carried
  BY <1>1, ServiceFacts, Zenon
<1>3. toQ \in Seq(Items) /\ toQ' \in Seq(Items)
  BY <1>1, StreamHead, Zenon DEF WireInv, TypeOK
<1>4. \/ Trails(toQ', <<>>)
      \/ \E k \in {"DMA_READ", "DMA_WRITE", "ERROR"} : Trails(toQ', <<Header(k)>>)
      \/ \E v \in Values : Trails(toQ', <<Header("DMA_WRITE"), Data(v)>>)
  <2>1. \/ Trails(toQ, <<>>)
        \/ \E k \in {"DMA_READ", "DMA_WRITE", "ERROR"} : Trails(toQ, <<Header(k)>>)
        \/ \E v \in Values : Trails(toQ, <<Header("DMA_WRITE"), Data(v)>>)
    BY <1>1, ServiceFacts, Zenon
  <2>. QED
    BY <1>1, <1>3, <2>1, StreamHead, Zenon
<1>5. ASSUME dfd
      PROVE  /\ toD = <<>> /\ ~stale
             /\ \/ dpc = "header" /\ Trails(toQ', <<Header("ERROR")>>)
                \/ dpc \in {"handler", "raise"} /\ Trails(toQ', <<>>)
                \/ dpc = "dma_reply" /\ Trails(toQ', <<Header("DMA_READ")>>)
                \/ dpc = "dma_write" /\ Trails(toQ', <<Header("DMA_WRITE")>>)
                \/ /\ dpc = "dma_ack"
                   /\ \E v \in Values : Trails(toQ', <<Header("DMA_WRITE"), Data(v)>>)
  <2>1. /\ toD = <<>> /\ ~stale
        /\ \/ dpc = "header" /\ Trails(toQ, <<Header("ERROR")>>)
           \/ dpc \in {"handler", "raise"} /\ Trails(toQ, <<>>)
           \/ dpc = "dma_reply" /\ Trails(toQ, <<Header("DMA_READ")>>)
           \/ dpc = "dma_write" /\ Trails(toQ, <<Header("DMA_WRITE")>>)
           \/ /\ dpc = "dma_ack"
              /\ \E v \in Values : Trails(toQ, <<Header("DMA_WRITE"), Data(v)>>)
    BY <1>1, <1>5, ServiceFacts, Zenon
  <2>. QED
    BY <1>1, <1>3, <2>1, StreamHead, Zenon
<1>6. TypeOK'
  BY <1>1, <1>3, Zenon DEF WireInv, TypeOK, qemuVars, daemonVars, history
<1>7. AccessInv' /\ BacklogInv' /\ QemuStream'
  <2>1. AccessInv' /\ BacklogInv'
    BY <1>1, <1>2, Zenon DEF WireInv, AccessInv, BacklogInv, qemuVars, history
  <2>2. qpc' = "service" /\ carried'
    BY <1>1, <1>2, Zenon DEF qemuVars, history
  <2>3. QemuStream'
    BY <1>4, <2>2, Zenon DEF QemuStream
  <2>. QED
    BY <2>1, <2>3, Zenon
<1>8. ASSUME dfd'
      PROVE  /\ ~stale'
             /\ \/ dpc' = "header" /\ ServeInv'
                \/ dpc' \in {"handler", "raise", "dma_reply", "dma_write", "dma_ack"} /\ HandlerInv'
  BY <1>1, <1>2, <1>5, <1>8, Zenon DEF ServeInv, HandlerInv, qemuVars, daemonVars, history
<1>9. (dfd <=> dpc \notin {"accept", "down"})'
  BY <1>1, Zenon DEF WireInv, daemonVars
<1>. QED
  BY <1>1, <1>2, <1>6, <1>7, <1>8, <1>9, Zenon DEF WireInv, qemuVars

\* axi_service_backend: a DMA_READ, answered or failed.
LEMMA DmaReadStep ==
  ASSUME WireInv, service_dma_read
  PROVE  WireInv'
<1>. DEFINE r == Header("DMA_READ_REPLY")
            d == Data(mem)
<1>1. /\ UNCHANGED <<guestVars, dfd, backlog, daemonVars>>
      /\ qpc = "service" /\ toQ # <<>> /\ Head(toQ).kind = "DMA_READ"
  BY Zenon DEF service_dma_read
<1>2. sockfd /\ peer /\ backlog = <<>> /\ carried
  BY <1>1, ServiceFacts, Zenon
<1>3. toQ \in Seq(Items) /\ toD \in Seq(Items) /\ mem \in Values
  BY Zenon DEF WireInv, TypeOK
<1>4. r \in Items /\ d \in Items
  BY <1>3, ItemFacts, Zenon DEF Kinds
<1>5. ASSUME dfd PROVE dpc = "dma_reply" /\ toD = <<>> /\ ~stale
  <2>1. /\ toD = <<>> /\ ~stale
        /\ \/ dpc = "header" /\ Trails(toQ, <<Header("ERROR")>>)
           \/ dpc \in {"handler", "raise"} /\ Trails(toQ, <<>>)
           \/ dpc = "dma_reply" /\ Trails(toQ, <<Header("DMA_READ")>>)
           \/ dpc = "dma_write" /\ Trails(toQ, <<Header("DMA_WRITE")>>)
           \/ /\ dpc = "dma_ack"
              /\ \E v \in Values : Trails(toQ, <<Header("DMA_WRITE"), Data(v)>>)
    BY <1>1, <1>5, ServiceFacts, Zenon
  <2>. QED
    BY <1>1, <1>3, <2>1, StreamHead, Zenon
<1>6. CASE axi_close /\ toD' \in {toD, Append(toD, r)}
  <2>1. toD' \in Seq(Items)
    BY <1>3, <1>4, <1>6, AppendFacts, Zenon
  <2>2. ASSUME dfd PROVE OrphanInv'
    <3>1. Append(<<>>, r) = <<r>>
      BY <1>4, ShortStreams, Zenon
    <3>. QED
      BY <1>1, <1>5, <1>6, <2>2, <3>1, Zenon DEF OrphanInv, daemonVars
  <2>. QED
    BY <1>1, <1>2, <1>6, <2>1, <2>2, CloseStep, Zenon
<1>7. CASE /\ ~Broken
           /\ toQ' = Tail(toQ)
           /\ toD' = toD \o <<r, d>>
           /\ UNCHANGED <<qemuVars, peer, history>>
  <2>1. dfd /\ dpc = "dma_reply" /\ toD = <<>> /\ ~stale
    BY <1>2, <1>5, <1>7, Zenon DEF Broken
  <2>2. toQ' = <<>>
    BY <1>1, <1>3, <1>7, ServiceFacts, StreamHead, Zenon
  <2>3. toD' = <<r, d>> /\ <<r, d>> \in Seq(Items) /\ <<>> \in Seq(Items)
    BY <1>4, <1>7, <2>1, ShortStreams, Zenon
  <2>4. TypeOK'
    BY <1>1, <1>7, <2>2, <2>3, Zenon DEF WireInv, TypeOK, qemuVars, guestVars, daemonVars, history
  <2>5. AccessInv' /\ BacklogInv' /\ QemuStream'
    BY <1>1, <1>2, <1>7, <2>2, Zenon DEF WireInv, AccessInv, BacklogInv, QemuStream, qemuVars, history
  <2>6. HandlerInv'
    BY <1>1, <1>2, <1>3, <1>7, <2>1, <2>2, <2>3, Zenon DEF HandlerInv, qemuVars, daemonVars, history
  <2>. QED
    BY <1>1, <1>2, <1>7, <2>1, <2>4, <2>5, <2>6, Zenon DEF WireInv, qemuVars, daemonVars, history
<1>. QED
  BY <1>6, <1>7, Zenon DEF service_dma_read

\* axi_service_backend: the header of a DMA_WRITE.
LEMMA DmaWriteStep ==
  ASSUME WireInv, service_dma_write
  PROVE  WireInv'
<1>1. /\ UNCHANGED <<access, sockfd, result, guestVars, dfd, peer, toD, backlog, daemonVars, history>>
      /\ qpc = "service" /\ toQ # <<>> /\ Head(toQ).kind = "DMA_WRITE" /\ toQ' = Tail(toQ)
      /\ qpc' = "dma_data"
  BY Zenon DEF service_dma_write, Receive
<1>2. sockfd /\ peer /\ backlog = <<>> /\ carried
  BY <1>1, ServiceFacts, Zenon
<1>3. toQ \in Seq(Items) /\ toQ' \in Seq(Items)
  BY <1>1, StreamHead, Zenon DEF WireInv, TypeOK
<1>4. toQ' = <<>> \/ \E v \in Values : toQ' = <<Data(v)>>
  <2>1. \/ Trails(toQ, <<>>)
        \/ \E k \in {"DMA_READ", "DMA_WRITE", "ERROR"} : Trails(toQ, <<Header(k)>>)
        \/ \E v \in Values : Trails(toQ, <<Header("DMA_WRITE"), Data(v)>>)
    BY <1>1, ServiceFacts, Zenon
  <2>. QED
    BY <1>1, <1>3, <2>1, StreamHead, Zenon
<1>5. ASSUME dfd
      PROVE  /\ toD = <<>> /\ ~stale
             /\ \/ dpc = "dma_write" /\ toQ' = <<>>
                \/ dpc = "dma_ack" /\ \E v \in Values : toQ' = <<Data(v)>>
  <2>1. /\ toD = <<>> /\ ~stale
        /\ \/ dpc = "header" /\ Trails(toQ, <<Header("ERROR")>>)
           \/ dpc \in {"handler", "raise"} /\ Trails(toQ, <<>>)
           \/ dpc = "dma_reply" /\ Trails(toQ, <<Header("DMA_READ")>>)
           \/ dpc = "dma_write" /\ Trails(toQ, <<Header("DMA_WRITE")>>)
           \/ /\ dpc = "dma_ack"
              /\ \E v \in Values : Trails(toQ, <<Header("DMA_WRITE"), Data(v)>>)
    BY <1>1, <1>5, ServiceFacts, Zenon
  <2>. QED
    BY <1>1, <1>3, <2>1, StreamHead, Zenon
<1>6. TypeOK'
  BY <1>1, <1>3, Zenon DEF WireInv, TypeOK, guestVars, daemonVars, history
<1>7. AccessInv' /\ BacklogInv' /\ QemuStream'
  BY <1>1, <1>2, <1>4, Zenon DEF WireInv, AccessInv, BacklogInv, QemuStream, history
<1>8. ASSUME dfd'
      PROVE  ~stale' /\ dpc' \in {"dma_write", "dma_ack"} /\ HandlerInv'
  BY <1>1, <1>2, <1>5, <1>8, Zenon DEF HandlerInv, daemonVars, history
<1>9. (dfd <=> dpc \notin {"accept", "down"})'
  BY <1>1, Zenon DEF WireInv, daemonVars
<1>. QED
  BY <1>1, <1>2, <1>6, <1>7, <1>8, <1>9, Zenon DEF WireInv

\* axi_service_backend: the data of a DMA_WRITE.
LEMMA DmaDataStep ==
  ASSUME WireInv, service_dma_data
  PROVE  WireInv'
<1>1. /\ UNCHANGED <<line, dfd, toD, backlog, daemonVars>>
      /\ qpc = "dma_data" /\ toQ # <<>>
  BY Zenon DEF service_dma_data, Receive
<1>2. sockfd /\ peer /\ backlog = <<>> /\ carried /\ \E v \in Values : toQ = <<Data(v)>>
  BY <1>1, ConnectedFacts, Zenon DEF QemuStream
<1>3. dfd => dpc = "dma_ack" /\ toD = <<>> /\ ~stale
  BY <1>1, <1>2, DaemonFacts, Zenon
<1>4. CASE axi_close /\ UNCHANGED mem
  <2>1. dfd => OrphanInv'
    BY <1>1, <1>3, Zenon DEF OrphanInv, daemonVars
  <2>2. toD' \in Seq(Items) /\ UNCHANGED guestVars
    BY <1>1, <1>4, Zenon DEF WireInv, TypeOK, guestVars
  <2>. QED
    BY <1>1, <1>2, <1>4, <2>1, <2>2, CloseStep, Zenon
<1>5. CASE /\ Receive("DATA")
           /\ mem' = Head(toQ).val
           /\ qpc' = "dma_end"
           /\ UNCHANGED <<access, sockfd, result, peer, history>>
  <2>1. PICK v \in Values : toQ = <<Data(v)>>
    BY <1>2, Zenon
  <2>2. Data(v) \in Items /\ Data(v).val = v
    BY ItemFacts, Zenon
  <2>3. Head(<<Data(v)>>) = Data(v) /\ Tail(<<Data(v)>>) = <<>> /\ <<>> \in Seq(Items)
    BY <2>2, ShortStreams, Zenon
  <2>4. toQ' = <<>> /\ mem' \in Values
    BY <1>5, <2>1, <2>2, <2>3, Zenon DEF Receive
  <2>5. TypeOK'
    BY <1>1, <1>5, <2>3, <2>4, Zenon DEF WireInv, TypeOK, daemonVars, history
  <2>6. AccessInv' /\ BacklogInv' /\ QemuStream'
    BY <1>1, <1>2, <1>5, <2>4, Zenon DEF WireInv, AccessInv, BacklogInv, QemuStream, history
  <2>7. ASSUME dfd' PROVE ~stale' /\ dpc' = "dma_ack" /\ HandlerInv'
    BY <1>1, <1>2, <1>3, <1>5, <2>4, <2>7, Zenon DEF HandlerInv, daemonVars, history
  <2>8. (dfd <=> dpc \notin {"accept", "down"})'
    BY <1>1, Zenon DEF WireInv, daemonVars
  <2>. QED
    BY <1>1, <1>2, <1>5, <2>5, <2>6, <2>7, <2>8, Zenon DEF WireInv
<1>. QED
  BY <1>1, <1>4, <1>5, Zenon DEF service_dma_data

\* axi_service_backend: the ERROR that ends a DMA_WRITE, or its failure.
LEMMA DmaEndStep ==
  ASSUME WireInv, service_dma_end
  PROVE  WireInv'
<1>1. UNCHANGED <<guestVars, dfd, backlog, daemonVars>> /\ qpc = "dma_end"
  BY Zenon DEF service_dma_end
<1>2. sockfd /\ peer /\ backlog = <<>> /\ carried /\ toQ = <<>>
  BY <1>1, ConnectedFacts, Zenon DEF QemuStream
<1>3. dfd => dpc = "dma_ack" /\ toD = <<>> /\ ~stale
  BY <1>1, <1>2, DaemonFacts, Zenon
<1>4. CASE Broken /\ axi_close /\ UNCHANGED toD
  BY <1>1, <1>2, <1>4, CloseStep, Zenon DEF Broken, WireInv, TypeOK
<1>5. CASE /\ ~Broken
           /\ toD' = Append(toD, Header("ERROR"))
           /\ qpc' = "service"
           /\ UNCHANGED <<access, sockfd, result, peer, toQ, history>>
  <2>1. dfd
    BY <1>2, <1>5, Zenon DEF Broken
  <2>2. Header("ERROR") \in Items
    BY ItemFacts, Zenon DEF Kinds
  <2>3. toD' = <<Header("ERROR")>> /\ <<Header("ERROR")>> \in Seq(Items)
    BY <1>3, <1>5, <2>1, <2>2, ShortStreams, Zenon
  <2>4. TypeOK'
    BY <1>1, <1>5, <2>3, Zenon DEF WireInv, TypeOK, guestVars, daemonVars, history
  <2>5. AccessInv' /\ BacklogInv' /\ QemuStream'
    BY <1>1, <1>2, <1>5, Zenon DEF WireInv, AccessInv, BacklogInv, QemuStream, history
  <2>6. HandlerInv' /\ dpc' = "dma_ack" /\ ~stale'
    BY <1>1, <1>2, <1>3, <1>5, <2>1, <2>3, Zenon DEF HandlerInv, daemonVars, history
  <2>. QED
    BY <1>1, <1>2, <1>5, <2>1, <2>4, <2>5, <2>6, Zenon DEF WireInv
<1>. QED
  BY <1>4, <1>5, Zenon DEF service_dma_end

\* A daemon that is in the middle of a request has its peer, unless it is in a DMA.
LEMMA ServingFacts ==
  ASSUME WireInv, dpc \notin {"accept", "down"}
  PROVE  /\ dfd
         /\ dpc \notin {"dma_reply", "dma_value", "dma_ack"} => peer
         /\ ~peer => OrphanInv
         /\ peer => /\ sockfd /\ backlog = <<>> /\ ~stale
                    /\ dpc = "header" => ServeInv
                    /\ dpc # "header" => HandlerInv
<1>1. dfd
  BY Zenon DEF WireInv
<1>2. ~peer => OrphanInv
  BY <1>1, Zenon DEF WireInv
<1>3. peer => sockfd /\ backlog = <<>> /\ ~stale
  BY <1>1, Zenon DEF WireInv, BacklogInv
<1>4. peer => (dpc = "header" => ServeInv) /\ (dpc # "header" => HandlerInv)
  BY <1>1, Zenon DEF WireInv
<1>. QED
  BY <1>1, <1>2, <1>3, <1>4, Zenon DEF OrphanInv

\* The daemon accepts a connection and initialises its device.
LEMMA AcceptStep ==
  ASSUME WireInv, accept
  PROVE  WireInv'
<1>1. /\ sockfd /\ ~peer /\ dfd' = TRUE /\ peer' = TRUE
      /\ toD' = backlog /\ backlog' = <<>> /\ toQ' = <<>>
      /\ reg' = Zero /\ stale' = FALSE /\ dpc' = "header" /\ ops' = 0
      /\ UNCHANGED <<qemuVars, guestVars, crashes, carried, taken>>
  BY Zenon DEF accept, connect
<1>2. /\ ~carried
      /\ \/ qpc = "reply" /\ backlog = <<Header("MMIO_READ")>>
         \/ qpc = "payload" /\ backlog = <<Header("MMIO_WRITE")>>
         \/ qpc = "service" /\ backlog = <<Header("MMIO_WRITE"), Data(access.val)>>
  BY <1>1, Zenon DEF WireInv, BacklogInv
<1>3. TypeOK'
  <2>1. 0 \in 0 .. MaxOps /\ <<>> \in Seq(Items)
    BY WireAssumption DEF WireAssumption
  <2>. QED
    BY <1>1, <2>1, WireAssumption, Zenon DEF WireInv, TypeOK, qemuVars, guestVars, WireAssumption
<1>4. AccessInv' /\ BacklogInv' /\ QemuStream'
  BY <1>1, <1>2, Zenon DEF WireInv, AccessInv, BacklogInv, QemuStream, qemuVars
<1>5. ServeInv'
  BY <1>1, <1>2, Zenon DEF ServeInv, qemuVars
<1>. QED
  BY <1>1, <1>3, <1>4, <1>5, Zenon DEF WireInv, qemuVars

\* serve_connection reads a request header.
LEMMA RequestStep ==
  ASSUME WireInv, serve_request
  PROVE  WireInv'
<1>. DEFINE r == Header("MMIO_READ")
            w == Header("MMIO_WRITE")
            d == Data(access.val)
<1>1. /\ UNCHANGED <<qemuVars, guestVars, dfd, peer, toQ, backlog, reg, ops, crashes, stale>>
      /\ dpc = "header" /\ toD # <<>> /\ toD' = Tail(toD)
      /\ \/ /\ Head(toD).kind = "MMIO_READ" /\ taken' = reg /\ carried' = TRUE /\ dpc' = "reply"
         \/ Head(toD).kind = "MMIO_WRITE" /\ dpc' = "payload" /\ UNCHANGED <<taken, carried>>
  BY Zenon DEF serve_request, Read
<1>2. dfd /\ peer /\ sockfd /\ backlog = <<>> /\ ~stale /\ ServeInv
  BY <1>1, ServingFacts, Zenon
<1>3. r \in Items /\ r.kind = "MMIO_READ" /\ w \in Items /\ w.kind = "MMIO_WRITE"
  BY ItemFacts, Zenon DEF Kinds
<1>4. qpc = "service" => d \in Items
  BY ItemFacts, AccessFacts, Zenon DEF WireInv, TypeOK, AccessInv
<1>5. \/ qpc = "reply" /\ toD = <<r>> /\ toQ = <<>> /\ ~carried
      \/ qpc = "payload" /\ toD = <<w>> /\ toQ = <<>> /\ ~carried
      \/ qpc = "service" /\ toD = <<w, d>> /\ toQ = <<>> /\ ~carried
  BY <1>1, <1>2, Zenon DEF ServeInv, WireInv, QemuStream
<1>6. Head(<<r>>) = r /\ Tail(<<r>>) = <<>> /\ Head(<<w>>) = w /\ Tail(<<w>>) = <<>>
  BY <1>3, ShortStreams, Zenon
<1>7. qpc = "service" => Head(<<w, d>>) = w /\ Tail(<<w, d>>) = <<d>> /\ <<d>> \in Seq(Items)
  BY <1>3, <1>4, ShortStreams, Zenon
<1>8. \/ /\ qpc = "reply" /\ toD' = <<>> /\ toQ = <<>>
         /\ taken' = reg /\ carried' = TRUE /\ dpc' = "reply"
      \/ /\ \/ qpc = "payload" /\ toD' = <<>>
            \/ qpc = "service" /\ toD' = <<d>>
         /\ ~carried /\ toQ = <<>> /\ dpc' = "payload" /\ UNCHANGED <<taken, carried>>
  BY <1>1, <1>3, <1>5, <1>6, <1>7, Zenon
<1>9. TypeOK'
  <2>1. toD' \in Seq(Items)
    BY <1>1, TrailsTail, Zenon DEF WireInv, TypeOK
  <2>2. taken' \in Values /\ carried' \in BOOLEAN
    BY <1>8, Zenon DEF WireInv, TypeOK
  <2>. QED
    BY <1>1, <2>1, <2>2, Zenon DEF WireInv, TypeOK, qemuVars, guestVars
<1>10. AccessInv' /\ BacklogInv' /\ QemuStream'
  BY <1>1, <1>2, <1>8, Zenon DEF WireInv, AccessInv, BacklogInv, QemuStream, qemuVars
<1>11. HandlerInv' /\ dpc' \in {"reply", "payload"}
  BY <1>1, <1>8 DEF HandlerInv, qemuVars
<1>. QED
  BY <1>1, <1>2, <1>9, <1>10, <1>11, Zenon DEF WireInv, qemuVars

\* serve_connection answers a read.
LEMMA ReadReplyStep ==
  ASSUME WireInv, write_read_reply
  PROVE  WireInv'
<1>. DEFINE r == Header("MMIO_READ_REPLY")
            d == Data(reg)
<1>1. /\ UNCHANGED <<qemuVars, guestVars, dfd, peer, toD, backlog, reg, ops, crashes, history>>
      /\ \/ dpc = "reply" /\ toQ' = Append(toQ, r) /\ dpc' = "value"
         \/ dpc = "value" /\ toQ' = Append(toQ, d) /\ dpc' = "header"
  BY Zenon DEF write_read_reply, Write
<1>2. dfd /\ peer /\ sockfd /\ backlog = <<>> /\ ~stale /\ HandlerInv
  BY <1>1, ServingFacts, Zenon
<1>3. r \in Items /\ d \in Items
  BY ItemFacts, Zenon DEF Kinds, WireInv, TypeOK
<1>4. /\ Append(<<>>, r) = <<r>> /\ Append(<<r>>, d) = <<r, d>> /\ Append(<<>>, d) = <<d>>
      /\ <<r>> \in Seq(Items) /\ <<r, d>> \in Seq(Items) /\ <<d>> \in Seq(Items)
  BY <1>3, ShortStreams, Zenon
<1>5. /\ toD = <<>> /\ carried /\ taken = reg
      /\ \/ dpc = "reply" /\ qpc = "reply" /\ toQ = <<>>
         \/ dpc = "value" /\ qpc = "reply" /\ toQ = <<r>>
         \/ dpc = "value" /\ qpc = "value" /\ toQ = <<>>
  BY <1>1, <1>2, Zenon DEF HandlerInv
<1>6. \/ qpc = "reply" /\ toQ' = <<r>> /\ dpc' = "value"
      \/ qpc = "reply" /\ toQ' = <<r, d>> /\ dpc' = "header"
      \/ qpc = "value" /\ toQ' = <<d>> /\ dpc' = "header"
  BY <1>1, <1>4, <1>5, Zenon
<1>7. TypeOK'
  <2>1. toQ' \in Seq(Items)
    BY <1>4, <1>6, Zenon
  <2>. QED
    BY <1>1, <2>1, Zenon DEF WireInv, TypeOK, qemuVars, guestVars, history
<1>8. AccessInv' /\ BacklogInv' /\ QemuStream'
  BY <1>1, <1>2, <1>5, <1>6, Zenon DEF WireInv, AccessInv, BacklogInv, QemuStream, qemuVars, history
<1>9. \/ dpc' = "value" /\ HandlerInv'
      \/ dpc' = "header" /\ ServeInv'
  BY <1>1, <1>5, <1>6, Zenon DEF HandlerInv, ServeInv, qemuVars, history
<1>. QED
  BY <1>1, <1>2, <1>7, <1>8, <1>9, Zenon DEF WireInv, qemuVars, history

\* serve_connection reads the value of a write and carries it out.
LEMMA ValueStep ==
  ASSUME WireInv, read_value
  PROVE  WireInv'
<1>. DEFINE d == Data(access.val)
<1>1. /\ UNCHANGED <<qemuVars, guestVars, dfd, peer, toQ, backlog, crashes, taken, stale>>
      /\ dpc = "payload" /\ toD # <<>> /\ toD' = Tail(toD) /\ reg' = Head(toD).val
      /\ carried' = TRUE /\ dpc' = "handler" /\ ops' = 0
  BY Zenon DEF read_value, Read
<1>2. dfd /\ peer /\ sockfd /\ backlog = <<>> /\ ~stale /\ HandlerInv
  BY <1>1, ServingFacts, Zenon
<1>3. qpc = "service" /\ toD = <<d>> /\ toQ = <<>>
  BY <1>1, <1>2, Zenon DEF HandlerInv
<1>4. access.val \in Values /\ d \in Items /\ d.val = access.val
  BY <1>3, ItemFacts, AccessFacts, Zenon DEF WireInv, TypeOK, AccessInv
<1>5. toD' = <<>> /\ reg' = access.val
  BY <1>1, <1>3, <1>4, ShortStreams, Zenon
<1>6. TypeOK'
  <2>1. 0 \in 0 .. MaxOps /\ <<>> \in Seq(Items)
    BY WireAssumption DEF WireAssumption
  <2>. QED
    BY <1>1, <1>4, <1>5, <2>1, Zenon DEF WireInv, TypeOK, qemuVars, guestVars
<1>7. AccessInv' /\ BacklogInv' /\ QemuStream'
  BY <1>1, <1>2, <1>3, Zenon DEF WireInv, AccessInv, BacklogInv, QemuStream, qemuVars
<1>8. HandlerInv'
  BY <1>1, <1>3, <1>5, TrailsShort, Zenon DEF HandlerInv, qemuVars
<1>. QED
  BY <1>1, <1>2, <1>6, <1>7, <1>8, Zenon DEF WireInv, qemuVars

\* A message of a handler, which trails the interrupt messages before it.
LEMMA HandlerWrites ==
  ASSUME WireInv, dpc \in {"handler", "raise"},
         UNCHANGED <<qemuVars, guestVars, dfd, peer, toD, backlog, reg, crashes, history>>,
         ops' \in 0 .. MaxOps,
         NEW k \in {"DMA_READ", "DMA_WRITE", "ERROR", "IRQ_ASSERT", "IRQ_DEASSERT"},
         toQ' = Append(toQ, Header(k)),
         \/ k = "DMA_READ" /\ dpc' = "dma_reply"
         \/ k = "DMA_WRITE" /\ dpc' = "dma_write"
         \/ k = "ERROR" /\ dpc' = "header"
         \/ k \in {"IRQ_ASSERT", "IRQ_DEASSERT"} /\ dpc' \in {"handler", "raise"}
  PROVE  WireInv'
<1>1. dfd /\ peer /\ sockfd /\ backlog = <<>> /\ ~stale /\ HandlerInv
  BY ServingFacts, Zenon
<1>2. qpc = "service" /\ carried /\ toD = <<>> /\ Trails(toQ, <<>>)
  BY <1>1, Zenon DEF HandlerInv
<1>3. Header(k) \in Items /\ toQ \in Seq(Items)
  BY ItemFacts, Zenon DEF Kinds, WireInv, TypeOK
<1>4. toQ' \in Seq(Items) /\ Trails(toQ', <<Header(k)>>)
  BY <1>2, <1>3, TrailsAppend, Zenon
<1>5. k \in {"IRQ_ASSERT", "IRQ_DEASSERT"} => Trails(toQ', <<>>)
  <2>1. k \in {"IRQ_ASSERT", "IRQ_DEASSERT"} => Header(k) \in IrqItems
    BY Zenon DEF IrqItems
  <2>. QED
    BY <1>2, <1>3, <2>1, TrailsAppend, Zenon
<1>6. TypeOK'
  BY <1>4, Zenon DEF WireInv, TypeOK, qemuVars, guestVars, history
<1>7. AccessInv' /\ BacklogInv'
  BY <1>1, Zenon DEF WireInv, AccessInv, BacklogInv, qemuVars, history
<1>8. qpc' = "service" /\ carried' /\ toD' = <<>> /\ dfd' /\ peer' /\ sockfd' /\ ~stale'
  BY <1>1, <1>2, Zenon DEF qemuVars, history
<1>9. QemuStream'
  BY <1>4, <1>5, <1>8, Zenon DEF QemuStream
<1>10. \/ dpc' = "header" /\ ServeInv'
       \/ dpc' \in {"handler", "raise", "dma_reply", "dma_write"} /\ HandlerInv'
  BY <1>4, <1>5, <1>8, Zenon DEF ServeInv, HandlerInv
<1>. QED
  BY <1>6, <1>7, <1>8, <1>9, <1>10, Zenon DEF WireInv

\* The device handler calls the fabric, or returns and the write is acknowledged.
LEMMA HandlerStep ==
  ASSUME WireInv, handler_calls \/ raise_irq \/ write_ack
  PROVE  WireInv'
<1>1. CASE handler_calls
  <2>1. ops' \in 0 .. MaxOps
    BY <1>1, WireAssumption DEF handler_calls, WireInv, TypeOK, WireAssumption
  <2>. QED
    BY <1>1, <2>1, HandlerWrites, Zenon DEF handler_calls, Write
<1>2. CASE raise_irq
  BY <1>2, HandlerWrites, Zenon DEF raise_irq, Write, WireInv, TypeOK
<1>3. CASE write_ack
  BY <1>3, HandlerWrites, Zenon DEF write_ack, Write, WireInv, TypeOK
<1>. QED
  BY <1>1, <1>2, <1>3, Zenon

\* The daemon's side of a DMA_READ.
LEMMA DmaReadIntoStep ==
  ASSUME WireInv, dma_read_into
  PROVE  WireInv'
<1>. DEFINE r == Header("DMA_READ_REPLY")
<1>1. /\ UNCHANGED <<qemuVars, guestVars, dfd, peer, toQ, backlog, reg, ops, crashes, history>>
      /\ toD # <<>> /\ toD' = Tail(toD)
      /\ \/ dpc = "dma_reply" /\ Head(toD).kind = "DMA_READ_REPLY" /\ dpc' = "dma_value"
         \/ dpc = "dma_value" /\ dpc' = "handler"
  BY Zenon DEF dma_read_into, Read
<1>2. r \in Items
  BY ItemFacts, Zenon DEF Kinds
<1>3. TypeOK'
  <2>1. toD' \in Seq(Items)
    BY <1>1, TrailsTail, Zenon DEF WireInv, TypeOK
  <2>. QED
    BY <1>1, <2>1, Zenon DEF WireInv, TypeOK, qemuVars, guestVars, history
<1>4. AccessInv' /\ BacklogInv' /\ (peer => QemuStream)'
  BY <1>1, Zenon DEF WireInv, AccessInv, BacklogInv, QemuStream, qemuVars, history
<1>5. dfd
  BY <1>1, ServingFacts, Zenon
<1>6. CASE ~peer
  <2>1. dpc = "dma_reply" /\ toD = <<r>>
    BY <1>1, <1>6, ServingFacts, Zenon DEF OrphanInv
  <2>2. toD' = <<>> /\ dpc' = "dma_value"
    BY <1>1, <1>2, <2>1, ShortStreams, Zenon
  <2>. QED
    BY <1>1, <1>3, <1>4, <1>5, <1>6, <2>2, Zenon DEF WireInv, OrphanInv, qemuVars, history
<1>7. CASE peer
  <2>1. HandlerInv /\ ~stale /\ sockfd
    BY <1>1, <1>7, ServingFacts, Zenon
  <2>2. /\ qpc = "service" /\ carried /\ toQ = <<>>
        /\ \/ dpc = "dma_reply" /\ \E v \in Values : toD = <<r, Data(v)>>
           \/ dpc = "dma_value" /\ \E v \in Values : toD = <<Data(v)>>
    BY <1>1, <2>1, Zenon DEF HandlerInv
  <2>3. ASSUME NEW v \in Values
        PROVE  Tail(<<r, Data(v)>>) = <<Data(v)>> /\ Tail(<<Data(v)>>) = <<>>
    <3>1. Data(v) \in Items
      BY ItemFacts, Zenon
    <3>. QED
      BY <1>2, <3>1, ShortStreams, Zenon
  <2>4. \/ dpc' = "dma_value" /\ \E v \in Values : toD' = <<Data(v)>>
        \/ dpc' = "handler" /\ toD' = <<>>
    BY <1>1, <2>2, <2>3, Zenon
  <2>5. HandlerInv' /\ dpc' \in {"dma_value", "handler"}
    BY <1>1, <2>2, <2>4, TrailsShort, Zenon DEF HandlerInv, qemuVars, history
  <2>. QED
    BY <1>1, <1>3, <1>4, <1>5, <1>7, <2>1, <2>5, Zenon DEF WireInv, qemuVars, history
<1>. QED
  BY <1>6, <1>7, Zenon

\* The daemon's side of a DMA_WRITE.
LEMMA DmaWriteIntoStep ==
  ASSUME WireInv, dma_write
  PROVE  WireInv'
<1>1. UNCHANGED <<qemuVars, guestVars, dfd, peer, backlog, reg, ops, crashes, history>>
  BY Zenon DEF dma_write
<1>2. AccessInv' /\ BacklogInv'
  BY <1>1, Zenon DEF WireInv, AccessInv, BacklogInv, qemuVars, history
<1>3. ASSUME dpc = "dma_write", NEW v \in Values, dma_write_data(v), UNCHANGED toD
      PROVE  WireInv'
  <2>1. dfd /\ peer /\ sockfd /\ ~stale /\ HandlerInv /\ toQ' = Append(toQ, Data(v)) /\ dpc' = "dma_ack"
    BY <1>3, ServingFacts, Zenon DEF dma_write_data, Write
  <2>2. /\ carried /\ toD = <<>>
        /\ \/ qpc = "service" /\ Trails(toQ, <<Header("DMA_WRITE")>>)
           \/ qpc = "dma_data" /\ toQ = <<>>
    BY <1>3, <2>1, Zenon DEF HandlerInv
  <2>3. Data(v) \in Items /\ Header("DMA_WRITE") \in Items /\ toQ \in Seq(Items)
    BY ItemFacts, Zenon DEF Kinds, WireInv, TypeOK
  <2>4. toQ' \in Seq(Items)
    BY <2>1, <2>3, TrailsAppend, Zenon
  <2>5. \/ qpc = "service" /\ Trails(toQ', <<Header("DMA_WRITE"), Data(v)>>)
        \/ qpc = "dma_data" /\ toQ' = <<Data(v)>>
    BY <2>1, <2>2, <2>3, TrailsAppend, ShortStreams, Zenon
  <2>6. TypeOK'
    BY <1>1, <1>3, <2>4, Zenon DEF WireInv, TypeOK, qemuVars, guestVars, history
  <2>7. QemuStream' /\ HandlerInv'
    BY <1>1, <1>3, <2>1, <2>2, <2>5, Zenon DEF QemuStream, HandlerInv, qemuVars, history
  <2>. QED
    BY <1>1, <1>2, <2>1, <2>6, <2>7, Zenon DEF WireInv, qemuVars, history
<1>4. CASE dpc = "dma_ack" /\ Read("ERROR") /\ dpc' = "handler" /\ UNCHANGED toQ
  <2>1. toD # <<>> /\ toD' = Tail(toD) /\ dfd /\ peer /\ sockfd /\ ~stale /\ HandlerInv
    BY <1>4, ServingFacts, Zenon DEF Read, OrphanInv
  <2>2. qpc = "service" /\ carried /\ toD = <<Header("ERROR")>> /\ toQ = <<>>
    BY <1>4, <2>1, Zenon DEF HandlerInv
  <2>3. Header("ERROR") \in Items
    BY ItemFacts, Zenon DEF Kinds
  <2>4. toD' = <<>> /\ <<>> \in Seq(Items)
    BY <2>1, <2>2, <2>3, ShortStreams, Zenon
  <2>5. TypeOK'
    BY <1>1, <1>4, <2>4, Zenon DEF WireInv, TypeOK, qemuVars, guestVars, history
  <2>6. QemuStream' /\ HandlerInv'
    BY <1>1, <1>4, <2>2, <2>4, TrailsShort, Zenon DEF QemuStream, HandlerInv, qemuVars, history
  <2>. QED
    BY <1>1, <1>2, <1>4, <2>1, <2>5, <2>6, Zenon DEF WireInv, qemuVars, history
<1>. QED
  BY <1>3, <1>4, Zenon DEF dma_write

\* The daemon's end goes away, and QEMU's stays as it is.
LEMMA CloseClientStep ==
  ASSUME WireInv, dpc # "accept", CloseClient,
         UNCHANGED <<qemuVars, guestVars, peer, toD, toQ, backlog, reg, ops, crashes, history>>
  PROVE  WireInv'
<1>1. TypeOK'
  BY Zenon DEF WireInv, TypeOK, CloseClient, qemuVars, guestVars, history
<1>2. AccessInv' /\ BacklogInv' /\ (peer => QemuStream)'
  BY Zenon DEF WireInv, AccessInv, BacklogInv, QemuStream, qemuVars, history
<1>. QED
  BY <1>1, <1>2, Zenon DEF WireInv, CloseClient, qemuVars

\* The daemon's process ends, and with it a connection in the listen queue.
LEMMA DieStep ==
  ASSUME WireInv, Die, crashes' \in 0 .. MaxCrashes,
         UNCHANGED <<qemuVars, guestVars, toD, reg, ops, history>>
  PROVE  WireInv'
<1>1. toQ' = toQ
  BY Zenon DEF WireInv, Die
<1>2. TypeOK'
  <2>1. <<>> \in Seq(Items)
    OBVIOUS
  <2>. QED
    BY <1>1, <2>1, Zenon DEF WireInv, TypeOK, Die, qemuVars, guestVars, history
<1>3. AccessInv' /\ BacklogInv'
  BY Zenon DEF WireInv, AccessInv, BacklogInv, Die, qemuVars, history
<1>4. ASSUME peer' PROVE QemuStream'
  <2>1. sockfd
    BY <1>4, Zenon DEF Die
  <2>2. CASE peer
    <3>1. QemuStream
      BY <2>2, Zenon DEF WireInv
    <3>. QED
      BY <1>1, <3>1, Zenon DEF QemuStream, qemuVars, history
  <2>3. CASE ~peer
    <3>1. qpc \in {"reply", "payload", "service"} /\ toQ = <<>>
      BY <2>1, <2>3, Zenon DEF WireInv, BacklogInv
    <3>. QED
      BY <1>1, <3>1, Zenon DEF QemuStream, qemuVars
  <2>. QED
    BY <2>2, <2>3, Zenon
<1>5. (~sockfd => ~peer)' /\ (~peer => toQ = <<>>)' /\ ~dfd' /\ dpc' = "down"
  BY <1>1, Zenon DEF WireInv, Die, qemuVars
<1>. QED
  BY <1>2, <1>3, <1>4, <1>5, Zenon DEF WireInv

\* WireInv is preserved by every step.
LEMMA WireStep == WireInv /\ [Next]_vars => WireInv'
<1>. SUFFICES ASSUME WireInv, [Next]_vars PROVE WireInv'
  BY Zenon
<1>1. CASE Guest
  BY <1>1, GuestStep, Zenon DEF Guest
<1>2. CASE Qemu
  BY <1>2, PayloadStep, ReplyStep, EofStep, AckStep, IrqStep, DmaReadStep, DmaWriteStep,
     DmaDataStep, DmaEndStep, Zenon DEF Qemu
<1>3. CASE handler_fails
  BY <1>3, CloseClientStep, Zenon DEF handler_fails
<1>4. CASE dma_eof
  <2>1. CASE CloseClient /\ UNCHANGED <<peer, toQ, backlog>>
    BY <1>4, <2>1, CloseClientStep, Zenon DEF dma_eof
  <2>2. CASE Die
    BY <1>4, <2>2, DieStep, Zenon DEF dma_eof, WireInv, TypeOK
  <2>. QED
    BY <1>4, <2>1, <2>2, Zenon DEF dma_eof
<1>5. CASE Daemon
  BY <1>3, <1>4, <1>5, AcceptStep, RequestStep, ReadReplyStep, ValueStep, HandlerStep,
     DmaReadIntoStep, DmaWriteIntoStep, Zenon DEF Daemon
<1>6. CASE DaemonCrash
  <2>1. crashes' \in 0 .. MaxCrashes
    BY <1>6, WireAssumption DEF DaemonCrash, WireInv, TypeOK, WireAssumption
  <2>. QED
    BY <1>6, <2>1, DieStep, Zenon DEF DaemonCrash
<1>7. CASE DaemonStart
  <2>1. /\ UNCHANGED <<qemuVars, guestVars, wireVars, reg, ops, crashes, history>>
        /\ dpc = "down" /\ dpc' = "accept" /\ ~dfd
    BY <1>7, Zenon DEF DaemonStart, WireInv
  <2>2. TypeOK'
    BY <2>1, Zenon DEF WireInv, TypeOK, qemuVars, guestVars, wireVars, history
  <2>3. AccessInv' /\ BacklogInv' /\ (peer => QemuStream)'
    BY <2>1, Zenon DEF WireInv, AccessInv, BacklogInv, QemuStream, qemuVars, wireVars, history
  <2>. QED
    BY <2>1, <2>2, <2>3, Zenon DEF WireInv, qemuVars, wireVars
<1>8. CASE UNCHANGED vars
  <2>1. TypeOK'
    BY <1>8, Zenon DEF WireInv, TypeOK, vars, qemuVars, guestVars, wireVars, daemonVars, history
  <2>2. AccessInv' /\ BacklogInv' /\ (peer => QemuStream)'
    BY <1>8, Zenon DEF WireInv, AccessInv, BacklogInv, QemuStream, vars, qemuVars, wireVars, history
  <2>3. (dfd /\ peer /\ dpc = "header" => ServeInv)' /\ (dfd /\ ~peer => OrphanInv)'
    BY <1>8, Zenon DEF WireInv, ServeInv, OrphanInv, vars, qemuVars, wireVars, daemonVars, history
  <2>4. (dfd /\ peer /\ dpc # "header" => HandlerInv)'
    BY <1>8, Zenon DEF WireInv, HandlerInv, vars, qemuVars, wireVars, daemonVars, history
  <2>. QED
    BY <1>8, <2>1, <2>2, <2>3, <2>4, Zenon DEF WireInv, vars, qemuVars, wireVars, daemonVars, history
<1>. QED
  BY <1>1, <1>2, <1>5, <1>6, <1>7, <1>8, Zenon DEF Next

\* The inductive invariant: in every behaviour the two streams hold exactly what the
\* two ends still have to say.
THEOREM WireInvAlways == Spec => []WireInv
BY WireInit, WireStep, PTL DEF Spec

-----------------------------------------------------------------------------
(* The two sides are in step.                                              *)

\* What the invariant says of both streams is what their readers expect.
LEMMA InStepFromInv == WireInv => InStep
<1>. SUFFICES ASSUME WireInv PROVE InStep
  BY Zenon
<1>1. \A k \in Kinds : Header(k) \in Items /\ Header(k).kind = k
  BY ItemFacts, Zenon
<1>2. \A v \in Values : Data(v) \in Items /\ Data(v).kind = "DATA"
  BY ItemFacts, Zenon
<1>3. \A x \in Items : Head(<<x>>) = x /\ \A y \in Items : Head(<<x, y>>) = x
  BY ShortStreams, Zenon
<1>4. ASSUME sockfd, peer, toQ # <<>> PROVE Head(toQ).kind \in QemuExpects
  <2>1. QemuStream /\ taken \in Values /\ toQ \in Seq(Items)
    BY <1>4, Zenon DEF WireInv, TypeOK
  <2>2. CASE qpc = "service"
    <3>1. Head(toQ).kind \in {"ERROR", "IRQ_ASSERT", "IRQ_DEASSERT", "DMA_READ", "DMA_WRITE"}
      BY <1>4, <2>1, <2>2, ServiceFacts, StreamHead, Zenon
    <3>. QED
      BY <2>2, <3>1, Zenon DEF QemuExpects
  <2>3. CASE qpc = "reply"
    <3>1. "MMIO_READ_REPLY" \in Kinds
      BY Zenon DEF Kinds
    <3>2. Head(toQ) = Header("MMIO_READ_REPLY")
      BY <1>1, <1>2, <1>3, <1>4, <2>1, <2>3, <3>1, Zenon DEF QemuStream
    <3>. QED
      BY <1>1, <2>3, <3>1, <3>2, Zenon DEF QemuExpects
  <2>4. CASE qpc \in {"value", "dma_data"}
    <3>1. \E v \in Values : toQ = <<Data(v)>>
      BY <1>4, <2>1, <2>4, Zenon DEF QemuStream
    <3>2. Head(toQ).kind = "DATA"
      BY <1>2, <1>3, <3>1, Zenon
    <3>. QED
      BY <2>4, <3>2, Zenon DEF QemuExpects
  <2>5. qpc \notin {"idle", "payload", "dma_end"}
    BY <1>4, <2>1, Zenon DEF QemuStream
  <2>. QED
    BY <2>2, <2>3, <2>4, <2>5, Zenon DEF WireInv, AccessInv
<1>5. ASSUME dfd, toD # <<>> PROVE Head(toD).kind \in DaemonExpects
  <2>1. dpc \notin {"accept", "down"}
    BY <1>5, Zenon DEF WireInv
  <2>2. {"MMIO_READ", "MMIO_WRITE", "DMA_READ_REPLY", "ERROR"} \subseteq Kinds
    BY Zenon DEF Kinds
  <2>3. qpc \in {"payload", "service"} => access.val \in Values
    BY AccessFacts, Zenon DEF WireInv, AccessInv, TypeOK
  <2>4. CASE dpc = "header"
    <3>1. ServeInv
      BY <2>1, <2>4, ServingFacts, Zenon
    <3>2. Head(toD) = Header("MMIO_READ") \/ Head(toD) = Header("MMIO_WRITE")
      BY <1>1, <1>2, <1>3, <1>5, <2>2, <2>3, <3>1, ZenonT(40) DEF ServeInv
    <3>. QED
      BY <1>1, <2>2, <2>4, <3>2, Zenon DEF DaemonExpects
  <2>5. CASE dpc \in {"payload", "dma_value"}
    <3>1. \E v \in Values : toD = <<Data(v)>>
      BY <1>5, <2>1, <2>3, <2>5, ServingFacts, Zenon DEF HandlerInv, OrphanInv
    <3>2. Head(toD).kind = "DATA"
      BY <1>2, <1>3, <3>1, Zenon
    <3>. QED
      BY <2>5, <3>2, Zenon DEF DaemonExpects
  <2>6. CASE dpc = "dma_reply"
    <3>1. \/ toD = <<Header("DMA_READ_REPLY")>>
          \/ \E v \in Values : toD = <<Header("DMA_READ_REPLY"), Data(v)>>
      BY <1>5, <2>1, <2>6, ServingFacts, Zenon DEF HandlerInv, OrphanInv
    <3>2. Head(toD) = Header("DMA_READ_REPLY")
      BY <1>1, <1>2, <1>3, <2>2, <3>1, Zenon
    <3>. QED
      BY <1>1, <2>2, <2>6, <3>2, Zenon DEF DaemonExpects
  <2>7. CASE dpc = "dma_ack"
    <3>1. toD = <<Header("ERROR")>>
      BY <1>5, <2>1, <2>7, ServingFacts, Zenon DEF HandlerInv, OrphanInv
    <3>2. Head(toD) = Header("ERROR")
      BY <1>1, <1>3, <2>2, <3>1, Zenon
    <3>. QED
      BY <1>1, <2>2, <2>7, <3>2, Zenon DEF DaemonExpects
  <2>8. dpc \in {"header", "payload", "dma_reply", "dma_value", "dma_ack"}
    <3>1. CASE peer
      <4>1. CASE dpc # "header"
        <5>1. HandlerInv /\ dpc \in {"reply", "value", "payload", "handler", "raise", "dma_reply",
                                     "dma_value", "dma_write", "dma_ack"}
          BY <1>5, <3>1, <4>1, Zenon DEF WireInv
        <5>. QED
          BY <1>5, <5>1, Zenon DEF HandlerInv
      <4>. QED
        BY <4>1, Zenon
    <3>2. CASE ~peer
      BY <2>1, <3>2, ServingFacts, Zenon DEF OrphanInv
    <3>. QED
      BY <3>1, <3>2, Zenon
  <2>. QED
    BY <2>4, <2>5, <2>6, <2>7, <2>8, Zenon
<1>. QED
  BY <1>4, <1>5, Zenon DEF InStep

\* Whatever crashes and failures a connection sees, neither side reads a payload as a
\* header, or a message that belongs to another exchange.
THEOREM InStepAlways == Spec => []InStep
BY WireInvAlways, InStepFromInv, PTL

-----------------------------------------------------------------------------
(* The protocol implements RegisterBus.                                    *)

\* axi_close loses the access, if there is one.
LEMMA CloseLoses ==
  ASSUME axi_close, UNCHANGED <<reg, mem, line>>
  PROVE  Bus!Next
BY Zenon DEF axi_close, EndAccess, Bus!Next, Bus!Lose

\* QEMU's steps are steps of RegisterBus, or invisible to it.
LEMMA QemuImplements ==
  ASSUME WireInv, Guest \/ Qemu
  PROVE  Bus!Next \/ UNCHANGED Bus!vars
<1>1. CASE Guest
  <2>1. PICK a \in Accesses : axi_send_header(a)
    BY <1>1, Zenon DEF Guest
  <2>2. access = None /\ UNCHANGED <<reg, mem, line>>
    BY <2>1, Zenon DEF axi_send_header, WireInv, AccessInv, guestVars, daemonVars
  <2>3. CASE access' = a /\ UNCHANGED <<result, carried, taken, stale>>
    BY <2>2, <2>3, Zenon DEF Bus!Next, Bus!Start
  <2>. QED
    BY <2>1, <2>2, <2>3, CloseLoses, Zenon DEF axi_send_header
<1>2. CASE send_payload
  BY <1>2, CloseLoses, Zenon DEF send_payload, Bus!vars, guestVars, daemonVars
<1>3. CASE read_reply
  <2>1. UNCHANGED <<reg, mem, line, stale>>
    BY <1>3, Zenon DEF read_reply, guestVars, daemonVars
  <2>2. CASE UNCHANGED <<access, result, carried, taken>>
    BY <2>1, <2>2, Zenon DEF Bus!vars
  <2>3. CASE qpc = "value" /\ Receive("DATA") /\ EndAccess(Head(toQ).val)
    <3>1. QemuStream /\ access # None /\ access.op = "read"
      BY <2>3, ConnectedFacts, Zenon DEF WireInv, AccessInv
    <3>2. carried /\ toQ = <<Data(taken)>>
      BY <2>3, <3>1, Zenon DEF QemuStream, Receive
    <3>3. Data(taken) \in Items /\ Data(taken).val = taken
      BY ItemFacts, Zenon DEF WireInv, TypeOK
    <3>4. Head(toQ).val = taken
      BY <3>2, <3>3, ShortStreams, Zenon
    <3>. QED
      BY <2>1, <2>3, <3>1, <3>2, <3>4, Zenon DEF Bus!Next, Bus!Return, EndAccess
  <2>. QED
    BY <1>3, <2>2, <2>3, Zenon DEF read_reply
<1>4. CASE read_eof
  BY <1>4, CloseLoses, Zenon DEF read_eof, guestVars, daemonVars
<1>5. CASE service_ack
  <2>1. qpc = "service" /\ toQ # <<>> /\ EndAccess(access.val) /\ UNCHANGED <<reg, mem, line, stale>>
    BY <1>5, Zenon DEF service_ack, Receive, guestVars, daemonVars
  <2>2. carried /\ access # None /\ access.op = "write"
    BY <2>1, ServiceFacts, Zenon DEF WireInv, AccessInv
  <2>. QED
    BY <2>1, <2>2, Zenon DEF Bus!Next, Bus!Return, EndAccess
<1>6. CASE service_irq
  <2>1. /\ qpc = "service" /\ toQ # <<>> /\ line' \in BOOLEAN
        /\ UNCHANGED <<access, carried, taken, reg, stale, mem, result>>
    BY <1>6, Zenon DEF service_irq, Receive, qemuVars, daemonVars, history
  <2>2. carried /\ access # None /\ access.op = "write" /\ mem \in Values
    BY <2>1, ServiceFacts, Zenon DEF WireInv, AccessInv, TypeOK
  <2>. QED
    BY <2>1, <2>2, Zenon DEF Bus!Next, Bus!Reach
<1>7. CASE service_dma_read
  BY <1>7, CloseLoses, Zenon DEF service_dma_read, Bus!vars, qemuVars, guestVars, daemonVars, history
<1>8. CASE service_dma_write
  BY <1>8, Zenon DEF service_dma_write, Bus!vars, guestVars, daemonVars, history
<1>9. CASE service_dma_data
  <2>1. qpc = "dma_data" /\ toQ # <<>> /\ UNCHANGED <<reg, line>>
    BY <1>9, Zenon DEF service_dma_data, Receive, daemonVars
  <2>2. CASE axi_close /\ UNCHANGED mem
    BY <2>1, <2>2, CloseLoses, Zenon
  <2>3. CASE mem' = Head(toQ).val /\ UNCHANGED <<access, result, history>>
    <3>1. QemuStream /\ access # None /\ access.op = "write" /\ line \in BOOLEAN
      BY <2>1, ConnectedFacts, Zenon DEF WireInv, AccessInv, TypeOK
    <3>2. carried /\ \E v \in Values : toQ = <<Data(v)>>
      BY <2>1, <3>1, Zenon DEF QemuStream
    <3>3. PICK v \in Values : toQ = <<Data(v)>>
      BY <3>2, Zenon
    <3>4. Data(v) \in Items /\ Data(v).val = v
      BY ItemFacts, Zenon
    <3>5. Head(toQ).val = v
      BY <3>3, <3>4, ShortStreams, Zenon
    <3>. QED
      BY <2>1, <2>3, <3>1, <3>2, <3>5, Zenon DEF Bus!Next, Bus!Reach, history
  <2>. QED
    BY <1>9, <2>2, <2>3, Zenon DEF service_dma_data
<1>10. CASE service_dma_end
  BY <1>10, CloseLoses, Zenon DEF service_dma_end, Bus!vars, guestVars, daemonVars, history
<1>. QED
  BY <1>1, <1>2, <1>3, <1>4, <1>5, <1>6, <1>7, <1>8, <1>9, <1>10, Zenon DEF Qemu

\* The daemon's steps are steps of RegisterBus, or invisible to it.
LEMMA DaemonImplements ==
  ASSUME WireInv, Daemon \/ DaemonCrash \/ DaemonStart
  PROVE  Bus!Next \/ UNCHANGED Bus!vars
<1>1. CASE accept
  BY <1>1, Zenon DEF accept, connect, Bus!Next, Bus!Reset, qemuVars, guestVars
<1>2. CASE serve_request
  <2>1. /\ UNCHANGED <<access, reg, stale, mem, line, result>>
        /\ dpc = "header" /\ toD # <<>>
        /\ \/ Head(toD).kind = "MMIO_READ" /\ taken' = reg /\ carried' = TRUE
           \/ UNCHANGED <<taken, carried>>
    BY <1>2, Zenon DEF serve_request, Read, qemuVars, guestVars
  <2>2. ASSUME Head(toD).kind = "MMIO_READ"
        PROVE  access # None /\ access.op = "read" /\ ~carried /\ ~stale
    <3>1. ServeInv /\ ~stale
      BY <2>1, ServingFacts, Zenon
    <3>2. Header("MMIO_WRITE") \in Items /\ Header("MMIO_WRITE").kind = "MMIO_WRITE"
      BY ItemFacts, Zenon DEF Kinds
    <3>3. toD # <<Header("MMIO_WRITE")>>
      BY <2>2, <3>2, ShortStreams, Zenon
    <3>4. qpc = "service" => toD # <<Header("MMIO_WRITE"), Data(access.val)>>
      <4>1. qpc = "service" => Data(access.val) \in Items
        BY ItemFacts, AccessFacts, Zenon DEF WireInv, TypeOK, AccessInv
      <4>. QED
        BY <2>2, <3>2, <4>1, ShortStreams, Zenon
    <3>5. qpc = "reply" /\ ~carried
      BY <2>1, <3>1, <3>3, <3>4, Zenon DEF ServeInv
    <3>. QED
      BY <3>1, <3>5, Zenon DEF WireInv, AccessInv
  <2>. QED
    BY <2>1, <2>2, Zenon DEF Bus!Next, Bus!CarryOut, Bus!vars
<1>3. CASE write_read_reply \/ handler_calls \/ raise_irq \/ dma_read_into \/ dma_write \/ write_ack
           \/ handler_fails \/ dma_eof \/ DaemonCrash \/ DaemonStart
  BY <1>3, Zenon DEF write_read_reply, handler_calls, raise_irq, dma_read_into, dma_write, write_ack,
     handler_fails, dma_eof, DaemonCrash, DaemonStart, Bus!vars, qemuVars, guestVars, history
<1>4. CASE read_value
  <2>1. /\ UNCHANGED <<access, taken, stale, mem, line, result>> /\ carried' = TRUE
        /\ dpc = "payload" /\ toD # <<>> /\ reg' = Head(toD).val
    BY <1>4, Zenon DEF read_value, Read, qemuVars, guestVars
  <2>2. HandlerInv /\ ~stale
    BY <2>1, ServingFacts, Zenon
  <2>3. qpc = "service" /\ ~carried /\ toD = <<Data(access.val)>>
    BY <2>1, <2>2, Zenon DEF HandlerInv
  <2>4. access # None /\ access.op = "write" /\ access.val \in Values
    BY <2>3, AccessFacts, Zenon DEF WireInv, AccessInv, TypeOK
  <2>5. Data(access.val) \in Items /\ Data(access.val).val = access.val
    BY <2>4, ItemFacts, Zenon
  <2>6. reg' = access.val
    BY <2>1, <2>3, <2>5, ShortStreams, Zenon
  <2>. QED
    BY <2>1, <2>2, <2>3, <2>4, <2>6, Zenon DEF Bus!Next, Bus!CarryOut
<1>. QED
  BY <1>1, <1>2, <1>3, <1>4, Zenon DEF Daemon

\* QEMU and the daemon together behave as a register bus: an access is carried out at
\* most once and only on a device that has lost none since its reset, and one that
\* returns a value was carried out.
THEOREM ImplementsBusAlways == Spec => ImplementsBus
<1>1. Init => Bus!Init
  BY Zenon DEF Init, Bus!Init
<1>2. WireInv /\ [Next]_vars => [Bus!Next]_(Bus!vars)
  <2>1. ASSUME UNCHANGED vars PROVE UNCHANGED Bus!vars
    BY <2>1, Zenon DEF vars, guestVars, qemuVars, daemonVars, history, Bus!vars
  <2>. QED
    BY <2>1, QemuImplements, DaemonImplements, Zenon DEF Next
<1>. QED
  BY <1>1, <1>2, WireInvAlways, PTL DEF Spec, ImplementsBus, Bus!Spec

=============================================================================

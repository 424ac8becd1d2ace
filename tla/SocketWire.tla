----------------------------- MODULE SocketWire -----------------------------
(***************************************************************************)
(* The axi socket protocol: QEMU's axi device (axi_read, axi_write and     *)
(* axi_service_backend of the patch) and a daemon's serve_connection       *)
(* (fabrics/qemu_socket.c), message by message.                            *)
(*                                                                         *)
(* A register access is a request and its reply on one byte stream, and    *)
(* during a write the roles change: the device's handler sends DMA and     *)
(* interrupt messages and QEMU serves them until the acknowledgement, for  *)
(* which the protocol uses the kind ERROR, as it does for the end of a     *)
(* DMA_WRITE.  Headers and payloads are separate items of the streams.     *)
(* Register accesses hold QEMU's global lock, so there is one at a time.   *)
(*                                                                         *)
(* The daemon may crash between any two items, and QEMU closes the socket  *)
(* when a DMA fails.  A connection that QEMU makes while the daemon still  *)
(* serves the one before waits in the listen queue.                        *)
(***************************************************************************)
EXTENDS Naturals, Sequences

CONSTANTS
  Values,      \* contents of a register and of guest memory
  Zero,        \* what a read returns that fails, and a register after a reset
  None,        \* no access
  MaxOps,      \* bound: DMA and interrupt operations of one handler
  MaxCrashes   \* bound: crashes of the daemon

ASSUME WireAssumption ==
  /\ Zero \in Values /\ None \notin Values
  /\ MaxOps \in Nat /\ MaxCrashes \in Nat

VARIABLES
  \* QEMU and its guest.
  access,    \* the register access that is going on
  sockfd,    \* s->sockfd >= 0
  qpc,       \* where axi_read, axi_write or axi_service_backend is
  mem, line, \* guest memory, and the level of the interrupt line
  result,    \* what the last access returned
  \* The connection the daemon serves or has served last.
  dfd,       \* is the daemon's end open?
  peer,      \* is QEMU's end open?
  toD, toQ,  \* items on their way to the daemon and to QEMU
  backlog,   \* items on a connection that waits in the listen queue
  \* Daemon.
  dpc,       \* where it is
  reg,       \* the device's register
  ops,       \* operations of the handler so far
  crashes,
  \* History.
  carried,   \* has the access been carried out?
  taken,     \* what a read took from the register
  stale      \* has an access been lost since the device was initialised?

guestVars  == <<mem, line>>
qemuVars   == <<access, sockfd, qpc, result>>
wireVars   == <<dfd, peer, toD, toQ, backlog>>
daemonVars == <<dpc, reg, ops, crashes>>
history    == <<carried, taken, stale>>
vars == <<guestVars, qemuVars, wireVars, daemonVars, history>>

Accesses == [op : {"read"}, val : {Zero}] \cup [op : {"write"}, val : Values]
ASSUME AccessAssumption == None \notin Accesses

\* struct axi_header and the payload that may follow it.
Header(kind) == [kind |-> kind, val |-> Zero]
Data(v) == [kind |-> "DATA", val |-> v]

Init ==
  /\ access = None /\ sockfd = FALSE /\ qpc = "idle" /\ result = None
  /\ mem \in Values /\ line = FALSE
  /\ dfd = FALSE /\ peer = FALSE /\ toD = <<>> /\ toQ = <<>> /\ backlog = <<>>
  /\ dpc = "accept" /\ reg = Zero /\ ops = 0 /\ crashes = 0
  /\ carried = FALSE /\ taken = Zero /\ stale = FALSE

-----------------------------------------------------------------------------
(* QEMU.                                                                   *)

\* The access returns to the guest.
EndAccess(v) ==
  /\ access' = None /\ qpc' = "idle" /\ result' = v
  /\ carried' = FALSE /\ taken' = Zero

\* Mutated form: the end of the stream is taken for an interrupted call.
axi_close_retry == UNCHANGED <<access, sockfd, qpc, result, peer, toQ, history>>

\* Mutated form: s->sockfd keeps the descriptor that has been closed.
axi_close_kept ==
  /\ peer' = FALSE
  /\ toQ' = <<>>
  /\ stale' = TRUE
  /\ EndAccess(Zero)
  /\ UNCHANGED sockfd

\* axi_close, and a read returns 0.  Whatever was on its way to QEMU is gone.
axi_close ==
  /\ sockfd' = FALSE
  /\ peer' = FALSE
  /\ toQ' = <<>>
  /\ stale' = TRUE
  /\ EndAccess(Zero)

\* axi_io_all to the daemon: onto the connection it serves or into the listen queue.
Send(item) ==
  IF peer THEN toD' = Append(toD, item) /\ UNCHANGED backlog
          ELSE backlog' = Append(backlog, item) /\ UNCHANGED toD

\* The daemon has closed the connection: a write fails, and so does a read after the
\* last item.
Broken == sockfd /\ peer /\ ~dfd

\* axi_io_all from the daemon.
Receive(kind) == toQ # <<>> /\ Head(toQ).kind = kind /\ toQ' = Tail(toQ)

\* axi_connect, which needs a daemon that listens, and axi_send_header.
axi_send_header(a) ==
  /\ qpc = "idle"
  /\ \/ /\ IF sockfd THEN ~Broken ELSE dpc # "down"
        /\ access' = a
        /\ qpc' = IF a.op = "read" THEN "reply" ELSE "payload"
        /\ sockfd' = TRUE
        /\ Send(Header(IF a.op = "read" THEN "MMIO_READ" ELSE "MMIO_WRITE"))
        /\ UNCHANGED <<result, peer, toQ, carried, taken, stale>>
     \/ /\ IF sockfd THEN Broken ELSE dpc = "down"
        /\ axi_close
        /\ UNCHANGED <<toD, backlog>>
  /\ UNCHANGED <<guestVars, dfd, daemonVars>>

\* axi_write: the value.
send_payload ==
  /\ qpc = "payload"
  /\ \/ /\ ~Broken
        /\ Send(Data(access.val))
        /\ qpc' = "service"
        /\ UNCHANGED <<access, sockfd, result, peer, toQ, carried, taken, stale>>
     \/ Broken /\ axi_close /\ UNCHANGED <<toD, backlog>>
  /\ UNCHANGED <<guestVars, dfd, daemonVars>>

\* axi_read: the header and the value of the reply.
read_reply ==
  /\ \/ qpc = "reply" /\ Receive("MMIO_READ_REPLY") /\ qpc' = "value"
        /\ UNCHANGED <<access, result, carried, taken>>
     \/ qpc = "value" /\ Receive("DATA") /\ EndAccess(Head(toQ).val)
  /\ UNCHANGED <<sockfd, guestVars, dfd, peer, toD, backlog, daemonVars, stale>>

\* Any read of QEMU's at the end of the stream.
read_eof ==
  /\ qpc \in {"reply", "value", "service", "dma_data"}
  /\ Broken /\ toQ = <<>>
  /\ axi_close
  /\ UNCHANGED <<toD, backlog, guestVars, dfd, daemonVars>>

\* axi_service_backend: the acknowledgement ends the access.
service_ack ==
  /\ qpc = "service" /\ Receive("ERROR") /\ EndAccess(access.val)
  /\ UNCHANGED <<sockfd, guestVars, dfd, peer, toD, backlog, daemonVars, stale>>

service_irq ==
  /\ qpc = "service"
  /\ \/ Receive("IRQ_ASSERT") /\ line' = TRUE
     \/ Receive("IRQ_DEASSERT") /\ line' = FALSE
  /\ UNCHANGED <<qemuVars, mem, dfd, peer, toD, backlog, daemonVars, history>>

\* DMA_READ: header and data of the reply; a failed access to guest memory, or a
\* connection whose other end is gone, closes the socket.
service_dma_read ==
  /\ qpc = "service" /\ toQ # <<>> /\ Head(toQ).kind = "DMA_READ"
  /\ \/ /\ ~Broken
        /\ toQ' = Tail(toQ)
        /\ toD' = toD \o <<Header("DMA_READ_REPLY"), Data(mem)>>
        /\ UNCHANGED <<qemuVars, peer, history>>
     \/ axi_close /\ toD' \in {toD, Append(toD, Header("DMA_READ_REPLY"))}
  /\ UNCHANGED <<guestVars, dfd, backlog, daemonVars>>

\* DMA_WRITE: the data is read, written and acknowledged.
service_dma_write ==
  /\ qpc = "service" /\ Receive("DMA_WRITE")
  /\ qpc' = "dma_data"
  /\ UNCHANGED <<access, sockfd, result, guestVars, dfd, peer, toD, backlog, daemonVars,
                 history>>

service_dma_data ==
  /\ qpc = "dma_data"
  /\ \/ /\ Receive("DATA")
        /\ mem' = Head(toQ).val
        /\ qpc' = "dma_end"
        /\ UNCHANGED <<access, sockfd, result, peer, history>>
     \/ toQ # <<>> /\ axi_close /\ UNCHANGED mem
  /\ UNCHANGED <<line, dfd, toD, backlog, daemonVars>>

service_dma_end ==
  /\ qpc = "dma_end"
  /\ \/ /\ ~Broken
        /\ toD' = Append(toD, Header("ERROR"))
        /\ qpc' = "service"
        /\ UNCHANGED <<access, sockfd, result, peer, toQ, history>>
     \/ Broken /\ axi_close /\ UNCHANGED toD
  /\ UNCHANGED <<guestVars, dfd, backlog, daemonVars>>

-----------------------------------------------------------------------------
(* Daemon: run_device and serve_connection.                                *)

\* Items to QEMU; the daemon's end is open, and so is QEMU's.
Write(item) == dfd /\ peer /\ toQ' = Append(toQ, item)

\* An item from QEMU.
Read(kind) == toD # <<>> /\ Head(toD).kind = kind /\ toD' = Tail(toD)

\* Mutated form: the device keeps its state over a reconnection.
connect_kept == UNCHANGED <<reg, stale>>

\* ops->connect initialises the device.
connect == reg' = Zero /\ stale' = FALSE

accept ==
  /\ dpc = "accept" /\ sockfd /\ ~peer
  /\ dfd' = TRUE /\ peer' = TRUE
  /\ toD' = backlog /\ backlog' = <<>> /\ toQ' = <<>>
  /\ connect
  /\ dpc' = "header" /\ ops' = 0
  /\ UNCHANGED <<qemuVars, guestVars, crashes, carried, taken>>

\* serve_connection reads a request.  A read is carried out at once.
serve_request ==
  /\ dpc = "header"
  /\ \/ /\ Read("MMIO_READ")
        /\ taken' = reg /\ carried' = TRUE
        /\ dpc' = "reply"
     \/ Read("MMIO_WRITE") /\ dpc' = "payload" /\ UNCHANGED <<taken, carried>>
  /\ UNCHANGED <<qemuVars, guestVars, dfd, peer, toQ, backlog, reg, ops, crashes, stale>>

\* write_read_reply.
write_read_reply ==
  /\ \/ dpc = "reply" /\ Write(Header("MMIO_READ_REPLY")) /\ dpc' = "value"
     \/ dpc = "value" /\ Write(Data(reg)) /\ dpc' = "header"
  /\ UNCHANGED <<qemuVars, guestVars, dfd, peer, toD, backlog, reg, ops, crashes, history>>

\* read_value, and ops->write: the register changes, and the handler starts.
read_value ==
  /\ dpc = "payload" /\ Read("DATA")
  /\ reg' = Head(toD).val
  /\ carried' = TRUE
  /\ dpc' = "handler" /\ ops' = 0
  /\ UNCHANGED <<qemuVars, guestVars, dfd, peer, toQ, backlog, crashes, taken, stale>>

\* The handler calls fabric_dma_read_into, fabric_dma_write, fabric_lower_irq or
\* fabric_raise_irq.
handler_calls ==
  /\ dpc = "handler" /\ ops < MaxOps /\ ops' = ops + 1
  /\ \/ Write(Header("DMA_READ")) /\ dpc' = "dma_reply"
     \/ Write(Header("DMA_WRITE")) /\ dpc' = "dma_write"
     \/ Write(Header("IRQ_DEASSERT")) /\ dpc' \in {"handler", "raise"}
  /\ UNCHANGED <<qemuVars, guestVars, dfd, peer, toD, backlog, reg, crashes, history>>

raise_irq ==
  /\ dpc = "raise" /\ Write(Header("IRQ_ASSERT"))
  /\ dpc' = "handler"
  /\ UNCHANGED <<qemuVars, guestVars, dfd, peer, toD, backlog, reg, ops, crashes, history>>

\* fabric_dma_read_into: header and data of the reply.
dma_read_into ==
  /\ \/ dpc = "dma_reply" /\ Read("DMA_READ_REPLY") /\ dpc' = "dma_value"
     \/ dpc = "dma_value" /\ Read("DATA") /\ dpc' = "handler"
  /\ UNCHANGED <<qemuVars, guestVars, dfd, peer, toQ, backlog, reg, ops, crashes, history>>

\* Mutated form: the handler does not wait for the end of its write.
dma_write_data_async(v) == Write(Data(v)) /\ dpc' = "handler"

dma_write_data(v) == Write(Data(v)) /\ dpc' = "dma_ack"

\* fabric_dma_write: the data, and the wait for its acknowledgement.
dma_write ==
  /\ \/ dpc = "dma_write" /\ (\E v \in Values : dma_write_data(v)) /\ UNCHANGED toD
     \/ dpc = "dma_ack" /\ Read("ERROR") /\ dpc' = "handler" /\ UNCHANGED toQ
  /\ UNCHANGED <<qemuVars, guestVars, dfd, peer, backlog, reg, ops, crashes, history>>

\* The handler is done, and serve_connection acknowledges the write.
write_ack ==
  /\ dpc = "handler" /\ Write(Header("ERROR"))
  /\ dpc' = "header"
  /\ UNCHANGED <<qemuVars, guestVars, dfd, peer, toD, backlog, reg, ops, crashes, history>>

\* close(client_fd), back to accept.
CloseClient == dfd' = FALSE /\ dpc' = "accept"

\* The handler returns false: serve_connection gives up.
handler_fails ==
  /\ dpc = "handler"
  /\ CloseClient
  /\ UNCHANGED <<qemuVars, guestVars, peer, toD, toQ, backlog, reg, ops, crashes, history>>

\* The daemon's process ends, and with it every connection: the one it serves and one
\* in the listen queue.
Die ==
  /\ dfd' = FALSE /\ dpc' = "down"
  /\ peer' = sockfd
  /\ toQ' = IF peer THEN toQ ELSE <<>>
  /\ backlog' = <<>>

\* A DMA finds the end of the stream: the handler returns false, or goes on to its
\* next message and is killed by SIGPIPE.
dma_eof ==
  /\ dpc \in {"dma_reply", "dma_value", "dma_ack"}
  /\ ~peer /\ toD = <<>>
  /\ (CloseClient /\ UNCHANGED <<peer, toQ, backlog>>) \/ Die
  /\ UNCHANGED <<qemuVars, guestVars, toD, reg, ops, crashes, history>>

DaemonCrash ==
  /\ dpc # "down" /\ crashes < MaxCrashes
  /\ crashes' = crashes + 1
  /\ Die
  /\ UNCHANGED <<qemuVars, guestVars, toD, reg, ops, history>>

DaemonStart ==
  /\ dpc = "down"
  /\ dpc' = "accept"
  /\ UNCHANGED <<qemuVars, guestVars, wireVars, reg, ops, crashes, history>>

-----------------------------------------------------------------------------
Guest == \E a \in Accesses : axi_send_header(a)
Qemu ==
  \/ send_payload \/ read_reply \/ read_eof \/ service_ack \/ service_irq
  \/ service_dma_read \/ service_dma_write \/ service_dma_data
  \/ service_dma_end
Daemon ==
  \/ accept \/ serve_request \/ write_read_reply \/ read_value \/ handler_calls
  \/ raise_irq \/ dma_read_into \/ dma_write \/ write_ack \/ handler_fails \/ dma_eof

Next == Guest \/ Qemu \/ Daemon \/ DaemonCrash \/ DaemonStart

Spec == Init /\ [][Next]_vars

\* QEMU goes on with an access, and a daemon that runs goes on with what it does.
FairSpec == Spec /\ WF_vars(Qemu) /\ WF_vars(Daemon)

-----------------------------------------------------------------------------
(* Properties.                                                             *)

\* What QEMU and the daemon expect to read next.
QemuExpects ==
  CASE qpc = "reply" -> {"MMIO_READ_REPLY"}
    [] qpc \in {"value", "dma_data"} -> {"DATA"}
    [] qpc = "service" -> {"ERROR", "IRQ_ASSERT", "IRQ_DEASSERT", "DMA_READ", "DMA_WRITE"}
    [] OTHER -> {}
DaemonExpects ==
  CASE dpc = "header" -> {"MMIO_READ", "MMIO_WRITE"}
    [] dpc \in {"payload", "dma_value"} -> {"DATA"}
    [] dpc = "dma_reply" -> {"DMA_READ_REPLY"}
    [] dpc = "dma_ack" -> {"ERROR"}
    [] OTHER -> {}

\* Neither side ever takes a payload for a header, a reply for another's, or the
\* ERROR that ends a DMA_WRITE for the ERROR that ends the access: an item that
\* arrives is of a kind its reader expects, so the branches for unexpected kinds are
\* never taken, and nothing is left over for the next access.
InStep ==
  /\ sockfd /\ peer /\ toQ # <<>> => Head(toQ).kind \in QemuExpects
  /\ dfd /\ toD # <<>> => Head(toD).kind \in DaemonExpects

\* A register access always ends: QEMU, which holds its global lock meanwhile, and
\* the daemon never wait for each other, through nested DMA, failures and crashes.
EventuallyReturns == access # None ~> access = None

\* The protocol keeps the promises of RegisterBus.
Bus == INSTANCE RegisterBus

ImplementsBus == Bus!Spec

-----------------------------------------------------------------------------
(* The inductive invariant behind InStep and ImplementsBus.                *)

Kinds ==
  {"MMIO_READ", "MMIO_WRITE", "MMIO_READ_REPLY", "DMA_READ", "DMA_READ_REPLY", "DMA_WRITE",
   "IRQ_ASSERT", "IRQ_DEASSERT", "ERROR", "DATA"}
Items == [kind : Kinds, val : Values]
IrqItems == {Header("IRQ_ASSERT"), Header("IRQ_DEASSERT")}

\* The stream s is a number of interrupt messages and then last.
Trails(s, last) ==
  LET n == Len(s) - Len(last) IN
  /\ n >= 0
  /\ \A i \in 1 .. n : s[i] \in IrqItems
  /\ \A i \in 1 .. Len(last) : s[n + i] = last[i]

TypeOK ==
  /\ access \in Accesses \cup {None} /\ sockfd \in BOOLEAN /\ result \in Values \cup {None}
  /\ mem \in Values /\ line \in BOOLEAN
  /\ dfd \in BOOLEAN /\ peer \in BOOLEAN
  /\ toD \in Seq(Items) /\ toQ \in Seq(Items) /\ backlog \in Seq(Items)
  /\ reg \in Values /\ ops \in 0 .. MaxOps /\ crashes \in 0 .. MaxCrashes
  /\ carried \in BOOLEAN /\ taken \in Values /\ stale \in BOOLEAN

\* An access is going on exactly when QEMU is at a place of one.
AccessInv ==
  CASE qpc = "idle" -> access = None /\ ~carried /\ taken = Zero
    [] qpc \in {"reply", "value"} -> sockfd /\ access # None /\ access.op = "read"
    [] qpc \in {"payload", "service", "dma_data", "dma_end"} ->
         sockfd /\ access # None /\ access.op = "write"
    [] OTHER -> FALSE

\* A connection in the listen queue holds what QEMU has sent of its access, which
\* nobody has carried out; without one the queue is empty.
BacklogInv ==
  IF sockfd /\ ~peer
    THEN /\ ~carried /\ taken = Zero
         /\ \/ qpc = "reply" /\ backlog = <<Header("MMIO_READ")>>
            \/ qpc = "payload" /\ backlog = <<Header("MMIO_WRITE")>>
            \/ qpc = "service" /\ backlog = <<Header("MMIO_WRITE"), Data(access.val)>>
    ELSE backlog = <<>>

\* What may be on its way to QEMU, whether or not the daemon is still there.
QemuStream ==
  /\ qpc \in {"idle", "payload"} => toQ = <<>>
  /\ qpc = "reply" =>
       \/ toQ = <<>>
       \/ carried /\ toQ = <<Header("MMIO_READ_REPLY")>>
       \/ carried /\ toQ = <<Header("MMIO_READ_REPLY"), Data(taken)>>
  /\ qpc = "value" => carried /\ (toQ = <<>> \/ toQ = <<Data(taken)>>)
  /\ qpc = "service" =>
       \/ toQ = <<>>
       \/ /\ carried
          /\ \/ Trails(toQ, <<>>)
             \/ \E k \in {"DMA_READ", "DMA_WRITE", "ERROR"} : Trails(toQ, <<Header(k)>>)
             \/ \E v \in Values : Trails(toQ, <<Header("DMA_WRITE"), Data(v)>>)
  /\ qpc = "dma_data" => carried /\ (toQ = <<>> \/ \E v \in Values : toQ = <<Data(v)>>)
  /\ qpc = "dma_end" => carried /\ toQ = <<>>

\* A daemon that waits for a request, or has one before it.
ServeInv ==
  \/ qpc = "idle" /\ toD = <<>> /\ toQ = <<>>
  \/ qpc = "reply" /\ toD = <<Header("MMIO_READ")>> /\ toQ = <<>> /\ ~carried
  \/ qpc = "payload" /\ toD = <<Header("MMIO_WRITE")>> /\ ~carried
  \/ qpc = "service" /\ toD = <<Header("MMIO_WRITE"), Data(access.val)>> /\ toQ = <<>> /\ ~carried
  \/ qpc = "reply" /\ toD = <<>> /\ toQ = <<Header("MMIO_READ_REPLY"), Data(taken)>>
  \/ qpc = "value" /\ toD = <<>> /\ toQ = <<Data(taken)>>
  \/ qpc = "service" /\ toD = <<>> /\ Trails(toQ, <<Header("ERROR")>>) /\ carried

\* A daemon that carries out a request: both streams, and where QEMU is.
HandlerInv ==
  /\ dpc = "reply" => qpc = "reply" /\ toD = <<>> /\ toQ = <<>> /\ carried /\ taken = reg
  /\ dpc = "value" =>
       /\ toD = <<>> /\ carried /\ taken = reg
       /\ \/ qpc = "reply" /\ toQ = <<Header("MMIO_READ_REPLY")>>
          \/ qpc = "value" /\ toQ = <<>>
  /\ dpc = "payload" =>
       /\ ~carried /\ toQ = <<>>
       /\ \/ qpc = "payload" /\ toD = <<>>
          \/ qpc = "service" /\ toD = <<Data(access.val)>>
  /\ dpc \in {"handler", "raise"} =>
       qpc = "service" /\ carried /\ toD = <<>> /\ Trails(toQ, <<>>)
  /\ dpc = "dma_reply" =>
       /\ qpc = "service" /\ carried
       /\ \/ toD = <<>> /\ Trails(toQ, <<Header("DMA_READ")>>)
          \/ toQ = <<>> /\ \E v \in Values : toD = <<Header("DMA_READ_REPLY"), Data(v)>>
  /\ dpc = "dma_value" =>
       qpc = "service" /\ carried /\ toQ = <<>> /\ \E v \in Values : toD = <<Data(v)>>
  /\ dpc = "dma_write" =>
       /\ carried /\ toD = <<>>
       /\ \/ qpc = "service" /\ Trails(toQ, <<Header("DMA_WRITE")>>)
          \/ qpc = "dma_data" /\ toQ = <<>>
  /\ dpc = "dma_ack" =>
       /\ carried
       /\ \/ /\ qpc = "service" /\ toD = <<>>
             /\ \E v \in Values : Trails(toQ, <<Header("DMA_WRITE"), Data(v)>>)
          \/ qpc = "dma_data" /\ toD = <<>> /\ \E v \in Values : toQ = <<Data(v)>>
          \/ qpc = "dma_end" /\ toD = <<>> /\ toQ = <<>>
          \/ qpc = "service" /\ toD = <<Header("ERROR")>> /\ toQ = <<>>

\* A daemon whose connection QEMU has given up is in the DMA that failed.
OrphanInv ==
  \/ dpc = "dma_reply" /\ (toD = <<>> \/ toD = <<Header("DMA_READ_REPLY")>>)
  \/ dpc \in {"dma_value", "dma_ack"} /\ toD = <<>>

\* The inductive invariant: each end knows what the other has sent and not yet heard,
\* at every place of serve_connection, axi_read, axi_write and axi_service_backend.  It
\* is stated for the connection that both ends share, for one that waits in the listen
\* queue, and for one that either end has given up.
WireInv ==
  /\ TypeOK
  /\ AccessInv
  /\ BacklogInv
  /\ ~sockfd => ~peer
  /\ ~peer => toQ = <<>>
  /\ dfd <=> dpc \notin {"accept", "down"}
  /\ peer => QemuStream
  /\ dfd /\ peer => ~stale
  /\ dfd /\ peer =>
       IF dpc = "header" THEN ServeInv
       ELSE /\ HandlerInv
            /\ dpc \in {"reply", "value", "payload", "handler", "raise", "dma_reply",
                        "dma_value", "dma_write", "dma_ack"}
  /\ dfd /\ ~peer => OrphanInv

=============================================================================

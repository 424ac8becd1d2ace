------------------------------ MODULE ChainWalk ------------------------------
(***************************************************************************)
(* How a daemon carries out one descriptor chain: process_chain of         *)
(* drivers/virtio-blkd.c, with the block backend under it, and             *)
(* process_tx_chain of drivers/virtio-consoled.c.                          *)
(*                                                                         *)
(* Every transfer may fail or be cut short: DMA by the fabric, pread,      *)
(* pwrite and write by the host.  On the socket fabric a failed DMA is a   *)
(* broken connection, and every later DMA fails too; on the mapped fabrics *)
(* only the address is bad.  Data is modelled byte by byte, with bytes     *)
(* that say where they come from.  The rings are in BlkSocket.             *)
(***************************************************************************)
EXTENDS Integers, Sequences

CONSTANTS
  Descs,       \* descriptor indices; 0 is the head of the chain
  End,         \* the next field of a descriptor without VRING_DESC_F_NEXT
  Requests,    \* requests to be carried out
  QueueNum,    \* dev->queue.num
  SectorSize,  \* BLKD_SECTOR_SIZE, 512 in the code
  ImageLen,    \* backend->image_len
  OffMod,      \* byte offsets count modulo this, 2^64 in the code
  LenMod       \* data_len counts modulo this, 2^32 in the code

\* struct virtio_desc, without the address: every descriptor has a buffer of its own.
Descriptors == [len : Nat, write : BOOLEAN, next : Descs \cup {End}]

ASSUME ChainAssumption ==
  /\ 0 \in Descs /\ Descs \subseteq Nat /\ End \notin Descs
  /\ {QueueNum, SectorSize, ImageLen, OffMod, LenMod} \subseteq Nat \ {0}
  /\ ImageLen < OffMod
  /\ \A r \in Requests :
       /\ r.dev \in {"blk", "console"}
       /\ \A d \in Descs : r.table[d] \in Descriptors
       /\ r.type \in {"IN", "OUT", "FLUSH", "OTHER"}
       /\ r.sector \in 0 .. OffMod - 1
       /\ r.fabric \in {"socket", "mapped"}
       /\ {r.direct, r.readonly} \subseteq BOOLEAN
       /\ (r.direct => r.fabric = "mapped")
       /\ r.io_buf_size \in Nat

VARIABLES
  req,        \* the request, and the circumstances it is carried out in
  \* Guest memory and host files.
  mem,        \* the buffer of each descriptor
  answer,     \* the byte at status_desc.addr
  image,      \* contents of the disk image
  output,     \* what the console has written
  \* Locals of process_chain and process_tx_chain.
  pc, index, chain_seen, status, data_len,
  dma_data,   \* is the segment read into mapped guest memory?
  io_buf,     \* dev->io_buf, or the buffer of fabric_dma_read
  pos,        \* bytes of the current segment already read or written
  used_len,
  \* History.
  closed,     \* has the connection of the socket fabric been lost?
  faulty      \* has a transfer failed?

stores == <<mem, answer, image, output>>
place  == <<index, status, data_len, pos>>
vars == <<req, stores, pc, place, chain_seen, dma_data, io_buf, used_len, closed, faulty>>

desc == req.table[index]

-----------------------------------------------------------------------------
(* Contents.                                                               *)

\* Byte k of descriptor d's buffer, and byte i of the image, before the request.
MemByte(d, k) == <<"mem", d, k>>
ImageByte(i) == <<"image", i>>
Stale == <<"stale">>
None == "none"

Init ==
  /\ req \in Requests
  /\ mem = [d \in Descs |-> [k \in 1 .. req.table[d].len |-> MemByte(d, k)]]
  /\ answer = None
  /\ image = [i \in 0 .. ImageLen - 1 |-> ImageByte(i)]
  /\ output = <<>>
  /\ pc = IF req.dev = "blk" THEN "header" ELSE "tx"
  /\ index = 0 /\ chain_seen = 0 /\ status = "OK" /\ data_len = 0
  /\ dma_data = FALSE
  /\ io_buf = [k \in 1 .. req.io_buf_size |-> Stale]
  /\ pos = 0 /\ used_len = 0
  /\ closed = FALSE /\ faulty = FALSE

\* true: the caller completes the chain.  false: it gives the connection up.
Return(r) == pc' = IF r THEN "done" ELSE "aborted"
Finished == pc \in {"done", "aborted"}

\* A DMA operation succeeds, or fails and with it the connection.
DmaOk == ~closed /\ UNCHANGED <<closed, faulty>>
DmaFails == closed' = (req.fabric = "socket") /\ faulty' = TRUE

\* A host call or an allocation succeeds, or fails.
HostOk == UNCHANGED <<closed, faulty>>
HostFails == faulty' = TRUE /\ UNCHANGED closed

-----------------------------------------------------------------------------
(* virtio-blkd.c: the request header and the walk.                         *)

\* Mutated form: the sector is multiplied whatever its size.
SectorFits_always == TRUE

\* The byte offset of the sector can be represented.
SectorFits == req.sector <= (OffMod - 1) \div SectorSize

offset == IF SectorFits THEN (req.sector * SectorSize) % OffMod ELSE 0

\* The descriptor and the header are read; the first status is decided.
read_request_header ==
  /\ pc = "header"
  /\ \/ /\ DmaOk /\ desc.next # End
        /\ index' = desc.next
        /\ status' = IF req.type = "OTHER" THEN "UNSUPP"
                     ELSE IF SectorFits THEN "OK" ELSE "IOERR"
        /\ pc' = "walk"
     \/ /\ DmaFails \/ (DmaOk /\ desc.next = End)
        /\ Return(FALSE) /\ UNCHANGED <<index, status>>
  /\ UNCHANGED <<req, stores, chain_seen, data_len, dma_data, io_buf, pos, used_len>>

\* Length so far, after a segment, whether it was transferred or not.
Advance == (data_len + desc.len) % LenMod

\* The segment is over: on to the next descriptor.
EndSegment(s) ==
  /\ status' = s
  /\ data_len' = IF req.type \in {"IN", "OUT"} THEN Advance ELSE data_len
  /\ index' = desc.next
  /\ pos' = 0
  /\ pc' = "walk"

\* A segment that the device would read into memory it may not write, or the reverse.
WrongDirection == desc.write # (req.type = "IN")

\* The segment is not transferred.
Skipped == req.type \notin {"IN", "OUT"} \/ WrongDirection \/ status # "OK"
SkipStatus ==
  IF req.type \in {"IN", "OUT"} /\ WrongDirection THEN "IOERR" ELSE status

\* ensure_io_buf, with this room after it.
Grown == io_buf \o [k \in 1 .. desc.len - Len(io_buf) |-> Stale]

\* Mutated form: descriptors are not counted.
Seen_kept == chain_seen

\* ++chain_seen, and its limit.
Seen == chain_seen + 1
TooLong == Seen > QueueNum

\* The top of the loop: the next descriptor is read and its kind decided.  A direct
\* read needs CHIPLETS_BLKD_DIRECT_READ and a fabric that maps the segment.
read_next_desc ==
  /\ pc = "walk"
  /\ chain_seen' = Seen
  /\ \/ /\ (~TooLong /\ DmaFails) \/ (TooLong /\ HostOk)
        /\ Return(FALSE) /\ UNCHANGED <<place, dma_data>>
     \/ /\ ~TooLong /\ DmaOk /\ desc.next = End
        /\ pc' = "answer" /\ UNCHANGED <<place, dma_data>>
     \/ /\ ~TooLong /\ DmaOk /\ desc.next # End /\ Skipped
        /\ EndSegment(SkipStatus) /\ UNCHANGED dma_data
     \/ /\ ~TooLong /\ DmaOk /\ desc.next # End /\ ~Skipped
        /\ dma_data' \in {FALSE, req.type = "IN" /\ req.direct}
        /\ pc' = IF dma_data' THEN "block" ELSE "buffer"
        /\ UNCHANGED place
  /\ UNCHANGED <<req, stores, io_buf, used_len>>

ensure_io_buf ==
  /\ pc = "buffer"
  /\ \/ /\ HostOk
        /\ io_buf' = Grown
        /\ pc' = IF req.type = "IN" THEN "block" ELSE "dma_read"
        /\ UNCHANGED place
     \/ /\ desc.len > Len(io_buf) /\ HostFails
        /\ IF req.type = "IN" THEN EndSegment("IOERR") ELSE Return(FALSE) /\ UNCHANGED place
        /\ UNCHANGED io_buf
  /\ UNCHANGED <<req, stores, chain_seen, dma_data, used_len>>

\* fabric_dma_read_into the buffer, for a write request.
dma_read_segment ==
  /\ pc = "dma_read"
  /\ \/ /\ DmaOk
        /\ io_buf' = mem[index] \o SubSeq(io_buf, desc.len + 1, Len(io_buf))
        /\ pc' = "block"
     \/ DmaFails /\ Return(FALSE) /\ UNCHANGED io_buf
  /\ UNCHANGED <<req, stores, place, chain_seen, dma_data, used_len>>

-----------------------------------------------------------------------------
(* virtio-blkd.c: the block backend.                                       *)

\* Where in the image the segment lies.
At == (offset + data_len) % OffMod

\* Mutated form: the two lengths are compared with the end of the image apart.
InImage_apart(off, len) == off <= ImageLen /\ len <= ImageLen

InImage(off, len) == off <= ImageLen /\ len <= ImageLen - off

\* blkd_block_read and blkd_block_write: the checks before the transfer.
block_check ==
  /\ pc = "block"
  /\ IF InImage(At, desc.len) /\ ~(req.type = "OUT" /\ req.readonly)
       THEN /\ pc' = IF req.type = "IN" THEN "pread" ELSE "pwrite"
            /\ UNCHANGED place
       ELSE EndSegment("IOERR")
  /\ UNCHANGED <<req, stores, chain_seen, dma_data, io_buf, used_len, closed, faulty>>

\* Mutated form: a short transfer is taken for a whole one.
Transferred_short(n) == desc.len

\* The place in the segment after a transfer of n bytes.
Transferred(n) == pos + n

\* Bytes of the image put into a buffer, n of them from pos on.
Filled(buf, n) ==
  [k \in DOMAIN buf |-> IF k \in pos + 1 .. pos + n THEN image[At + k - 1] ELSE buf[k]]

\* pread_all: any number of bytes at a time; an error or the end of the file ends it.
\* The buffer is io_buf, or guest memory.
pread ==
  /\ pc = "pread" /\ pos < desc.len
  /\ \/ /\ HostOk
        /\ \E n \in 1 .. desc.len - pos :
             /\ IF dma_data
                  THEN mem' = [mem EXCEPT ![index] = Filled(@, n)] /\ UNCHANGED io_buf
                  ELSE io_buf' = Filled(io_buf, n) /\ UNCHANGED mem
             /\ pos' = Transferred(n)
        /\ UNCHANGED <<pc, index, status, data_len>>
     \/ HostFails /\ EndSegment("IOERR") /\ UNCHANGED <<mem, io_buf>>
  /\ UNCHANGED <<req, answer, image, output, chain_seen, dma_data, used_len>>

block_read_done ==
  /\ pc = "pread" /\ pos = desc.len
  /\ IF dma_data THEN EndSegment(status) ELSE pc' = "dma_write" /\ UNCHANGED place
  /\ UNCHANGED <<req, stores, chain_seen, dma_data, io_buf, used_len, closed, faulty>>

\* fabric_dma_write of the buffer.  Where only the reply is lost, the data is there.
dma_write_segment ==
  LET written == [mem EXCEPT ![index] = SubSeq(io_buf, 1, desc.len)] IN
  /\ pc = "dma_write"
  /\ \/ DmaOk /\ EndSegment(status) /\ mem' = written
     \/ DmaFails /\ EndSegment("IOERR") /\ (UNCHANGED mem \/ (closed' /\ mem' = written))
  /\ UNCHANGED <<req, answer, image, output, chain_seen, dma_data, io_buf, used_len>>

\* pwrite_all.
pwrite ==
  /\ pc = "pwrite" /\ pos < desc.len
  /\ \/ /\ HostOk
        /\ \E n \in 1 .. desc.len - pos :
             /\ image' = [i \in DOMAIN image |->
                            IF i \in At + pos .. At + pos + n - 1 THEN io_buf[i - At + 1]
                                                                  ELSE image[i]]
             /\ pos' = Transferred(n)
        /\ UNCHANGED <<pc, index, status, data_len>>
     \/ HostFails /\ EndSegment("IOERR") /\ UNCHANGED image
  /\ UNCHANGED <<req, mem, answer, output, chain_seen, dma_data, io_buf, used_len>>

block_write_done ==
  /\ pc = "pwrite" /\ pos = desc.len
  /\ EndSegment(status)
  /\ UNCHANGED <<req, stores, chain_seen, dma_data, io_buf, used_len, closed, faulty>>

-----------------------------------------------------------------------------
(* virtio-blkd.c: the end of the request.                                  *)

\* Mutated form: the bytes of a write request count too.
UsedLen_both == (data_len + 1) % LenMod

\* *used_len.
UsedLen == IF req.type = "IN" THEN (data_len + 1) % LenMod ELSE 1

\* blkd_block_flush, for a flush request.
block_flush ==
  /\ pc = "answer" /\ req.type = "FLUSH"
  /\ \/ HostOk /\ UNCHANGED status
     \/ HostFails /\ status' = "IOERR"
  /\ pc' = "flushed"
  /\ UNCHANGED <<req, stores, index, data_len, pos, chain_seen, dma_data, io_buf, used_len>>

\* The DMA of the status byte ends the request.
write_status ==
  /\ pc = "flushed" \/ (pc = "answer" /\ req.type # "FLUSH")
  /\ used_len' = UsedLen
  /\ \/ DmaOk /\ Return(TRUE) /\ answer' = status
     \/ DmaFails /\ Return(FALSE) /\ (UNCHANGED answer \/ (closed' /\ answer' = status))
  /\ UNCHANGED <<req, mem, image, output, place, chain_seen, dma_data, io_buf>>

-----------------------------------------------------------------------------
(* virtio-consoled.c: process_tx_chain.  data_len is its total.            *)

Transmits == ~desc.write /\ desc.len > 0

\* The descriptor is done with: *used_len, or the next one.
NextTx ==
  IF desc.next = End THEN Return(TRUE) /\ used_len' = data_len' /\ UNCHANGED index
                     ELSE pc' = "tx" /\ index' = desc.next /\ UNCHANGED used_len

read_tx_desc ==
  /\ pc = "tx"
  /\ \/ DmaFails /\ Return(FALSE) /\ UNCHANGED <<index, used_len, data_len>>
     \/ DmaOk /\ Transmits /\ pc' = "tx_read" /\ UNCHANGED <<index, used_len, data_len>>
     \/ DmaOk /\ ~Transmits /\ UNCHANGED data_len /\ NextTx
  /\ UNCHANGED <<req, stores, status, pos, chain_seen, dma_data, io_buf>>

\* fabric_dma_read, into a new buffer.
read_tx_data ==
  /\ pc = "tx_read"
  /\ \/ DmaOk /\ io_buf' = mem[index] /\ pc' = "tx_write"
     \/ (DmaFails \/ HostFails) /\ Return(FALSE) /\ UNCHANGED io_buf
  /\ UNCHANGED <<req, stores, place, chain_seen, dma_data, used_len>>

\* write_all of cond_console_write.
write_tx_data ==
  /\ pc = "tx_write" /\ pos < desc.len
  /\ \/ /\ HostOk
        /\ \E n \in 1 .. desc.len - pos :
             /\ output' = output \o SubSeq(io_buf, pos + 1, pos + n)
             /\ pos' = Transferred(n)
        /\ UNCHANGED pc
     \/ HostFails /\ Return(FALSE) /\ UNCHANGED <<output, pos>>
  /\ UNCHANGED <<req, mem, answer, image, index, status, data_len, chain_seen, dma_data,
                 io_buf, used_len>>

tx_written ==
  /\ pc = "tx_write" /\ pos = desc.len
  /\ data_len' = (data_len + desc.len) % LenMod
  /\ pos' = 0
  /\ NextTx
  /\ UNCHANGED <<req, stores, status, chain_seen, dma_data, io_buf, closed, faulty>>

-----------------------------------------------------------------------------
Blk ==
  \/ read_request_header \/ read_next_desc \/ ensure_io_buf \/ dma_read_segment
  \/ block_check \/ pread \/ block_read_done \/ dma_write_segment
  \/ pwrite \/ block_write_done \/ block_flush \/ write_status
Console == read_tx_desc \/ read_tx_data \/ write_tx_data \/ tx_written

Next == Blk \/ Console

Spec == Init /\ [][Next]_vars

\* The daemon runs.
FairSpec == Spec /\ WF_vars(Next)

-----------------------------------------------------------------------------
(* What a chain asks for, by definition.                                   *)

\* Descriptor k of the chain of request r, from 0; End past the last one.
Nth(r, k) ==
  LET nth[i \in Nat] ==
        IF i = 0 THEN 0
        ELSE LET d == nth[i - 1] IN IF d = End THEN End ELSE r.table[d].next
  IN  nth[k]

\* The chain is no longer than a chain may be; one with a loop has no end.
Ends(r) == Nth(r, QueueNum + 1) = End

\* The data segments of a block request are the descriptors between the first and the
\* last; for the console, the buffers the device may read.
IsSegment(r, k) ==
  /\ k \in 0 .. QueueNum
  /\ IF r.dev = "blk" THEN k > 0 /\ Nth(r, k + 1) # End
                      ELSE Nth(r, k) # End /\ ~r.table[Nth(r, k)].write
Segments(r) == {k \in 0 .. QueueNum : IsSegment(r, k)}
SegmentLen(r, k) == IF IsSegment(r, k) THEN r.table[Nth(r, k)].len ELSE 0

\* Bytes of the segments before descriptor k, and of all segments.
Before(r, k) ==
  LET sum[i \in Nat] == IF i = 0 THEN 0 ELSE sum[i - 1] + SegmentLen(r, i - 1)
  IN  sum[k]
Total(r) == Before(r, QueueNum + 1)

\* A driver posts no chain whose bytes cannot be counted in 32 bits.
Countable(r) == Total(r) < LenMod

\* Where in the image segment k belongs.
Start(r) == r.sector * SectorSize
Place(r, k) == Start(r) + Before(r, k)

\* Segment k can be transferred.
Valid(r, k) ==
  /\ r.table[Nth(r, k)].write = (r.type = "IN")
  /\ Place(r, k) + SegmentLen(r, k) <= ImageLen
  /\ ~(r.type = "OUT" /\ r.readonly)

\* The status of a request none of whose transfers fails.
Verdict(r) ==
  IF r.type = "OTHER" THEN "UNSUPP"
  ELSE IF /\ Start(r) < OffMod
          /\ r.type # "FLUSH" => \A k \in Segments(r) : Valid(r, k)
       THEN "OK" ELSE "IOERR"

-----------------------------------------------------------------------------
(* Properties.                                                             *)

\* At every moment, whatever has failed and even if the chain is a loop: a byte of
\* guest memory is the one the driver put there or, in a device-writable data segment
\* of a read request, the byte of the image at its place in the request; a byte of the
\* image is the old one or, for a write request, the byte of the segment that belongs
\* there; the console's output is a beginning of its segments' bytes.  Nothing of the
\* reused io_buf, of another segment or of a short transfer gets anywhere.
DataInPlace ==
  /\ req.dev = "blk" /\ Countable(req) =>
       /\ \A d \in Descs : \A j \in 1 .. req.table[d].len :
            \/ mem[d][j] = MemByte(d, j)
            \/ /\ req.type = "IN" /\ req.table[d].write
               /\ \E k \in Segments(req) :
                    Nth(req, k) = d /\ mem[d][j] = ImageByte(Place(req, k) + j - 1)
       /\ \A i \in 0 .. ImageLen - 1 :
            \/ image[i] = ImageByte(i)
            \/ /\ req.type = "OUT" /\ ~req.readonly
               /\ \E k \in Segments(req) : \E j \in 1 .. SegmentLen(req, k) :
                    i = Place(req, k) + j - 1 /\ image[i] = MemByte(Nth(req, k), j)
  /\ req.dev = "console" /\ Ends(req) =>
       \A i \in 1 .. Len(output) :
         \E k \in Segments(req) : \E j \in 1 .. SegmentLen(req, k) :
           i = Before(req, k) + j /\ output[i] = MemByte(Nth(req, k), j)

\* All of segment k has been transferred.
SegmentDone(k) ==
  \A j \in 1 .. SegmentLen(req, k) :
    /\ req.type = "IN" => mem[Nth(req, k)][j] = ImageByte(Place(req, k) + j - 1)
    /\ req.type = "OUT" => image[Place(req, k) + j - 1] = MemByte(Nth(req, k), j)

\* The status byte tells the truth: VIRTIO_BLK_S_OK means that the request was a valid
\* one and that every byte was transferred, and unless some transfer failed the status
\* is the one the request deserves.  A console chain that is completed was written in
\* full.
StatusTruthful ==
  /\ req.dev = "blk" /\ Countable(req) /\ answer # None =>
       /\ answer = "OK" => Verdict(req) = "OK" /\ \A k \in Segments(req) : SegmentDone(k)
       /\ ~faulty => answer = Verdict(req)
  /\ req.dev = "console" /\ Ends(req) /\ pc = "done" => Len(output) = Total(req)

\* While a segment is under way it lies in the image, and io_buf has room for it,
\* although the check, the growth of the buffer and the transfer are different steps
\* and the segment's place is the sum of the ones before it.
TransferInBounds ==
  /\ pc \in {"pread", "pwrite"} => At + desc.len <= ImageLen /\ pos <= desc.len
  /\ pc \in {"pread", "pwrite", "dma_read", "dma_write"} =>
       IF dma_data THEN desc.len = Len(mem[index]) ELSE desc.len <= Len(io_buf)

\* The length that virtio_add_used gets for a block request is the number of bytes
\* written by the device, as virtio.h and virtio.c say: after a read that succeeded the
\* status byte and every data segment, each of them writable and written in full; after
\* any other request, whatever has failed, the status byte alone, with no byte of the
\* driver's buffers changed.  Two cases are left out because there the code reports more
\* than it has written: a read that failed, whose length still counts the segments that
\* were not transferred, and a console transmission, whose length counts bytes read.
UsedLenExact ==
  pc = "done" /\ req.dev = "blk" /\ Total(req) + 1 < LenMod =>
    /\ req.type = "IN" /\ answer = "OK" =>
         /\ used_len = Total(req) + 1
         /\ \A k \in Segments(req) : req.table[Nth(req, k)].write /\ SegmentDone(k)
    /\ req.type # "IN" =>
         /\ used_len = 1
         /\ \A d \in Descs : \A j \in 1 .. req.table[d].len : mem[d][j] = MemByte(d, j)

\* The walk comes to an end, for a block request even if its chain is a loop.
Terminates == req.dev = "blk" \/ Ends(req) => <>Finished
=============================================================================

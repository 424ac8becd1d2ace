------------------------------- MODULE AxiDma -------------------------------
(***************************************************************************)
(* The DMA operations of the frontend kernel driver (kernel/axi_mmio.c) on *)
(* one restricted pool: the page allocator, coherent allocations, bounced  *)
(* streaming mappings, scatter-gather mappings and their synchronisation.  *)
(*                                                                         *)
(* A client is one user of the DMA API (a driver thread with one mapping   *)
(* at a time); clients run concurrently and meet only in the pool.  Every  *)
(* section under dma_lock is one step; copies, which the code makes after  *)
(* it has dropped the lock, are steps of their own.  DMA addresses are     *)
(* page numbers relative to dma_base, sizes are in bytes, and the content  *)
(* of a buffer or of a page is one value.                                  *)
(***************************************************************************)
EXTENDS Integers

CONSTANTS
  Clients,      \* users of the DMA API, each with one mapping at a time
  DmaPages,     \* pool->dma_pages
  PageSize,     \* PAGE_SIZE, in the unit of Sizes
  MaxNents,     \* bound: the longest scatterlist
  Sizes,        \* request sizes; 0 occurs in scatterlists
  MapDirs,      \* directions that drivers map with
  Values,       \* contents
  Unset,        \* content that nobody has determined yet
  MemremapFails \* may memremap() of an original buffer fail?

ASSUME ConstantsAssumption ==
  /\ DmaPages \in Nat \ {0}
  /\ PageSize \in Nat \ {0}
  /\ MaxNents \in Nat \ {0}
  /\ Sizes \subseteq Nat
  /\ MapDirs \subseteq {"TO_DEVICE", "FROM_DEVICE", "BIDIRECTIONAL"}
  /\ Unset \notin Values
  /\ MemremapFails \in BOOLEAN

VARIABLES
  bitmap,   \* dma_bitmap: the set of pages marked used
  bounces,  \* pool->bounces
  pool,     \* content of each page of the pool
  pc,       \* where each client is
  dir,      \* enum dma_data_direction of its mapping
  nents,    \* its number of scatterlist entries (1 outside map_sg)
  idx,      \* its loop index over the scatterlist
  addr,     \* dma_handle, or sg_dma_address of each entry
  len,      \* size, or length of each entry
  rec,      \* the bounce record found or built by the running call
  buf,      \* content of the original buffer, outside the pool
  expect,   \* history: what the last legal write to the buffer left in it
  ring      \* history: what was last stored in a coherent allocation

vars == <<bitmap, bounces, pool, pc, dir, nents, idx, addr, len, rec, buf, expect,
          ring>>

Entries == 1 .. MaxNents
Pages   == 0 .. DmaPages - 1

DMA_MAPPING_ERROR == -1
Dirs == {"TO_DEVICE", "FROM_DEVICE", "BIDIRECTIONAL"}

\* Locations of a client: a bounced mapping has its record on the list from
\* map_phys_record to unmap_phys.
Bounced == {"mapped", "synccpu", "cpuowned", "syncdev"}
Locations == Bounced \cup
  {"idle", "coherent", "inpool", "copyin", "record", "copyout", "release",
   "sgmap", "sgcopy", "sgundo", "sgmapped", "sgunmap", "sgfree"}

Bounce == [dma_handle : Int, phys : Clients, size : Nat]
NoBounce(c) == [dma_handle |-> DMA_MAPPING_ERROR, phys |-> c, size |-> 0]

-----------------------------------------------------------------------------
(* The page allocator.                                                     *)

\* PAGE_ALIGN(size) >> PAGE_SHIFT
PagesOf(size) == (size + PageSize - 1) \div PageSize

Run(a, size) == a .. a + PagesOf(size) - 1

\* Mutated form: the search looks one page beyond the end of the bitmap.
ZeroAreas_beyond(n) ==
  {s \in 0 .. DmaPages - n + 1 : \A p \in s .. s + n - 1 : p \notin bitmap}

\* bitmap_find_next_zero_area returns the lowest member.
ZeroAreas(n) == {s \in 0 .. DmaPages - n : \A p \in s .. s + n - 1 : p \notin bitmap}

pool_alloc(size, a) ==
  /\ PagesOf(size) > 0
  /\ a \in ZeroAreas(PagesOf(size))
  /\ \A b \in ZeroAreas(PagesOf(size)) : a <= b
  /\ bitmap' = bitmap \cup Run(a, size)

pool_alloc_fails(size) == PagesOf(size) = 0 \/ ZeroAreas(PagesOf(size)) = {}

\* Mutated forms: bitmap_clear of one page too many, and of the first page only.
bitmap_clear_more(a, n) == bitmap \ (a .. a + n)
bitmap_clear_first(a, n) == bitmap \ {a}

bitmap_clear(a, n) == bitmap \ (a .. a + n - 1)

pool_free(a, size) ==
  bitmap' = IF a < 0 \/ PagesOf(size) = 0 \/ a + PagesOf(size) > DmaPages
              THEN bitmap
              ELSE bitmap_clear(a, PagesOf(size))

\* memcpy between a buffer and the pages of a mapping.  A copy out of the pool
\* takes the content of any page of the mapping, so a single page overwritten
\* by somebody else is enough to be noticed.
CopyIn(a, size, v) == pool' = [p \in Pages |-> IF p \in Run(a, size) THEN v ELSE pool[p]]
CopyOut(c, i, a, size) == \E p \in Run(a, size) : buf' = [buf EXCEPT ![c][i] = pool[p]]

\* Mutated form: a BIDIRECTIONAL buffer is not copied into the pool.
CopiesIn_to_device(d) == d = "TO_DEVICE"

\* The directions in which the device reads, and in which it writes.
CopiesIn(d)  == d # "FROM_DEVICE"
CopiesOut(d) == d # "TO_DEVICE"

-----------------------------------------------------------------------------
Init ==
  /\ bitmap = {}
  /\ bounces = {}
  /\ pool = [p \in Pages |-> Unset]
  /\ pc = [c \in Clients |-> "idle"]
  /\ dir = [c \in Clients |-> "BIDIRECTIONAL"]
  /\ nents = [c \in Clients |-> 1]
  /\ idx = [c \in Clients |-> 1]
  /\ addr = [c \in Clients |-> [i \in Entries |-> DMA_MAPPING_ERROR]]
  /\ len = [c \in Clients |-> [i \in Entries |-> 0]]
  /\ rec = [c \in Clients |-> NoBounce(c)]
  /\ buf = [c \in Clients |-> [i \in Entries |-> Unset]]
  /\ expect = [c \in Clients |-> [i \in Entries |-> Unset]]
  /\ ring = [c \in Clients |-> Unset]

Goto(c, l) == pc' = [pc EXCEPT ![c] = l]

\* The call returns and its locals are gone.
Return(c) ==
  /\ Goto(c, "idle")
  /\ dir' = [dir EXCEPT ![c] = "BIDIRECTIONAL"]
  /\ nents' = [nents EXCEPT ![c] = 1]
  /\ idx' = [idx EXCEPT ![c] = 1]

Clear(c, i) ==
  /\ addr' = [addr EXCEPT ![c][i] = DMA_MAPPING_ERROR]
  /\ len' = [len EXCEPT ![c][i] = 0]

\* The buffers beyond the n that the call maps are given up by their owner.
KeepBuffers(c, n) ==
  /\ buf' = [buf EXCEPT ![c] = [i \in Entries |-> IF i <= n THEN @[i] ELSE Unset]]
  /\ expect' = [expect EXCEPT ![c] = [i \in Entries |-> IF i <= n THEN @[i] ELSE Unset]]

-----------------------------------------------------------------------------
(* axi_mmio_dma_alloc and axi_mmio_dma_free.  A failing alloc returns NULL *)
(* and changes nothing.  The owner may free once nobody maps into it.      *)

dma_alloc(c, s, a) ==
  /\ pc[c] = "idle"
  /\ pool_alloc(s, a)
  /\ addr' = [addr EXCEPT ![c][1] = a]
  /\ len' = [len EXCEPT ![c][1] = s]
  /\ KeepBuffers(c, 0)
  /\ Goto(c, "coherent")
  /\ UNCHANGED <<bounces, pool, dir, nents, idx, rec, ring>>

dma_free(c) ==
  /\ pc[c] = "coherent"
  /\ \A d \in Clients : pc[d] = "inpool" => addr[d][1] # addr[c][1]
  /\ pool_free(addr[c][1], len[c][1])
  /\ Clear(c, 1)
  /\ ring' = [ring EXCEPT ![c] = Unset]
  /\ Return(c)
  /\ UNCHANGED <<bounces, pool, rec, buf, expect>>

\* The CPU or the device stores into coherent memory (the virtqueue).
CoherentWrite(c, v) ==
  /\ pc[c] = "coherent"
  /\ CopyIn(addr[c][1], len[c][1], v)
  /\ ring' = [ring EXCEPT ![c] = v]
  /\ UNCHANGED <<bitmap, bounces, pc, dir, nents, idx, addr, len, rec, buf, expect>>

-----------------------------------------------------------------------------
(* axi_mmio_dma_map_phys.  Running out of pages or of memory for the       *)
(* record returns DMA_MAPPING_ERROR and changes nothing.                   *)

\* The physical address lies in the pool already (inside the coherent memory
\* of client o): it is returned as it is, without a record.
map_phys_in_pool(c, o, d) ==
  /\ pc[c] = "idle" /\ pc[o] = "coherent"
  /\ addr' = [addr EXCEPT ![c][1] = addr[o][1]]
  /\ len' = [len EXCEPT ![c][1] = len[o][1]]
  /\ dir' = [dir EXCEPT ![c] = d]
  /\ KeepBuffers(c, 0)
  /\ Goto(c, "inpool")
  /\ UNCHANGED <<bitmap, bounces, pool, nents, idx, rec, ring>>

map_phys(c, s, d, a) ==
  /\ pc[c] = "idle"
  /\ s > 0
  /\ pool_alloc(s, a)
  /\ addr' = [addr EXCEPT ![c][1] = a]
  /\ len' = [len EXCEPT ![c][1] = s]
  /\ dir' = [dir EXCEPT ![c] = d]
  /\ KeepBuffers(c, 1)
  /\ Goto(c, IF CopiesIn(d) THEN "copyin" ELSE "record")
  /\ UNCHANGED <<bounces, pool, nents, idx, rec, ring>>

map_phys_copy(c) ==
  /\ pc[c] = "copyin"
  /\ CopyIn(addr[c][1], len[c][1], buf[c][1])
  /\ Goto(c, "record")
  /\ UNCHANGED <<bitmap, bounces, dir, nents, idx, addr, len, rec, buf, expect, ring>>

map_phys_copy_fails(c) ==
  /\ pc[c] = "copyin"
  /\ MemremapFails
  /\ pool_free(addr[c][1], len[c][1])
  /\ Clear(c, 1)
  /\ Return(c)
  /\ UNCHANGED <<bounces, pool, rec, buf, expect, ring>>

\* What the buffer will hold after the device had a FROM_DEVICE mapping is
\* open until the device writes.
HandOver(c, n) ==
  expect' = [expect EXCEPT ![c] = [i \in Entries |->
               IF dir[c] = "FROM_DEVICE" /\ i <= n THEN Unset ELSE @[i]]]

\* The record that map_phys fills in for its caller.
RecordOf(c) == [dma_handle |-> addr[c][1], phys |-> c, size |-> len[c][1]]

map_phys_record(c) ==
  /\ pc[c] = "record"
  /\ bounces' = bounces \cup {RecordOf(c)}
  /\ HandOver(c, 1)
  /\ Goto(c, "mapped")
  /\ UNCHANGED <<bitmap, pool, dir, nents, idx, addr, len, rec, buf, ring>>

-----------------------------------------------------------------------------
(* axi_mmio_dma_unmap_phys: look the record up and unlink it, copy back,   *)
(* free the pages.  Without a record there is nothing to do.               *)

bounce_find_locked(a) == {b \in bounces : b.dma_handle = a}

\* Mutated form: the record stays on the list.
list_del_kept(b) == bounces' = bounces

list_del(b) == bounces' = bounces \ {b}

unmap_phys(c) ==
  /\ pc[c] \in {"mapped", "inpool"}
  /\ \E b \in bounce_find_locked(addr[c][1]) :
       /\ list_del(b)
       /\ rec' = [rec EXCEPT ![c] = b]
  /\ Goto(c, IF CopiesOut(dir[c]) THEN "copyout" ELSE "release")
  /\ UNCHANGED <<bitmap, pool, dir, nents, idx, addr, len, buf, expect, ring>>

unmap_phys_in_pool(c) ==
  /\ pc[c] \in {"mapped", "inpool"}
  /\ bounce_find_locked(addr[c][1]) = {}
  /\ Clear(c, 1)
  /\ Return(c)
  /\ UNCHANGED <<bitmap, bounces, pool, rec, buf, expect, ring>>

\* After a copy that failed nobody can say what the buffer should hold.
Forget(c) == expect' = [expect EXCEPT ![c][1] = Unset]

\* axi_mmio_copy_pool_to_phys; nobody looks at its result.
unmap_phys_copy(c) ==
  /\ pc[c] = "copyout"
  /\ \/ CopyOut(rec[c].phys, 1, addr[c][1], rec[c].size) /\ UNCHANGED expect
     \/ MemremapFails /\ UNCHANGED buf /\ Forget(rec[c].phys)
  /\ Goto(c, "release")
  /\ UNCHANGED <<bitmap, bounces, pool, dir, nents, idx, addr, len, rec, ring>>

unmap_phys_release(c) ==
  /\ pc[c] = "release"
  /\ pool_free(addr[c][1], rec[c].size)
  /\ Clear(c, 1)
  /\ rec' = [rec EXCEPT ![c] = NoBounce(c)]
  /\ Return(c)
  /\ UNCHANGED <<bounces, pool, buf, expect, ring>>

-----------------------------------------------------------------------------
(* sync_single_for_cpu and sync_single_for_device: the record is looked up *)
(* under the lock, its fields are used after the unlock.                   *)

sync_for_cpu(c) ==
  /\ pc[c] = "mapped"
  /\ \/ /\ ~CopiesOut(dir[c])
        /\ Goto(c, "cpuowned")
        /\ UNCHANGED rec
     \/ /\ CopiesOut(dir[c])
        /\ \E b \in bounce_find_locked(addr[c][1]) : rec' = [rec EXCEPT ![c] = b]
        /\ Goto(c, "synccpu")
  /\ UNCHANGED <<bitmap, bounces, pool, dir, nents, idx, addr, len, buf, expect, ring>>

sync_for_cpu_copy(c) ==
  /\ pc[c] = "synccpu"
  /\ \/ CopyOut(rec[c].phys, 1, addr[c][1], rec[c].size) /\ UNCHANGED expect
     \/ MemremapFails /\ UNCHANGED buf /\ Forget(rec[c].phys)
  /\ rec' = [rec EXCEPT ![c] = NoBounce(c)]
  /\ Goto(c, "cpuowned")
  /\ UNCHANGED <<bitmap, bounces, pool, dir, nents, idx, addr, len, ring>>

sync_for_device(c) ==
  /\ pc[c] = "cpuowned"
  /\ \/ /\ ~CopiesIn(dir[c])
        /\ HandOver(c, 1)
        /\ Goto(c, "mapped")
        /\ UNCHANGED rec
     \/ /\ CopiesIn(dir[c])
        /\ \E b \in bounce_find_locked(addr[c][1]) : rec' = [rec EXCEPT ![c] = b]
        /\ Goto(c, "syncdev")
        /\ UNCHANGED expect
  /\ UNCHANGED <<bitmap, bounces, pool, dir, nents, idx, addr, len, buf, ring>>

sync_for_device_copy(c) ==
  /\ pc[c] = "syncdev"
  /\ \/ CopyIn(addr[c][1], rec[c].size, buf[rec[c].phys][1]) /\ UNCHANGED expect
     \/ MemremapFails /\ UNCHANGED pool /\ Forget(rec[c].phys)
  /\ rec' = [rec EXCEPT ![c] = NoBounce(c)]
  /\ Goto(c, "mapped")
  /\ UNCHANGED <<bitmap, bounces, dir, nents, idx, addr, len, buf, ring>>

-----------------------------------------------------------------------------
(* axi_mmio_dma_map_sg and axi_mmio_dma_unmap_sg.                          *)

map_sg(c, n, s, d) ==
  /\ pc[c] = "idle"
  /\ nents' = [nents EXCEPT ![c] = n]
  /\ idx' = [idx EXCEPT ![c] = 1]
  /\ len' = [len EXCEPT ![c] = [i \in Entries |-> IF i <= n THEN s[i] ELSE 0]]
  /\ dir' = [dir EXCEPT ![c] = d]
  /\ KeepBuffers(c, n)
  /\ Goto(c, "sgmap")
  /\ UNCHANGED <<bitmap, bounces, pool, addr, rec, ring>>

map_sg_entry(c, a) ==
  LET i == idx[c] IN
  /\ pc[c] = "sgmap" /\ i <= nents[c]
  /\ pool_alloc(len[c][i], a)
  /\ addr' = [addr EXCEPT ![c][i] = a]
  /\ IF CopiesIn(dir[c])
       THEN Goto(c, "sgcopy") /\ UNCHANGED idx
       ELSE idx' = [idx EXCEPT ![c] = i + 1] /\ UNCHANGED pc
  /\ UNCHANGED <<bounces, pool, dir, nents, len, rec, buf, expect, ring>>

\* sg_copy_to_buffer
map_sg_copy(c) ==
  LET i == idx[c] IN
  /\ pc[c] = "sgcopy"
  /\ CopyIn(addr[c][i], len[c][i], buf[c][i])
  /\ idx' = [idx EXCEPT ![c] = i + 1]
  /\ Goto(c, "sgmap")
  /\ UNCHANGED <<bitmap, bounces, dir, nents, addr, len, rec, buf, expect, ring>>

map_sg_entry_fails(c) ==
  /\ pc[c] = "sgmap" /\ idx[c] <= nents[c]
  /\ pool_alloc_fails(len[c][idx[c]])
  /\ idx' = [idx EXCEPT ![c] = 1]
  /\ Goto(c, "sgundo")
  /\ UNCHANGED <<bitmap, bounces, pool, dir, nents, addr, len, rec, buf, expect, ring>>

map_sg_done(c) ==
  /\ pc[c] = "sgmap" /\ idx[c] > nents[c]
  /\ HandOver(c, nents[c])
  /\ Goto(c, "sgmapped")
  /\ UNCHANGED <<bitmap, bounces, pool, dir, nents, idx, addr, len, rec, buf, ring>>

\* for_each_sg(sgl, mapped, i, j): the entries before the failed one.
map_sg_undo(c) ==
  /\ pc[c] = "sgundo"
  /\ addr[c][idx[c]] # DMA_MAPPING_ERROR
  /\ pool_free(addr[c][idx[c]], len[c][idx[c]])
  /\ Clear(c, idx[c])
  /\ idx' = [idx EXCEPT ![c] = @ + 1]
  /\ UNCHANGED <<bounces, pool, pc, dir, nents, rec, buf, expect, ring>>

map_sg_undone(c) ==
  /\ pc[c] = "sgundo"
  /\ addr[c][idx[c]] = DMA_MAPPING_ERROR
  /\ len' = [len EXCEPT ![c] = [i \in Entries |-> 0]]
  /\ Return(c)
  /\ UNCHANGED <<bitmap, bounces, pool, addr, rec, buf, expect, ring>>

unmap_sg(c) ==
  /\ pc[c] = "sgmapped"
  /\ idx' = [idx EXCEPT ![c] = 1]
  /\ Goto(c, "sgunmap")
  /\ UNCHANGED <<bitmap, bounces, pool, dir, nents, addr, len, rec, buf, expect, ring>>

\* sg_copy_from_buffer
unmap_sg_copy(c) ==
  LET i == idx[c] IN
  /\ pc[c] = "sgunmap" /\ i <= nents[c] /\ CopiesOut(dir[c])
  /\ CopyOut(c, i, addr[c][i], len[c][i])
  /\ Goto(c, "sgfree")
  /\ UNCHANGED <<bitmap, bounces, pool, dir, nents, idx, addr, len, rec, expect, ring>>

unmap_sg_entry(c) ==
  LET i == idx[c] IN
  /\ \/ pc[c] = "sgfree"
     \/ pc[c] = "sgunmap" /\ i <= nents[c] /\ ~CopiesOut(dir[c])
  /\ pool_free(addr[c][i], len[c][i])
  /\ Clear(c, i)
  /\ idx' = [idx EXCEPT ![c] = i + 1]
  /\ Goto(c, "sgunmap")
  /\ UNCHANGED <<bounces, pool, dir, nents, rec, buf, expect, ring>>

unmap_sg_done(c) ==
  /\ pc[c] = "sgunmap" /\ idx[c] > nents[c]
  /\ Return(c)
  /\ UNCHANGED <<bitmap, bounces, pool, addr, len, rec, buf, expect, ring>>

-----------------------------------------------------------------------------
(* The users of the mappings: the device (the backend, through the pool)   *)
(* owns a mapped buffer, the CPU owns it before map, after unmap and       *)
(* between sync_for_cpu and sync_for_device.                               *)

DeviceWrite(c, i, v) ==
  /\ pc[c] \in {"mapped", "sgmapped"}
  /\ CopiesOut(dir[c])
  /\ addr[c][i] # DMA_MAPPING_ERROR
  /\ CopyIn(addr[c][i], len[c][i], v)
  /\ expect' = [expect EXCEPT ![c][i] = v]
  /\ UNCHANGED <<bitmap, bounces, pc, dir, nents, idx, addr, len, rec, buf, ring>>

CpuWrite(c, i, v) ==
  /\ pc[c] = "idle" \/ (pc[c] = "cpuowned" /\ i = 1)
  /\ buf' = [buf EXCEPT ![c][i] = v]
  /\ expect' = [expect EXCEPT ![c][i] = v]
  /\ UNCHANGED <<bitmap, bounces, pool, pc, dir, nents, idx, addr, len, rec, ring>>

ClientStep(c) ==
  \/ \E s \in Sizes, a \in Pages : dma_alloc(c, s, a)
  \/ dma_free(c)
  \/ \E v \in Values : CoherentWrite(c, v)
  \/ \E o \in Clients \ {c}, d \in MapDirs : map_phys_in_pool(c, o, d)
  \/ \E s \in Sizes, d \in MapDirs, a \in Pages : map_phys(c, s, d, a)
  \/ map_phys_copy(c)
  \/ map_phys_copy_fails(c)
  \/ map_phys_record(c)
  \/ unmap_phys(c)
  \/ unmap_phys_in_pool(c)
  \/ unmap_phys_copy(c)
  \/ unmap_phys_release(c)
  \/ sync_for_cpu(c)
  \/ sync_for_cpu_copy(c)
  \/ sync_for_device(c)
  \/ sync_for_device_copy(c)
  \/ \E n \in Entries, s \in [Entries -> Sizes], d \in MapDirs : map_sg(c, n, s, d)
  \/ \E a \in Pages : map_sg_entry(c, a)
  \/ map_sg_copy(c)
  \/ map_sg_entry_fails(c)
  \/ map_sg_done(c)
  \/ map_sg_undo(c)
  \/ map_sg_undone(c)
  \/ unmap_sg(c)
  \/ unmap_sg_copy(c)
  \/ unmap_sg_entry(c)
  \/ unmap_sg_done(c)
  \/ \E i \in Entries, v \in Values : DeviceWrite(c, i, v)
  \/ \E i \in Entries, v \in Values : CpuWrite(c, i, v)

Next == \E c \in Clients : ClientStep(c)

Spec == Init /\ [][Next]_vars

-----------------------------------------------------------------------------
(* Properties.                                                             *)

\* Type invariant.
TypeOK ==
  /\ bitmap \subseteq Pages
  /\ bounces \subseteq Bounce
  /\ pool \in [Pages -> Values \cup {Unset}]
  /\ pc \in [Clients -> Locations]
  /\ dir \in [Clients -> Dirs]
  /\ nents \in [Clients -> Entries]
  /\ idx \in [Clients -> 1 .. MaxNents + 1]
  /\ addr \in [Clients -> [Entries -> Pages \cup {DMA_MAPPING_ERROR}]]
  /\ len \in [Clients -> [Entries -> Nat]]
  /\ rec \in [Clients -> Bounce]
  /\ buf \in [Clients -> [Entries -> Values \cup {Unset}]]
  /\ expect \in [Clients -> [Entries -> Values \cup {Unset}]]
  /\ ring \in [Clients -> Values \cup {Unset}]

\* Entry i of client c holds pages that pool_alloc gave it.
Owns(c, i) == addr[c][i] # DMA_MAPPING_ERROR /\ pc[c] # "inpool"
PagesHeld(c, i) == Run(addr[c][i], len[c][i])

\* Two live allocations never share a page, whatever mixture of coherent,
\* bounced and scatter-gather calls is in flight, in whichever phase: the first
\* fit search and the bit setting of axi_mmio_pool_alloc are one section of
\* dma_lock, and no free clears a bit of somebody else.
AllocationsDisjoint ==
  \A c, d \in Clients : \A i, j \in Entries :
    Owns(c, i) /\ Owns(d, j) /\ <<c, i>> # <<d, j>> =>
      PagesHeld(c, i) \cap PagesHeld(d, j) = {}

\* The bitmap marks exactly the pages of the live allocations: no error path
\* of map_phys or map_sg leaks pages, no unmap frees too few or too many (the
\* size freed is recomputed from the record or from the scatterlist entry).
BitmapExact ==
  \A p \in Pages :
    p \in bitmap <=> \E c \in Clients, i \in Entries : Owns(c, i) /\ p \in PagesHeld(c, i)

\* The records on pool->bounces are those of the bounced mappings, one each,
\* so that a lookup by dma_handle finds the caller's own record, and a lookup
\* for an address that was passed through finds none.
BouncesExact == bounces = {RecordOf(c) : c \in {d \in Clients : pc[d] \in Bounced}}

\* Each side sees what the other side wrote: while the device owns a mapping
\* its pages hold what the CPU (or the device itself) last wrote; when the CPU
\* owns the buffer again it holds what the device last wrote; coherent memory
\* (the virtqueues) is never overwritten by a neighbour's bounce copy.  Only a copy
\* of sync or unmap that fails, whose result the code ignores, excepts its buffer,
\* and no longer than to the next write.
DataIntact ==
  \A c \in Clients :
    /\ \A i \in Entries : expect[c][i] # Unset =>
         /\ pc[c] \in {"idle", "cpuowned"} => buf[c][i] = expect[c][i]
         /\ pc[c] \in {"mapped", "sgmapped"} /\ Owns(c, i) =>
              \A p \in PagesHeld(c, i) : pool[p] = expect[c][i]
    /\ pc[c] = "coherent" /\ ring[c] # Unset =>
         \A p \in PagesHeld(c, 1) : pool[p] = ring[c]

-----------------------------------------------------------------------------
(* The inductive invariant behind the first four properties.               *)

\* The entries of c that hold an address are those from lo to hi.
Mapped(c, lo, hi) ==
  \A i \in Entries : addr[c][i] # DMA_MAPPING_ERROR <=> lo <= i /\ i <= hi

\* Which entries hold an address, at each location.
ShapeOf(c) ==
  CASE pc[c] = "idle"     -> Mapped(c, 1, 0)
    [] pc[c] = "sgmap"    -> Mapped(c, 1, idx[c] - 1) /\ idx[c] <= nents[c] + 1
    [] pc[c] = "sgcopy"   -> Mapped(c, 1, idx[c]) /\ idx[c] <= nents[c]
    [] pc[c] = "sgundo"   -> \E f \in 1 .. nents[c] : idx[c] <= f /\ Mapped(c, idx[c], f - 1)
    [] pc[c] = "sgmapped" -> Mapped(c, 1, nents[c])
    [] pc[c] = "sgunmap"  -> Mapped(c, idx[c], nents[c]) /\ idx[c] <= nents[c] + 1
    [] pc[c] = "sgfree"   -> Mapped(c, idx[c], nents[c]) /\ idx[c] <= nents[c]
    [] OTHER              -> Mapped(c, 1, 1)

Shape == \A c \in Clients : ShapeOf(c)

InRange ==
  \A c \in Clients, i \in Entries : addr[c][i] # DMA_MAPPING_ERROR =>
    PagesOf(len[c][i]) > 0 /\ addr[c][i] + PagesOf(len[c][i]) <= DmaPages

\* A record in use by a running call is the caller's own.
RecMatches ==
  \A c \in Clients :
    pc[c] \in {"copyout", "release", "synccpu", "syncdev"} => rec[c] = RecordOf(c)

\* A mapping passed through lies in somebody's coherent allocation.
InPoolInside ==
  \A c \in Clients : pc[c] = "inpool" =>
    \E o \in Clients : pc[o] = "coherent" /\ addr[o][1] = addr[c][1]

\* Inductive invariant: the allocations fit in the pool, each location of a call
\* determines which entries are mapped, and a call works on its own record.
IndInv ==
  /\ TypeOK
  /\ Shape
  /\ InRange
  /\ AllocationsDisjoint
  /\ BitmapExact
  /\ BouncesExact
  /\ RecMatches
  /\ InPoolInside

-----------------------------------------------------------------------------
(* The inductive invariant behind DataIntact.                              *)

\* What the last legal write left is in the buffer, or in the pages.
BufHolds(c, i) == expect[c][i] = Unset \/ buf[c][i] = expect[c][i]
PoolHolds(c, i) ==
  expect[c][i] = Unset \/ \A p \in PagesHeld(c, i) : pool[p] = expect[c][i]

\* Where it is found, by location: in the buffer before a call has copied it to the
\* pool and after one has copied it back, in the pages from the one to the other.
KeptInBuf(c, i) ==
  \/ ~Owns(c, i) \/ ~CopiesOut(dir[c])
  \/ pc[c] \in {"coherent", "copyin", "record", "cpuowned", "syncdev", "release",
               "sgmap", "sgcopy", "sgundo"}
  \/ pc[c] = "sgfree" /\ i = idx[c]
KeptInPool(c, i) ==
  /\ Owns(c, i)
  /\ \/ pc[c] \in {"mapped", "synccpu", "copyout", "sgmapped", "sgunmap"}
     \/ pc[c] \in {"record", "sgmap"} /\ CopiesIn(dir[c])
     \/ pc[c] \in {"sgcopy", "sgfree"} /\ i # idx[c]

ContentOf(c) ==
  /\ \A i \in Entries : /\ KeptInBuf(c, i) => BufHolds(c, i)
                        /\ KeptInPool(c, i) => PoolHolds(c, i)
  /\ IF pc[c] = "coherent"
       THEN ring[c] = Unset \/ \A p \in PagesHeld(c, 1) : pool[p] = ring[c]
       ELSE ring[c] = Unset

\* Inductive invariant: a call works on its own pages and its own record (IndInv), and
\* at each location the data is where the next copy will take it from.
DataInv == IndInv /\ \A c \in Clients : ContentOf(c)
=============================================================================

---------------------------- MODULE AxiDmaProofs ----------------------------
(***************************************************************************)
(* Proofs about the DMA operations, for any number of clients, any pool    *)
(* size and any request sizes: allocations are disjoint, the bitmap and    *)
(* the list of bounce records are exact; CPU and device see what the other *)
(* wrote.                                                                  *)
(*                                                                         *)
(* First what one allocation, one release and a neutral step do to the     *)
(* bitmap, type correctness, and what a step has to preserve where its     *)
(* caller is concerned; then the steps, by what they do to the shared      *)
(* state.  A copy touches only pages that its caller owns, so what is left *)
(* to show of a step for the data is where the caller's own data is after  *)
(* it.                                                                     *)
(***************************************************************************)
EXTENDS AxiDma, TLAPS

\* What the shared state says of allocations.
AllocInv == InRange /\ AllocationsDisjoint /\ BitmapExact

\* A request takes a natural number of pages (PAGE_ALIGN(size) >> PAGE_SHIFT).
LEMMA PagesOfNat == ASSUME NEW s \in Nat PROVE PagesOf(s) \in Nat
BY ConstantsAssumption DEF ConstantsAssumption, PagesOf

\* The run of pages that axi_mmio_pool_alloc returns lies in the pool and was free.
LEMMA AllocFresh ==
  ASSUME NEW s \in Nat, NEW a \in Pages, pool_alloc(s, a)
  PROVE  /\ PagesOf(s) > 0
         /\ a + PagesOf(s) <= DmaPages
         /\ Run(a, s) \subseteq Pages
         /\ Run(a, s) \cap bitmap = {}
         /\ bitmap' = bitmap \cup Run(a, s)
<1>. USE ConstantsAssumption, PagesOfNat DEF ConstantsAssumption
<1>1. PagesOf(s) > 0 /\ a \in ZeroAreas(PagesOf(s)) /\ bitmap' = bitmap \cup Run(a, s)
  BY Zenon DEF pool_alloc
<1>2. a \in 0 .. DmaPages - PagesOf(s) /\ \A p \in a .. a + PagesOf(s) - 1 : p \notin bitmap
  BY <1>1, Zenon DEF ZeroAreas
<1>. QED
  BY <1>1, <1>2 DEF Run, Pages

\* The pages of an allocation are pages of the pool, and marked.
LEMMA HeldMarked ==
  ASSUME TypeOK, InRange, BitmapExact, NEW c \in Clients, NEW i \in Entries, Owns(c, i)
  PROVE  PagesHeld(c, i) \subseteq Pages /\ PagesHeld(c, i) \subseteq bitmap
<1>1. addr[c][i] \in Pages /\ len[c][i] \in Nat
  BY DEF TypeOK, Owns
<1>2. addr[c][i] + PagesOf(len[c][i]) <= DmaPages
  BY Zenon DEF InRange, Owns
<1>3. PagesHeld(c, i) \subseteq Pages
  BY <1>1, <1>2, PagesOfNat, ConstantsAssumption
  DEF PagesHeld, Run, Pages, ConstantsAssumption
<1>. QED
  BY <1>3, Zenon DEF BitmapExact

\* A successful allocation for entry i of client c: the allocations stay disjoint,
\* inside the pool, and marked in the bitmap.
LEMMA AllocStep ==
  ASSUME TypeOK, AllocInv, TypeOK',
         NEW c \in Clients, NEW i \in Entries, NEW s \in Nat, NEW a \in Pages,
         pool_alloc(s, a),
         addr[c][i] = DMA_MAPPING_ERROR,
         addr'[c][i] = a, len'[c][i] = s,
         \A d \in Clients, j \in Entries : <<d, j>> # <<c, i>> =>
           addr'[d][j] = addr[d][j] /\ len'[d][j] = len[d][j],
         \A d \in Clients : pc'[d] = "inpool" <=> pc[d] = "inpool",
         pc[c] # "inpool"
  PROVE  AllocInv'
<1>. USE PagesOfNat DEF DMA_MAPPING_ERROR
<1>1. /\ PagesOf(s) > 0 /\ a + PagesOf(s) <= DmaPages
      /\ Run(a, s) \subseteq Pages
      /\ Run(a, s) \cap bitmap = {} /\ bitmap' = bitmap \cup Run(a, s)
  BY AllocFresh, Zenon
<1>2. a # DMA_MAPPING_ERROR
  BY DEF Pages
<1>3. Owns(c, i)' /\ PagesHeld(c, i)' = Run(a, s)
  BY <1>2, Zenon DEF Owns, PagesHeld, Run
<1>4. \A d \in Clients, j \in Entries : <<d, j>> # <<c, i>> =>
        (Owns(d, j)' <=> Owns(d, j)) /\ PagesHeld(d, j)' = PagesHeld(d, j)
  BY Zenon DEF Owns, PagesHeld, Run
<1>5. InRange'
  BY <1>1, Zenon DEF AllocInv, InRange
<1>6. \A d \in Clients, j \in Entries : Owns(d, j) => PagesHeld(d, j) \subseteq bitmap
  BY HeldMarked, Zenon DEF AllocInv
<1>7. AllocationsDisjoint'
  BY <1>1, <1>3, <1>4, <1>6 DEF AllocInv, AllocationsDisjoint
<1>8. BitmapExact'
  BY <1>1, <1>3, <1>4 DEF AllocInv, BitmapExact, Owns
<1>. QED
  BY <1>5, <1>7, <1>8, Zenon DEF AllocInv

\* The release of entry i of client c: exactly its own pages become free.
LEMMA FreeStep ==
  ASSUME TypeOK, AllocInv, TypeOK',
         NEW c \in Clients, NEW i \in Entries, Owns(c, i),
         pool_free(addr[c][i], len[c][i]),
         addr'[c][i] = DMA_MAPPING_ERROR,
         \A d \in Clients, j \in Entries : <<d, j>> # <<c, i>> =>
           addr'[d][j] = addr[d][j] /\ len'[d][j] = len[d][j],
         \A d \in Clients : pc'[d] = "inpool" <=> pc[d] = "inpool"
  PROVE  AllocInv'
<1>1. addr[c][i] \in Pages /\ len[c][i] \in Nat /\ PagesOf(len[c][i]) \in Nat
  BY PagesOfNat DEF TypeOK, Owns
<1>2. PagesOf(len[c][i]) > 0 /\ addr[c][i] + PagesOf(len[c][i]) <= DmaPages
  BY Zenon DEF AllocInv, InRange, Owns
<1>3. bitmap' = bitmap \ Run(addr[c][i], len[c][i])
  BY <1>1, <1>2, ConstantsAssumption
  DEF pool_free, bitmap_clear, Run, Pages, ConstantsAssumption
<1>4. ~Owns(c, i)'
  BY Zenon DEF Owns
<1>5. \A d \in Clients, j \in Entries : <<d, j>> # <<c, i>> =>
        (Owns(d, j)' <=> Owns(d, j)) /\ PagesHeld(d, j)' = PagesHeld(d, j)
  BY Zenon DEF Owns, PagesHeld, Run
<1>6. InRange'
  BY Zenon DEF AllocInv, InRange
<1>7. AllocationsDisjoint'
  BY <1>4, <1>5 DEF AllocInv, AllocationsDisjoint
<1>8. \A d \in Clients, j \in Entries : Owns(d, j) /\ <<d, j>> # <<c, i>> =>
        PagesHeld(d, j) \cap PagesHeld(c, i) = {}
  BY Zenon DEF AllocInv, AllocationsDisjoint
<1>9. BitmapExact'
  <2>. SUFFICES ASSUME NEW p \in Pages
                PROVE  (p \in bitmap)' <=>
                         \E d \in Clients, j \in Entries : (Owns(d, j) /\ p \in PagesHeld(d, j))'
    BY Zenon DEF BitmapExact
  <2>1. p \in bitmap <=>
          \E d \in Clients, j \in Entries : Owns(d, j) /\ p \in PagesHeld(d, j)
    BY Zenon DEF AllocInv, BitmapExact
  <2>2. p \in bitmap' <=> p \in bitmap /\ p \notin PagesHeld(c, i)
    BY <1>3, Zenon DEF PagesHeld
  <2>3. ASSUME p \in bitmap'
        PROVE  \E d \in Clients, j \in Entries : (Owns(d, j) /\ p \in PagesHeld(d, j))'
    <3>1. PICK d \in Clients, j \in Entries : Owns(d, j) /\ p \in PagesHeld(d, j)
      BY <2>1, <2>2, <2>3, Zenon
    <3>2. <<d, j>> # <<c, i>>
      BY <3>1, <2>2, <2>3, Zenon
    <3>. QED
      BY <3>1, <3>2, <1>5, Zenon
  <2>4. ASSUME NEW d \in Clients, NEW j \in Entries, (Owns(d, j) /\ p \in PagesHeld(d, j))'
        PROVE  p \in bitmap'
    BY <2>4, <2>1, <2>2, <1>4, <1>5, <1>8, Zenon
  <2>. QED
    BY <2>3, <2>4, Zenon
<1>. QED
  BY <1>6, <1>7, <1>9, Zenon DEF AllocInv

\* A step that neither allocates nor frees.
LEMMA NeutralStep ==
  ASSUME AllocInv, bitmap' = bitmap, InRange',
         \A d \in Clients, j \in Entries :
           /\ Owns(d, j)' <=> Owns(d, j)
           /\ Owns(d, j) => addr'[d][j] = addr[d][j] /\ len'[d][j] = len[d][j]
  PROVE  AllocInv'
<1>1. \A d \in Clients, j \in Entries :
        Owns(d, j) => PagesHeld(d, j)' = PagesHeld(d, j)
  BY Zenon DEF PagesHeld, Run
<1>2. AllocationsDisjoint'
  BY <1>1 DEF AllocInv, AllocationsDisjoint
<1>3. BitmapExact'
  BY <1>1, Zenon DEF AllocInv, BitmapExact
<1>. QED
  BY <1>2, <1>3, Zenon DEF AllocInv

-----------------------------------------------------------------------------
(* Type correctness of every step.                                         *)

\* A copy out of the pool reads pages of the pool.
LEMMA CopyOutType ==
  ASSUME TypeOK, InRange, BitmapExact, NEW c \in Clients, NEW i \in Entries, Owns(c, i),
         CopyOut(c, i, addr[c][i], len[c][i])
  PROVE  buf' \in [Clients -> [Entries -> Values \cup {Unset}]]
<1>1. PagesHeld(c, i) \subseteq Pages
  BY HeldMarked, Zenon
<1>2. PICK p \in Pages : buf' = [buf EXCEPT ![c][i] = pool[p]]
  BY <1>1, Zenon DEF CopyOut, PagesHeld
<1>3. pool[p] \in Values \cup {Unset}
  BY Zenon DEF TypeOK
<1>. QED
  BY <1>2, <1>3, Zenon DEF TypeOK

\* A copy into the pool writes a value.
LEMMA CopyInType ==
  ASSUME TypeOK, NEW a, NEW s, NEW v \in Values \cup {Unset}, CopyIn(a, s, v)
  PROVE  pool' \in [Pages -> Values \cup {Unset}]
<1>1. \A p \in Pages : pool[p] \in Values \cup {Unset}
  BY Zenon DEF TypeOK
<1>. QED
  BY <1>1, Zenon DEF CopyIn

\* Freeing leaves a set of pages.
LEMMA FreeType ==
  ASSUME TypeOK, NEW a, NEW s, pool_free(a, s)
  PROVE  bitmap' \subseteq Pages
BY Zenon DEF TypeOK, pool_free, bitmap_clear

\* Handing a buffer over leaves values.
LEMMA HandOverType ==
  ASSUME TypeOK, NEW c \in Clients, NEW n, HandOver(c, n)
  PROVE  expect' \in [Clients -> [Entries -> Values \cup {Unset}]]
<1>1. \A i \in Entries : expect[c][i] \in Values \cup {Unset}
  BY Zenon DEF TypeOK
<1>2. [i \in Entries |-> IF dir[c] = "FROM_DEVICE" /\ i <= n THEN Unset ELSE expect[c][i]]
        \in [Entries -> Values \cup {Unset}]
  BY <1>1, Zenon
<1>. QED
  BY <1>2, Zenon DEF HandOver, TypeOK

\* Giving buffers up, or losing track of one, leaves values.
LEMMA KeepBuffersType ==
  ASSUME TypeOK, NEW c \in Clients, NEW n, KeepBuffers(c, n)
  PROVE  /\ buf' \in [Clients -> [Entries -> Values \cup {Unset}]]
         /\ expect' \in [Clients -> [Entries -> Values \cup {Unset}]]
<1>1. ASSUME NEW f \in [Clients -> [Entries -> Values \cup {Unset}]]
      PROVE  [i \in Entries |-> IF i <= n THEN f[c][i] ELSE Unset]
               \in [Entries -> Values \cup {Unset}]
  <2>1. \A i \in Entries : f[c][i] \in Values \cup {Unset}
    BY Zenon
  <2>. QED
    BY <2>1, Zenon
<1>2. /\ [i \in Entries |-> IF i <= n THEN buf[c][i] ELSE Unset]
           \in [Entries -> Values \cup {Unset}]
      /\ [i \in Entries |-> IF i <= n THEN expect[c][i] ELSE Unset]
           \in [Entries -> Values \cup {Unset}]
  BY <1>1, Zenon DEF TypeOK
<1>. QED
  BY <1>2, Zenon DEF KeepBuffers, TypeOK

\* The same for Forget.
LEMMA ForgetType ==
  ASSUME TypeOK, NEW c \in Clients, expect' = expect \/ Forget(c)
  PROVE  expect' \in [Clients -> [Entries -> Values \cup {Unset}]]
<1>1. 1 \in Entries
  BY ConstantsAssumption DEF ConstantsAssumption, Entries
<1>2. expect \in [Clients -> [Entries -> Values \cup {Unset}]]
  BY Zenon DEF TypeOK
<1>3. [expect EXCEPT ![c][1] = Unset] \in [Clients -> [Entries -> Values \cup {Unset}]]
  BY <1>1, <1>2, Zenon
<1>. QED
  BY <1>2, <1>3, Zenon DEF Forget

\* The part of the type invariant that the allocation argument needs.
Funs ==
  /\ pc \in [Clients -> Locations]
  /\ nents \in [Clients -> 1 .. MaxNents]
  /\ idx \in [Clients -> 1 .. MaxNents + 1]
  /\ addr \in [Clients -> [Entries -> Pages \cup {DMA_MAPPING_ERROR}]]
  /\ len \in [Clients -> [Entries -> Nat]]
  /\ rec \in [Clients -> Bounce]

\* Entries is an interval of integers that starts at 1.
LEMMA EntriesInterval ==
  /\ MaxNents \in Int /\ 1 <= MaxNents /\ 1 \in Entries
  /\ \A i \in Entries : i \in Int /\ 1 <= i /\ i <= MaxNents
  /\ \A i \in Int : 1 <= i /\ i <= MaxNents => i \in Entries
BY ConstantsAssumption DEF ConstantsAssumption, Entries

\* Ranges of no entry and of one.
LEMMA FewEntries == \A i \in Entries : ~(1 <= i /\ i <= 0) /\ ((1 <= i /\ i <= 1) <=> i = 1)
BY EntriesInterval

\* Funs is a part of the type invariant; loop indices and addresses are integers.
LEMMA FunsType ==
  ASSUME TypeOK
  PROVE  /\ Funs
         /\ \A c \in Clients : /\ idx[c] \in Int /\ 1 <= idx[c] /\ idx[c] <= MaxNents + 1
                               /\ nents[c] \in Int /\ 1 <= nents[c] /\ nents[c] <= MaxNents
         /\ \A c \in Clients, i \in Entries : addr[c][i] \in Int
<1>1. Funs
  BY Zenon DEF TypeOK, Funs, Entries
<1>2. \A c \in Clients : /\ idx[c] \in Int /\ 1 <= idx[c] /\ idx[c] <= MaxNents + 1
                         /\ nents[c] \in Int /\ 1 <= nents[c] /\ nents[c] <= MaxNents
  BY <1>1, EntriesInterval DEF Funs
<1>3. Pages \cup {DMA_MAPPING_ERROR} \subseteq Int
  BY DEF Pages, DMA_MAPPING_ERROR
<1>4. \A c \in Clients, i \in Entries : addr[c][i] \in Int
  BY <1>1, <1>3, Zenon DEF Funs
<1>. QED
  BY <1>1, <1>2, <1>4, Zenon

\* What an update of one entry of one client changes.
LEMMA Update ==
  ASSUME NEW S, NEW f \in [Clients -> [Entries -> S]],
         NEW c \in Clients, NEW i \in Entries, NEW v
  PROVE  /\ [f EXCEPT ![c][i] = v][c][i] = v
         /\ \A j \in Entries \ {i} : [f EXCEPT ![c][i] = v][c][j] = f[c][j]
         /\ \A d \in Clients \ {c} : [f EXCEPT ![c][i] = v][d] = f[d]
BY Zenon

\* Locations at which only entry 1 is mapped.
LEMMA SingleEntry ==
  ASSUME TypeOK, NEW c \in Clients, ShapeOf(c),
         pc[c] \in Bounced \cup {"coherent", "inpool", "copyin", "record", "copyout", "release"}
  PROVE  /\ 1 \in Entries
         /\ addr[c][1] # DMA_MAPPING_ERROR
         /\ \A i \in Entries \ {1} : addr[c][i] = DMA_MAPPING_ERROR
<1>1. Mapped(c, 1, 1)
  BY Zenon DEF ShapeOf, Bounced
<1>. QED
  BY <1>1, EntriesInterval DEF Mapped

\* Facts about the entry at which a scatterlist loop stands.
LEMMA LoopEntry ==
  ASSUME TypeOK, NEW c \in Clients, ShapeOf(c)
  PROVE  /\ pc[c] = "sgmap" => \A i \in Entries : i < idx[c] <=> addr[c][i] # DMA_MAPPING_ERROR
         /\ pc[c] = "sgcopy" => idx[c] \in Entries /\ addr[c][idx[c]] # DMA_MAPPING_ERROR
         /\ pc[c] = "sgundo" => idx[c] \in Entries
         /\ pc[c] = "sgfree" \/ (pc[c] = "sgunmap" /\ idx[c] <= nents[c]) =>
              idx[c] \in Entries /\ addr[c][idx[c]] # DMA_MAPPING_ERROR
<1>0. /\ MaxNents \in Int /\ 1 <= MaxNents
      /\ idx[c] \in Int /\ 1 <= idx[c] /\ idx[c] <= MaxNents + 1
      /\ nents[c] \in Int /\ 1 <= nents[c] /\ nents[c] <= MaxNents
      /\ \A j \in Entries : j \in Int /\ 1 <= j /\ j <= MaxNents
      /\ \A j \in Int : 1 <= j /\ j <= MaxNents => j \in Entries
  BY FunsType, EntriesInterval, Zenon
<1>1. ASSUME pc[c] = "sgmap"
      PROVE  \A i \in Entries : i < idx[c] <=> addr[c][i] # DMA_MAPPING_ERROR
  <2>1. Mapped(c, 1, idx[c] - 1)
    BY <1>1, Zenon DEF ShapeOf
  <2>. QED
    BY <1>0, <2>1 DEF Mapped
<1>2. ASSUME pc[c] = "sgcopy"
      PROVE  idx[c] \in Entries /\ addr[c][idx[c]] # DMA_MAPPING_ERROR
  <2>1. Mapped(c, 1, idx[c]) /\ idx[c] <= nents[c]
    BY <1>2, Zenon DEF ShapeOf
  <2>2. idx[c] \in Entries
    BY <1>0, <2>1
  <2>. QED
    BY <1>0, <2>1, <2>2 DEF Mapped
<1>3. ASSUME pc[c] = "sgundo" PROVE idx[c] \in Entries
  <2>1. \E f \in 1 .. nents[c] : idx[c] <= f
    BY <1>3, Zenon DEF ShapeOf
  <2>. QED
    BY <1>0, <2>1
<1>4. ASSUME pc[c] = "sgfree" \/ (pc[c] = "sgunmap" /\ idx[c] <= nents[c])
      PROVE  idx[c] \in Entries /\ addr[c][idx[c]] # DMA_MAPPING_ERROR
  <2>1. Mapped(c, idx[c], nents[c]) /\ idx[c] <= nents[c]
    BY <1>4, Zenon DEF ShapeOf
  <2>2. idx[c] \in Entries
    BY <1>0, <2>1
  <2>. QED
    BY <1>0, <2>1, <2>2 DEF Mapped
<1>. QED
  BY <1>1, <1>2, <1>3, <1>4, Zenon

\* Every step keeps the type invariant.
LEMMA TypeStep ==
  ASSUME IndInv, NEW c \in Clients, ClientStep(c)
  PROVE  TypeOK'
<1>. TypeOK /\ ShapeOf(c) /\ InRange /\ BitmapExact
  BY Zenon DEF IndInv, Shape
<1>. USE DEF Goto, Return, Clear, TypeOK, Locations, Bounced, Dirs
<1>e. 1 \in Entries /\ Sizes \subseteq Nat /\ MapDirs \subseteq Dirs
      /\ 1 \in 1 .. MaxNents + 1 /\ \A n \in Entries : n + 1 \in 1 .. MaxNents + 1
  BY ConstantsAssumption DEF ConstantsAssumption, Entries
<1>n. NoBounce(c) \in Bounce
  BY DEF NoBounce, Bounce, DMA_MAPPING_ERROR
<1>1. ASSUME NEW s \in Sizes, NEW a \in Pages, dma_alloc(c, s, a) PROVE TypeOK'
  BY <1>1, <1>e, AllocFresh, KeepBuffersType, Zenon DEF dma_alloc
<1>2. ASSUME dma_free(c) PROVE TypeOK'
  BY <1>2, <1>e, FreeType, Zenon DEF dma_free
<1>3. ASSUME NEW v \in Values, CoherentWrite(c, v) PROVE TypeOK'
  BY <1>3, <1>e, CopyInType, Zenon DEF CoherentWrite
<1>4. ASSUME NEW o \in Clients, NEW d \in MapDirs, map_phys_in_pool(c, o, d) PROVE TypeOK'
  BY <1>4, <1>e, KeepBuffersType DEF map_phys_in_pool
<1>5. ASSUME NEW s \in Sizes, NEW d \in MapDirs, NEW a \in Pages, map_phys(c, s, d, a)
      PROVE  TypeOK'
  BY <1>5, <1>e, AllocFresh, KeepBuffersType, Zenon DEF map_phys
<1>6. CASE map_phys_copy(c)
  BY <1>6, <1>e, CopyInType DEF map_phys_copy
<1>7. CASE map_phys_copy_fails(c)
  BY <1>7, <1>e, FreeType, Zenon DEF map_phys_copy_fails
<1>8. CASE map_phys_record(c)
  <2>1. RecordOf(c) \in Bounce
    BY <1>e DEF RecordOf, Bounce, Pages, DMA_MAPPING_ERROR
  <2>. QED
    BY <1>8, <2>1, HandOverType, Zenon DEF map_phys_record
<1>9. CASE unmap_phys(c)
  BY <1>9 DEF unmap_phys, bounce_find_locked, list_del
<1>10. CASE unmap_phys_in_pool(c)
  BY <1>10, <1>e, Zenon DEF unmap_phys_in_pool
<1>11. CASE unmap_phys_copy(c) \/ sync_for_cpu_copy(c)
  <2>1. rec[c] = RecordOf(c) /\ Owns(c, 1)
    BY <1>11, SingleEntry, Zenon DEF IndInv, RecMatches, unmap_phys_copy, sync_for_cpu_copy, Owns
  <2>2. rec[c].phys = c /\ rec[c].size = len[c][1]
    BY <2>1 DEF RecordOf
  <2>3. CopyOut(c, 1, addr[c][1], len[c][1]) \/ buf' = buf
    BY <1>11, <2>2, Zenon DEF unmap_phys_copy, sync_for_cpu_copy
  <2>4. buf' \in [Clients -> [Entries -> Values \cup {Unset}]]
    BY <2>1, <2>3, <1>e, CopyOutType, Zenon
  <2>7. expect' \in [Clients -> [Entries -> Values \cup {Unset}]]
    BY <1>11, <2>2, ForgetType, Zenon DEF unmap_phys_copy, sync_for_cpu_copy
  <2>5. CASE unmap_phys_copy(c)
    BY <2>4, <2>5, <2>7, Zenon DEF unmap_phys_copy
  <2>6. CASE sync_for_cpu_copy(c)
    BY <1>n, <2>4, <2>6, <2>7, Zenon DEF sync_for_cpu_copy
  <2>. QED
    BY <1>11, <2>5, <2>6, Zenon
<1>12. CASE unmap_phys_release(c)
  BY <1>12, <1>e, <1>n, FreeType, Zenon DEF unmap_phys_release
<1>13. CASE sync_for_cpu(c)
  <2>1. rec' \in [Clients -> Bounce]
    BY <1>13, Zenon DEF sync_for_cpu, bounce_find_locked
  <2>2. pc' \in [Clients -> Locations]
    <3>1. pc' = [pc EXCEPT ![c] = "cpuowned"] \/ pc' = [pc EXCEPT ![c] = "synccpu"]
      BY <1>13, Zenon DEF sync_for_cpu
    <3>. QED
      BY <3>1, Zenon
  <2>. QED
    BY <1>13, <2>1, <2>2, Zenon DEF sync_for_cpu
<1>14. CASE sync_for_device(c)
  <2>1. rec' \in [Clients -> Bounce]
    BY <1>14, Zenon DEF sync_for_device, bounce_find_locked
  <2>2. pc' \in [Clients -> Locations]
    <3>1. pc' = [pc EXCEPT ![c] = "mapped"] \/ pc' = [pc EXCEPT ![c] = "syncdev"]
      BY <1>14, Zenon DEF sync_for_device
    <3>. QED
      BY <3>1, Zenon
  <2>3. expect' \in [Clients -> [Entries -> Values \cup {Unset}]]
    BY <1>14, HandOverType, Zenon DEF sync_for_device
  <2>. QED
    BY <1>14, <2>1, <2>2, <2>3, Zenon DEF sync_for_device
<1>15. CASE sync_for_device_copy(c)
  <2>1. rec[c].phys \in Clients
    BY Zenon DEF Bounce
  <2>2. pool' \in [Pages -> Values \cup {Unset}]
    <3>1. buf[rec[c].phys][1] \in Values \cup {Unset}
      BY <1>e, <2>1
    <3>2. CopyIn(addr[c][1], rec[c].size, buf[rec[c].phys][1]) \/ pool' = pool
      BY <1>15, Zenon DEF sync_for_device_copy
    <3>. QED
      BY <3>1, <3>2, CopyInType, Zenon
  <2>3. expect' \in [Clients -> [Entries -> Values \cup {Unset}]]
    BY <1>15, <2>1, ForgetType, Zenon DEF sync_for_device_copy
  <2>. QED
    BY <1>15, <1>n, <2>2, <2>3, Zenon DEF sync_for_device_copy
<1>16. ASSUME NEW n \in Entries, NEW s \in [Entries -> Sizes], NEW d \in MapDirs,
              map_sg(c, n, s, d)
       PROVE  TypeOK'
  <2>1. [i \in Entries |-> IF i <= n THEN s[i] ELSE 0] \in [Entries -> Nat]
    BY <1>e, Zenon
  <2>. QED
    BY <1>16, <1>e, <2>1, KeepBuffersType, Zenon DEF map_sg
<1>17. ASSUME NEW a \in Pages, map_sg_entry(c, a) PROVE TypeOK'
  <2>1. idx[c] \in Entries
    BY <1>17, ConstantsAssumption DEF map_sg_entry, Entries, ConstantsAssumption
  <2>2. bitmap' \subseteq Pages
    BY <1>17, <2>1, AllocFresh DEF map_sg_entry
  <2>3. idx' \in [Clients -> 1 .. MaxNents + 1] /\ pc' \in [Clients -> Locations]
    <3>1. CASE CopiesIn(dir[c])
      <4>1. idx' = idx /\ pc' = [pc EXCEPT ![c] = "sgcopy"]
        BY <1>17, <3>1, Zenon DEF map_sg_entry
      <4>. QED
        BY <4>1, Zenon
    <3>2. CASE ~CopiesIn(dir[c])
      <4>1. idx' = [idx EXCEPT ![c] = idx[c] + 1] /\ pc' = pc
        BY <1>17, <3>2, Zenon DEF map_sg_entry
      <4>. QED
        BY <1>e, <2>1, <4>1, Zenon
    <3>. QED
      BY <3>1, <3>2, Zenon
  <2>4. addr' \in [Clients -> [Entries -> Pages \cup {DMA_MAPPING_ERROR}]]
    BY <1>17, <2>1, Zenon DEF map_sg_entry
  <2>. QED
    BY <1>17, <2>2, <2>3, <2>4, Zenon DEF map_sg_entry
<1>18. CASE map_sg_copy(c)
  <2>1. idx[c] \in Entries
    BY <1>18, LoopEntry, Zenon DEF map_sg_copy
  <2>2. pool' \in [Pages -> Values \cup {Unset}]
    <3>1. buf[c][idx[c]] \in Values \cup {Unset}
      BY <2>1, ZenonT(40)
    <3>2. CopyIn(addr[c][idx[c]], len[c][idx[c]], buf[c][idx[c]])
      BY <1>18, Zenon DEF map_sg_copy
    <3>. QED
      BY <3>1, <3>2, CopyInType, Zenon
  <2>3. idx' \in [Clients -> 1 .. MaxNents + 1]
    BY <1>18, <1>e, <2>1, Zenon DEF map_sg_copy
  <2>. QED
    BY <1>18, <2>2, <2>3, Zenon DEF map_sg_copy
<1>19. CASE map_sg_entry_fails(c) \/ unmap_sg(c)
  BY <1>19, <1>e, Zenon DEF map_sg_entry_fails, unmap_sg
<1>20. CASE map_sg_done(c)
  BY <1>20, HandOverType, Zenon DEF map_sg_done
<1>21. CASE map_sg_undo(c) \/ unmap_sg_entry(c)
  <2>1. idx[c] \in Entries
    BY <1>21, LoopEntry, Zenon DEF map_sg_undo, unmap_sg_entry
  <2>2. bitmap' \subseteq Pages
    BY <1>21, FreeType, Zenon DEF map_sg_undo, unmap_sg_entry
  <2>3. CASE map_sg_undo(c)
    BY <1>e, <2>1, <2>2, <2>3, Zenon DEF map_sg_undo
  <2>4. CASE unmap_sg_entry(c)
    BY <1>e, <2>1, <2>2, <2>4, Zenon DEF unmap_sg_entry
  <2>. QED
    BY <1>21, <2>3, <2>4, Zenon
<1>22. CASE map_sg_undone(c)
  BY <1>22, <1>e, Zenon DEF map_sg_undone
<1>23. CASE unmap_sg_copy(c)
  <2>1. idx[c] \in Entries /\ Owns(c, idx[c])
    BY <1>23, LoopEntry, Zenon DEF unmap_sg_copy, Owns
  <2>2. buf' \in [Clients -> [Entries -> Values \cup {Unset}]]
    BY <1>23, <2>1, CopyOutType, Zenon DEF unmap_sg_copy
  <2>. QED
    BY <1>23, <2>2, Zenon DEF unmap_sg_copy
<1>24. CASE unmap_sg_done(c)
  BY <1>24, <1>e, Zenon DEF unmap_sg_done
<1>25. ASSUME NEW i \in Entries, NEW v \in Values, DeviceWrite(c, i, v) PROVE TypeOK'
  BY <1>25, CopyInType, Zenon DEF DeviceWrite
<1>26. ASSUME NEW i \in Entries, NEW v \in Values, CpuWrite(c, i, v) PROVE TypeOK'
  BY <1>26, Zenon DEF CpuWrite
<1>. QED
  BY <1>1, <1>2, <1>3, <1>4, <1>5, <1>6, <1>7, <1>8, <1>9, <1>10, <1>11, <1>12, <1>13,
     <1>14, <1>15, <1>16, <1>17, <1>18, <1>19, <1>20, <1>21, <1>22, <1>23, <1>24, <1>25,
     <1>26, Zenon
  DEF ClientStep

-----------------------------------------------------------------------------
(* What remains of the inductive step once a step is known to touch only   *)
(* the caller.                                                             *)

Others(c) ==
  \A d \in Clients \ {c} :
    /\ pc'[d] = pc[d] /\ addr'[d] = addr[d] /\ len'[d] = len[d]
    /\ idx'[d] = idx[d] /\ nents'[d] = nents[d] /\ rec'[d] = rec[d]

\* A coherent allocation stays where it is while somebody maps into it.
KeepsOwner(c) ==
  pc[c] = "coherent" =>
    \/ pc'[c] = "coherent" /\ addr'[c][1] = addr[c][1]
    \/ \A d \in Clients : pc[d] = "inpool" => addr[d][1] # addr[c][1]

RecOf(c) ==
  pc[c] \in {"copyout", "release", "synccpu", "syncdev"} => rec[c] = RecordOf(c)

\* A step of c preserves the invariant if it does so where c is concerned.
LEMMA IndStep ==
  ASSUME IndInv, NEW c \in Clients, Others(c), TypeOK', AllocInv', BouncesExact',
         ShapeOf(c)', RecOf(c)', KeepsOwner(c),
         pc'[c] = "inpool" =>
           \E o \in Clients \ {c} : pc[o] = "coherent" /\ addr[o][1] = addr'[c][1]
  PROVE  IndInv'
<1>1. Shape'
  <2>. SUFFICES ASSUME NEW d \in Clients \ {c} PROVE ShapeOf(d)'
    BY Zenon DEF Shape
  <2>1. ShapeOf(d)
    BY Zenon DEF IndInv, Shape
  <2>2. pc'[d] = pc[d] /\ addr'[d] = addr[d] /\ idx'[d] = idx[d] /\ nents'[d] = nents[d]
    BY Zenon DEF Others
  <2>3. \A lo, hi : Mapped(d, lo, hi)' <=> Mapped(d, lo, hi)
    BY <2>2, Zenon DEF Mapped
  <2>. QED
    BY <2>1, <2>2, <2>3, Zenon DEF ShapeOf
<1>2. RecMatches'
  BY Zenon DEF IndInv, RecMatches, RecOf, RecordOf, Others
<1>3. InPoolInside'
  <2>. SUFFICES ASSUME NEW d \in Clients, pc'[d] = "inpool"
                PROVE  \E o \in Clients : pc'[o] = "coherent" /\ addr'[o][1] = addr'[d][1]
    BY Zenon DEF InPoolInside
  <2>1. CASE d = c
    BY <2>1, Zenon DEF Others
  <2>2. CASE d # c
    <3>1. pc[d] = "inpool" /\ addr'[d] = addr[d]
      BY <2>2, Zenon DEF Others
    <3>2. PICK o \in Clients : pc[o] = "coherent" /\ addr[o][1] = addr[d][1]
      BY <3>1, Zenon DEF IndInv, InPoolInside
    <3>3. pc'[o] = "coherent" /\ addr'[o][1] = addr[o][1]
      BY <3>1, <3>2, Zenon DEF Others, KeepsOwner
    <3>. QED
      BY <3>1, <3>2, <3>3, Zenon
  <2>. QED
    BY <2>1, <2>2, Zenon
<1>. QED
  BY <1>1, <1>2, <1>3, Zenon DEF IndInv, AllocInv

\* The list of records stays right when neither the bounced clients nor their
\* addresses change.
LEMMA BouncesSame ==
  ASSUME BouncesExact, bounces' = bounces, NEW c \in Clients, Others(c),
         pc'[c] \in Bounced <=> pc[c] \in Bounced,
         pc[c] \in Bounced => addr'[c][1] = addr[c][1] /\ len'[c][1] = len[c][1]
  PROVE  BouncesExact'
<1>1. \A d \in Clients : pc'[d] \in Bounced <=> pc[d] \in Bounced
  BY Zenon DEF Others
<1>2. \A d \in Clients : pc[d] \in Bounced => RecordOf(d)' = RecordOf(d)
  BY Zenon DEF Others, RecordOf
<1>. QED
  BY <1>1, <1>2, Zenon DEF BouncesExact

\* A step that changes no address: only the caller's location, loop index and
\* record, and contents.
LEMMA QuietStep ==
  ASSUME IndInv, NEW c \in Clients, TypeOK', Others(c),
         bitmap' = bitmap, bounces' = bounces, addr' = addr,
         \A j \in Entries : addr[c][j] # DMA_MAPPING_ERROR => len'[c][j] = len[c][j],
         pc'[c] \in Bounced <=> pc[c] \in Bounced,
         pc'[c] = "inpool" <=> pc[c] = "inpool",
         pc[c] = "coherent" => pc'[c] = "coherent",
         pc[c] # "inpool",
         ShapeOf(c)', RecOf(c)'
  PROVE  IndInv'
<1>0. \A d \in Clients, j \in Entries :
        addr[d][j] # DMA_MAPPING_ERROR => len'[d][j] = len[d][j]
  BY Zenon DEF Others
<1>1. InRange'
  BY <1>0, Zenon DEF IndInv, InRange
<1>2. \A d \in Clients, j \in Entries : Owns(d, j)' <=> Owns(d, j)
  BY DEF Owns, Others
<1>3. AllocInv'
  BY <1>0, <1>1, <1>2, NeutralStep, Zenon DEF IndInv, AllocInv, Owns
<1>4. pc[c] \in Bounced => len'[c][1] = len[c][1]
  BY <1>0, SingleEntry, Zenon DEF IndInv, Shape
<1>5. BouncesExact'
  BY <1>4, BouncesSame, Zenon DEF IndInv
<1>. QED
  BY <1>3, <1>5, IndStep, Zenon DEF KeepsOwner

\* The record found by a lookup of a bounced mapping is the caller's own.
LEMMA FindsOwn ==
  ASSUME IndInv, NEW c \in Clients, pc[c] \in Bounced
  PROVE  bounce_find_locked(addr[c][1]) = {RecordOf(c)}
<1>1. RecordOf(c) \in bounce_find_locked(addr[c][1])
  BY Zenon DEF IndInv, BouncesExact, bounce_find_locked, RecordOf
<1>2. ASSUME NEW b \in bounce_find_locked(addr[c][1]) PROVE b = RecordOf(c)
  <2>1. PICK d \in Clients : pc[d] \in Bounced /\ b = RecordOf(d)
    BY Zenon DEF IndInv, BouncesExact, bounce_find_locked
  <2>2. addr[d][1] = addr[c][1]
    BY <2>1, Zenon DEF bounce_find_locked, RecordOf
  <2>3. 1 \in Entries /\ Owns(c, 1) /\ Owns(d, 1)
    BY <2>1, SingleEntry, Zenon DEF IndInv, Shape, Owns, Bounced
  <2>4. addr[c][1] \in PagesHeld(c, 1) /\ addr[c][1] \in PagesHeld(d, 1)
    <3>1. addr[c][1] \in Int /\ len[c][1] \in Nat /\ len[d][1] \in Nat
      BY <2>3, FunsType, Zenon DEF IndInv, Funs
    <3>2. PagesOf(len[c][1]) > 0 /\ PagesOf(len[d][1]) > 0
      BY <2>3, Zenon DEF IndInv, InRange, Owns
    <3>. QED
      BY <2>2, <3>1, <3>2, PagesOfNat DEF PagesHeld, Run
  <2>5. d = c
    BY <2>3, <2>4, Zenon DEF IndInv, AllocationsDisjoint
  <2>. QED
    BY <2>1, <2>5, Zenon
<1>. QED
  BY <1>1, <1>2, Zenon

\* Calls on a single mapping that change no address.
LEMMA QuietSingle ==
  ASSUME IndInv, NEW c \in Clients, ClientStep(c),
         \/ \E v \in Values : CoherentWrite(c, v)
         \/ map_phys_copy(c) \/ unmap_phys_copy(c)
         \/ sync_for_cpu(c) \/ sync_for_cpu_copy(c)
         \/ sync_for_device(c) \/ sync_for_device_copy(c)
         \/ \E i \in Entries, v \in Values : DeviceWrite(c, i, v) \/ CpuWrite(c, i, v)
  PROVE  IndInv'
<1>. USE DEF Goto
<1>1. TypeOK' /\ TypeOK /\ ShapeOf(c)
  BY TypeStep, Zenon DEF IndInv, Shape
<1>f. Funs
  BY <1>1, FunsType, Zenon
<1>2. /\ bitmap' = bitmap /\ bounces' = bounces /\ addr' = addr /\ len' = len
      /\ idx' = idx /\ nents' = nents
  BY Zenon DEF CoherentWrite, map_phys_copy, unmap_phys_copy, sync_for_cpu, sync_for_cpu_copy,
         sync_for_device, sync_for_device_copy, DeviceWrite, CpuWrite
<1>3. Others(c)
  BY <1>f, <1>2, Zenon
  DEF Others, CoherentWrite, map_phys_copy, unmap_phys_copy, sync_for_cpu,
      sync_for_cpu_copy, sync_for_device, sync_for_device_copy, DeviceWrite, CpuWrite, Funs
<1>4. \/ pc'[c] = pc[c] /\ pc[c] \in {"coherent", "mapped", "sgmapped", "idle", "cpuowned"}
      \/ pc[c] = "copyin" /\ pc'[c] = "record"
      \/ pc[c] = "copyout" /\ pc'[c] = "release" /\ rec' = rec
      \/ pc[c] \in Bounced /\ pc'[c] \in {"mapped", "cpuowned"}
      \/ pc[c] \in Bounced /\ pc'[c] \in {"synccpu", "syncdev"} /\ rec'[c] = RecordOf(c)
  <2>1. CASE \/ \E v \in Values : CoherentWrite(c, v)
             \/ \E i \in Entries, v \in Values : DeviceWrite(c, i, v) \/ CpuWrite(c, i, v)
    BY <2>1, Zenon DEF CoherentWrite, DeviceWrite, CpuWrite
  <2>2. CASE map_phys_copy(c) \/ unmap_phys_copy(c)
    BY <1>f, <2>2, Zenon DEF map_phys_copy, unmap_phys_copy, Funs
  <2>3. CASE sync_for_cpu(c) \/ sync_for_device(c)
    <3>1. pc[c] \in Bounced
      BY <2>3, Zenon DEF sync_for_cpu, sync_for_device, Bounced
    <3>2. bounce_find_locked(addr[c][1]) = {RecordOf(c)}
      BY <3>1, FindsOwn, Zenon
    <3>. QED
      BY <1>f, <2>3, <3>1, <3>2, Zenon DEF sync_for_cpu, sync_for_device, Funs
  <2>4. CASE sync_for_cpu_copy(c) \/ sync_for_device_copy(c)
    BY <1>f, <2>4, Zenon DEF sync_for_cpu_copy, sync_for_device_copy, Funs, Bounced
  <2>. QED
    BY <2>1, <2>2, <2>3, <2>4, Zenon
<1>5. \A lo, hi : Mapped(c, lo, hi)' <=> Mapped(c, lo, hi)
  BY <1>2, Zenon DEF Mapped
<1>6. ShapeOf(c)'
  BY <1>1, <1>2, <1>4, <1>5, Zenon DEF ShapeOf, Bounced
<1>7. RecOf(c)'
  BY <1>2, <1>4, Zenon DEF RecOf, RecordOf, IndInv, RecMatches, Bounced
<1>8. /\ pc'[c] \in Bounced <=> pc[c] \in Bounced
      /\ pc'[c] # "inpool" /\ pc[c] # "inpool"
      /\ pc[c] = "coherent" => pc'[c] = "coherent"
  BY <1>4, Zenon DEF Bounced
<1>. QED
  BY <1>1, <1>2, <1>3, <1>6, <1>7, <1>8, QuietStep, Zenon

\* Arithmetic of the loop indices.
LEMMA IndexArithmetic ==
  /\ \A i \in Int : (i + 1) - 1 = i
  /\ \A i, n \in Int : i <= n => i + 1 <= n + 1
  /\ \A i, n \in Int : 1 <= i /\ i <= n => i \in 1 .. n
  /\ \A i, j, n \in Int : i > n => ~(i <= j /\ j <= n)
  /\ \A i, n \in Int : i > n /\ i <= n + 1 => i - 1 = n
  /\ \A j \in Int : ~(1 <= j /\ j <= 0)
OBVIOUS

\* Scatter-gather calls that change no address.
QuietSgStep(c) ==
  \/ \E n \in Entries, s \in [Entries -> Sizes], d \in MapDirs : map_sg(c, n, s, d)
  \/ map_sg_copy(c) \/ map_sg_entry_fails(c) \/ map_sg_done(c) \/ map_sg_undone(c)
  \/ unmap_sg(c) \/ unmap_sg_copy(c) \/ unmap_sg_done(c)

\* They preserve the invariant.
LEMMA QuietSg ==
  ASSUME IndInv, NEW c \in Clients, ClientStep(c), QuietSgStep(c)
  PROVE  IndInv'
<1>. USE DEF Goto, Return
<1>1. TypeOK' /\ TypeOK /\ ShapeOf(c)
  BY TypeStep, Zenon DEF IndInv, Shape
<1>f. Funs
  BY <1>1, FunsType, Zenon
<1>2. /\ bitmap' = bitmap /\ bounces' = bounces /\ addr' = addr /\ rec' = rec
  BY Zenon DEF QuietSgStep, map_sg, map_sg_copy, map_sg_entry_fails, map_sg_done, map_sg_undone,
         unmap_sg, unmap_sg_copy, unmap_sg_done
<1>3. Others(c)
  BY <1>f, <1>2, Zenon
  DEF Others, QuietSgStep, map_sg, map_sg_copy, map_sg_entry_fails, map_sg_done, map_sg_undone,
      unmap_sg, unmap_sg_copy, unmap_sg_done, Funs
<1>4. \A lo, hi : Mapped(c, lo, hi)' <=> Mapped(c, lo, hi)
  BY <1>2, Zenon DEF Mapped
<1>5. /\ MaxNents \in Int /\ 1 <= MaxNents
      /\ idx[c] \in Int /\ 1 <= idx[c] /\ idx[c] <= MaxNents + 1
      /\ nents[c] \in Int /\ 1 <= nents[c] /\ nents[c] <= MaxNents
  BY <1>1, FunsType, EntriesInterval, Zenon
<1>e. /\ \A j \in Entries : j \in Int /\ 1 <= j /\ j <= MaxNents
      /\ \A j \in Int : 1 <= j /\ j <= MaxNents => j \in Entries
  BY EntriesInterval, Zenon
<1>6. /\ pc[c] \in {"idle", "sgmap", "sgcopy", "sgmapped", "sgunmap", "sgundo"}
      /\ pc'[c] \in {"idle", "sgmap", "sgundo", "sgmapped", "sgunmap", "sgfree"}
      /\ ShapeOf(c)'
      /\ \A j \in Entries : addr[c][j] # DMA_MAPPING_ERROR => len'[c][j] = len[c][j]
  <2>1. ASSUME NEW n \in Entries, NEW s \in [Entries -> Sizes], NEW d \in MapDirs,
               map_sg(c, n, s, d)
        PROVE  <1>6!:
    <3>1. pc[c] = "idle" /\ pc'[c] = "sgmap" /\ idx'[c] = 1 /\ nents'[c] = n
      BY <1>f, <2>1, Zenon DEF map_sg, Funs
    <3>2. Mapped(c, 1, 0)
      BY <1>1, <3>1, Zenon DEF ShapeOf
    <3>3. \A i \in Entries : addr[c][i] = DMA_MAPPING_ERROR
      BY <1>5, <1>e, <3>2 DEF Mapped
    <3>4. idx'[c] - 1 = 0 /\ idx'[c] <= nents'[c] + 1
      <4>1. nents'[c] \in Int /\ 1 <= nents'[c]
        BY <1>e, <3>1, Zenon
      <4>. QED
        BY <3>1, <4>1
    <3>5. ShapeOf(c)'
      BY <1>4, <3>1, <3>2, <3>4, Zenon DEF ShapeOf
    <3>. QED
      BY <3>1, <3>3, <3>5, Zenon
  <2>2. CASE map_sg_copy(c)
    <3>1. /\ pc[c] = "sgcopy" /\ pc'[c] = "sgmap" /\ idx'[c] = idx[c] + 1 /\ nents' = nents
          /\ len' = len
      BY <1>f, <2>2, Zenon DEF map_sg_copy, Funs
    <3>2. Mapped(c, 1, idx[c]) /\ idx[c] <= nents[c]
      BY <1>1, <3>1, Zenon DEF ShapeOf
    <3>3. idx'[c] - 1 = idx[c] /\ idx'[c] <= nents'[c] + 1
      <4>1. (idx[c] + 1) - 1 = idx[c] /\ idx[c] + 1 <= nents[c] + 1
        BY <1>5, <3>2, IndexArithmetic, Zenon
      <4>2. idx'[c] = idx[c] + 1 /\ nents'[c] = nents[c]
        BY <3>1, Zenon
      <4>. QED
        BY <4>1, <4>2, Zenon
    <3>4. ShapeOf(c)'
      BY <1>4, <3>1, <3>2, <3>3, Zenon DEF ShapeOf
    <3>. QED
      BY <3>1, <3>4, Zenon
  <2>3. CASE map_sg_entry_fails(c)
    <3>1. /\ pc[c] = "sgmap" /\ pc'[c] = "sgundo" /\ idx'[c] = 1 /\ nents' = nents
          /\ len' = len /\ idx[c] <= nents[c]
      BY <1>f, <2>3, Zenon DEF map_sg_entry_fails, Funs
    <3>2. Mapped(c, 1, idx[c] - 1)
      BY <1>1, <3>1, Zenon DEF ShapeOf
    <3>3. idx[c] \in 1 .. nents'[c] /\ idx'[c] <= idx[c]
      BY <1>5, <3>1, IndexArithmetic, Zenon
    <3>5. ShapeOf(c)'
      BY <1>4, <3>1, <3>2, <3>3, Zenon DEF ShapeOf
    <3>. QED
      BY <3>1, <3>5, Zenon
  <2>4. CASE map_sg_done(c)
    <3>1. /\ pc[c] = "sgmap" /\ pc'[c] = "sgmapped" /\ nents' = nents /\ len' = len
          /\ idx[c] > nents[c]
      BY <1>f, <2>4, Zenon DEF map_sg_done, Funs
    <3>2. idx[c] <= nents[c] + 1 /\ Mapped(c, 1, idx[c] - 1)
      BY <1>1, <3>1, Zenon DEF ShapeOf
    <3>3. idx[c] - 1 = nents[c]
      BY <1>5, <3>1, <3>2, IndexArithmetic, Zenon
    <3>4. ShapeOf(c)'
      BY <1>4, <3>1, <3>2, <3>3, Zenon DEF ShapeOf
    <3>. QED
      BY <3>1, <3>4, Zenon
  <2>5. CASE map_sg_undone(c)
    <3>1. pc[c] = "sgundo" /\ pc'[c] = "idle" /\ addr[c][idx[c]] = DMA_MAPPING_ERROR
      BY <1>f, <2>5, Zenon DEF map_sg_undone, Funs
    <3>2. PICK f \in 1 .. nents[c] : idx[c] <= f /\ Mapped(c, idx[c], f - 1)
      BY <1>1, <3>1, Zenon DEF ShapeOf
    <3>3. idx[c] \in Entries /\ ~(idx[c] <= f - 1)
      BY <1>5, <1>e, <3>1, <3>2 DEF Mapped
    <3>4. \A i \in Entries : addr[c][i] = DMA_MAPPING_ERROR
      BY <1>5, <1>e, <3>2, <3>3 DEF Mapped
    <3>5. Mapped(c, 1, 0)
      BY <1>5, <1>e, <3>4 DEF Mapped
    <3>6. ShapeOf(c)'
      BY <1>4, <3>1, <3>5, Zenon DEF ShapeOf
    <3>. QED
      BY <3>1, <3>4, <3>6, Zenon
  <2>6. CASE unmap_sg(c)
    <3>1. /\ pc[c] = "sgmapped" /\ pc'[c] = "sgunmap" /\ idx'[c] = 1 /\ nents' = nents
          /\ len' = len
      BY <1>f, <2>6, Zenon DEF unmap_sg, Funs
    <3>2. Mapped(c, 1, nents[c]) /\ 1 <= nents[c] + 1
      BY <1>1, <1>5, <3>1 DEF ShapeOf
    <3>3. ShapeOf(c)'
      BY <1>4, <3>1, <3>2, Zenon DEF ShapeOf
    <3>. QED
      BY <3>1, <3>3, Zenon
  <2>7. CASE unmap_sg_copy(c)
    <3>1. /\ pc[c] = "sgunmap" /\ pc'[c] = "sgfree" /\ idx' = idx /\ nents' = nents
          /\ len' = len /\ idx[c] <= nents[c]
      BY <1>f, <2>7, Zenon DEF unmap_sg_copy, Funs
    <3>2. ShapeOf(c)'
      BY <1>1, <1>4, <3>1, Zenon DEF ShapeOf
    <3>. QED
      BY <3>1, <3>2, Zenon
  <2>8. CASE unmap_sg_done(c)
    <3>1. pc[c] = "sgunmap" /\ pc'[c] = "idle" /\ idx[c] > nents[c] /\ len' = len
      BY <1>f, <2>8, Zenon DEF unmap_sg_done, Funs
    <3>2. Mapped(c, idx[c], nents[c])
      BY <1>1, <3>1, Zenon DEF ShapeOf
    <3>3. Mapped(c, 1, 0)
      <4>1. \A j \in Entries : ~(idx[c] <= j /\ j <= nents[c]) /\ ~(1 <= j /\ j <= 0)
        BY <1>5, <1>e, <3>1, IndexArithmetic, Zenon
      <4>. QED
        BY <3>2, <4>1, Zenon DEF Mapped
    <3>4. ShapeOf(c)'
      BY <1>4, <3>1, <3>3, Zenon DEF ShapeOf
    <3>. QED
      BY <3>1, <3>4, Zenon
  <2>. QED
    BY <2>1, <2>2, <2>3, <2>4, <2>5, <2>6, <2>7, <2>8, Zenon DEF QuietSgStep
<1>7. /\ RecOf(c)'
      /\ pc'[c] \in Bounced <=> pc[c] \in Bounced
      /\ pc'[c] # "inpool" /\ pc[c] # "inpool" /\ pc[c] # "coherent"
  BY <1>6, Zenon DEF RecOf, Bounced
<1>. QED
  BY <1>1, <1>2, <1>3, <1>6, <1>7, QuietStep, Zenon

-----------------------------------------------------------------------------
(* The steps that allocate, free, pass through, link or unlink.            *)

\* No record carries an address that was passed through.
LEMMA NoRecordInPool ==
  ASSUME IndInv, NEW c \in Clients, pc[c] = "inpool"
  PROVE  bounce_find_locked(addr[c][1]) = {}
<1>. SUFFICES ASSUME NEW b \in bounce_find_locked(addr[c][1]) PROVE FALSE
  BY Zenon
<1>1. PICK d \in Clients : pc[d] \in Bounced /\ b = RecordOf(d)
  BY Zenon DEF IndInv, BouncesExact, bounce_find_locked
<1>2. PICK o \in Clients : pc[o] = "coherent" /\ addr[o][1] = addr[c][1]
  BY Zenon DEF IndInv, InPoolInside
<1>3. addr[d][1] = addr[o][1] /\ d # o
  BY <1>1, <1>2, Zenon DEF bounce_find_locked, RecordOf, Bounced
<1>4. 1 \in Entries /\ Owns(o, 1) /\ Owns(d, 1)
  BY <1>1, <1>2, SingleEntry, Zenon DEF IndInv, Shape, Owns, Bounced
<1>5. addr[o][1] \in PagesHeld(o, 1) /\ addr[o][1] \in PagesHeld(d, 1)
  <2>1. addr[o][1] \in Int /\ len[o][1] \in Nat /\ len[d][1] \in Nat
    BY <1>4, FunsType, Zenon DEF IndInv, Funs
  <2>2. PagesOf(len[o][1]) > 0 /\ PagesOf(len[d][1]) > 0
    BY <1>4, Zenon DEF IndInv, InRange, Owns
  <2>. QED
    BY <1>3, <2>1, <2>2, PagesOfNat DEF PagesHeld, Run
<1>. QED
  BY <1>3, <1>4, <1>5, Zenon DEF IndInv, AllocationsDisjoint

\* dma_alloc and the allocation of map_phys.
LEMMA SingleAlloc ==
  ASSUME IndInv, NEW c \in Clients, ClientStep(c),
         NEW s \in Sizes, NEW a \in Pages,
         dma_alloc(c, s, a) \/ \E d \in MapDirs : map_phys(c, s, d, a)
  PROVE  IndInv'
<1>. USE DEF Goto
<1>1. TypeOK' /\ TypeOK /\ ShapeOf(c) /\ AllocInv /\ 1 \in Entries /\ s \in Nat
  BY TypeStep, ConstantsAssumption DEF IndInv, Shape, AllocInv, Entries, ConstantsAssumption
<1>f. Funs
  BY <1>1, FunsType, Zenon
<1>2. /\ pc[c] = "idle" /\ pc'[c] \in {"coherent", "copyin", "record"}
      /\ pool_alloc(s, a) /\ bounces' = bounces /\ rec' = rec
      /\ idx' = idx /\ nents' = nents
      /\ addr' = [addr EXCEPT ![c][1] = a] /\ len' = [len EXCEPT ![c][1] = s]
      /\ \A d \in Clients \ {c} : pc'[d] = pc[d]
  BY <1>f, Zenon DEF dma_alloc, map_phys, Funs
<1>3. Others(c)
  BY <1>1, <1>2, <1>f, Update, Zenon DEF Others, Funs
<1>4. \A i \in Entries : addr[c][i] = DMA_MAPPING_ERROR
  <2>1. Mapped(c, 1, 0)
    BY <1>1, <1>2, Zenon DEF ShapeOf
  <2>. QED
    BY <2>1, FewEntries, Zenon DEF Mapped
<1>5. addr'[c][1] = a /\ len'[c][1] = s /\ \A i \in Entries \ {1} :
        addr'[c][i] = addr[c][i] /\ len'[c][i] = len[c][i]
  BY <1>1, <1>2, <1>f, Update DEF Funs
<1>6. AllocInv'
  <2>1. \A d \in Clients, j \in Entries : <<d, j>> # <<c, 1>> =>
          addr'[d][j] = addr[d][j] /\ len'[d][j] = len[d][j]
    BY <1>3, <1>5, Zenon DEF Others
  <2>2. \A d \in Clients : pc'[d] = "inpool" <=> pc[d] = "inpool"
    BY <1>2, Zenon
  <2>. QED
    BY <1>1, <1>2, <1>4, <1>5, <2>1, <2>2, AllocStep, Zenon
<1>7. BouncesExact'
  BY <1>2, <1>3, BouncesSame, Zenon DEF IndInv, Bounced
<1>8. Mapped(c, 1, 1)'
  <2>1. a # DMA_MAPPING_ERROR
    BY DEF Pages, DMA_MAPPING_ERROR
  <2>. QED
    BY <1>4, <1>5, <2>1, FewEntries, Zenon DEF Mapped
<1>9. ShapeOf(c)' /\ RecOf(c)' /\ KeepsOwner(c) /\ pc'[c] # "inpool"
  BY <1>2, <1>8, Zenon DEF ShapeOf, RecOf, KeepsOwner
<1>. QED
  BY <1>1, <1>3, <1>6, <1>7, <1>9, IndStep, Zenon

\* Every release of a single mapping.
LEMMA SingleFree ==
  ASSUME IndInv, NEW c \in Clients, ClientStep(c),
         dma_free(c) \/ map_phys_copy_fails(c) \/ unmap_phys_release(c)
  PROVE  IndInv'
<1>. USE DEF Goto, Return, Clear
<1>1. TypeOK' /\ TypeOK /\ ShapeOf(c) /\ AllocInv
  BY TypeStep, Zenon DEF IndInv, Shape, AllocInv
<1>f. Funs
  BY <1>1, FunsType, Zenon
<1>2. pc[c] \in {"coherent", "copyin", "release"}
  BY Zenon DEF dma_free, map_phys_copy_fails, unmap_phys_release
<1>3. 1 \in Entries /\ Owns(c, 1) /\ \A i \in Entries \ {1} : addr[c][i] = DMA_MAPPING_ERROR
  BY <1>1, <1>2, SingleEntry, Zenon DEF Owns
<1>4. /\ pc'[c] = "idle" /\ bounces' = bounces
      /\ addr' = [addr EXCEPT ![c][1] = DMA_MAPPING_ERROR]
      /\ len' = [len EXCEPT ![c][1] = 0]
      /\ \A d \in Clients \ {c} :
           pc'[d] = pc[d] /\ idx'[d] = idx[d] /\ nents'[d] = nents[d] /\ rec'[d] = rec[d]
  <2>1. CASE dma_free(c)
    BY <1>f, <2>1, Zenon DEF dma_free, Funs
  <2>2. CASE map_phys_copy_fails(c)
    BY <1>f, <2>2, Zenon DEF map_phys_copy_fails, Funs
  <2>3. CASE unmap_phys_release(c)
    BY <1>f, <2>3, Zenon DEF unmap_phys_release, Funs
  <2>. QED
    BY <2>1, <2>2, <2>3, Zenon
<1>5. pool_free(addr[c][1], len[c][1])
  <2>1. CASE dma_free(c) \/ map_phys_copy_fails(c)
    BY <2>1, Zenon DEF dma_free, map_phys_copy_fails
  <2>2. CASE unmap_phys_release(c)
    <3>0. pc[c] = "release" /\ pool_free(addr[c][1], rec[c].size)
      BY <2>2, Zenon DEF unmap_phys_release
    <3>1. rec[c] = RecordOf(c)
      BY <3>0, Zenon DEF IndInv, RecMatches
    <3>2. rec[c].size = len[c][1]
      BY <3>1 DEF RecordOf
    <3>. QED
      BY <3>0, <3>2, Zenon
  <2>. QED
    BY <2>1, <2>2, Zenon
<1>6. Others(c)
  BY <1>3, <1>4, <1>f, Update, Zenon DEF Others, Funs
<1>7. addr'[c][1] = DMA_MAPPING_ERROR /\ \A i \in Entries \ {1} :
        addr'[c][i] = addr[c][i] /\ len'[c][i] = len[c][i]
  BY <1>f, <1>3, <1>4, Update DEF Funs
<1>8. AllocInv'
  <2>1. \A d \in Clients, j \in Entries : <<d, j>> # <<c, 1>> =>
          addr'[d][j] = addr[d][j] /\ len'[d][j] = len[d][j]
    BY <1>6, <1>7, Zenon DEF Others
  <2>2. \A d \in Clients : pc'[d] = "inpool" <=> pc[d] = "inpool"
    BY <1>2, <1>4, Zenon
  <2>. QED
    BY <1>1, <1>3, <1>5, <1>7, <2>1, <2>2, FreeStep, Zenon
<1>9. BouncesExact'
  BY <1>2, <1>4, <1>6, BouncesSame, Zenon DEF IndInv, Bounced
<1>10. Mapped(c, 1, 0)'
  BY <1>3, <1>7, FewEntries, Zenon DEF Mapped
<1>11. ShapeOf(c)' /\ RecOf(c)' /\ pc'[c] # "inpool"
  BY <1>4, <1>10, Zenon DEF ShapeOf, RecOf
<1>12. KeepsOwner(c)
  BY Zenon DEF KeepsOwner, dma_free, map_phys_copy_fails, unmap_phys_release
<1>. QED
  BY <1>1, <1>6, <1>8, <1>9, <1>11, <1>12, IndStep, Zenon

\* map_phys of an address inside the pool.
LEMMA PassThrough ==
  ASSUME IndInv, NEW c \in Clients, ClientStep(c),
         NEW o \in Clients \ {c}, NEW d \in MapDirs, map_phys_in_pool(c, o, d)
  PROVE  IndInv'
<1>. USE DEF Goto
<1>1. TypeOK' /\ TypeOK /\ ShapeOf(c) /\ ShapeOf(o) /\ AllocInv /\ 1 \in Entries
  BY TypeStep, ConstantsAssumption DEF IndInv, Shape, AllocInv, Entries, ConstantsAssumption
<1>f. Funs
  BY <1>1, FunsType, Zenon
<1>2. /\ pc[c] = "idle" /\ pc[o] = "coherent" /\ pc' = [pc EXCEPT ![c] = "inpool"]
      /\ addr' = [addr EXCEPT ![c][1] = addr[o][1]] /\ len' = [len EXCEPT ![c][1] = len[o][1]]
      /\ bitmap' = bitmap /\ bounces' = bounces /\ rec' = rec /\ idx' = idx /\ nents' = nents
  BY Zenon DEF map_phys_in_pool
<1>3. Others(c) /\ pc'[c] = "inpool"
  BY <1>1, <1>2, <1>f, Update, Zenon DEF Others, Funs
<1>4. \A i \in Entries : addr[c][i] = DMA_MAPPING_ERROR
  <2>1. Mapped(c, 1, 0)
    BY <1>1, <1>2, Zenon DEF ShapeOf
  <2>. QED
    BY <1>1, <2>1, EntriesInterval DEF Mapped
<1>5. addr'[c][1] = addr[o][1] /\ len'[c][1] = len[o][1] /\ \A i \in Entries \ {1} :
        addr'[c][i] = addr[c][i]
  BY <1>1, <1>2, <1>f, Update DEF Funs
<1>6. addr[o][1] # DMA_MAPPING_ERROR
  BY <1>1, <1>2, SingleEntry, Zenon
<1>7. InRange'
  <2>. SUFFICES ASSUME NEW e \in Clients, NEW j \in Entries, addr'[e][j] # DMA_MAPPING_ERROR
                PROVE  PagesOf(len'[e][j]) > 0 /\ addr'[e][j] + PagesOf(len'[e][j]) <= DmaPages
    BY Zenon DEF InRange, PagesOf
  <2>1. CASE e # c
    BY <1>1, <1>3, <2>1, Zenon DEF AllocInv, InRange, Others
  <2>2. CASE e = c
    <3>1. j = 1
      BY <1>4, <1>5, <2>2, Zenon
    <3>. QED
      BY <1>1, <1>5, <1>6, <2>2, <3>1, Zenon DEF AllocInv, InRange
  <2>. QED
    BY <2>1, <2>2, Zenon
<1>8. \A e \in Clients, j \in Entries :
           /\ Owns(e, j)' <=> Owns(e, j)
           /\ Owns(e, j) => addr'[e][j] = addr[e][j] /\ len'[e][j] = len[e][j]
  BY <1>3, <1>4, Zenon DEF Others, Owns
<1>9. AllocInv'
  BY <1>1, <1>2, <1>7, <1>8, NeutralStep, Zenon
<1>10. BouncesExact'
  BY <1>2, <1>3, BouncesSame, Zenon DEF IndInv, Bounced
<1>11. Mapped(c, 1, 1)'
  BY <1>1, <1>4, <1>5, <1>6, EntriesInterval DEF Mapped
<1>12. ShapeOf(c)' /\ RecOf(c)' /\ KeepsOwner(c)
  BY <1>2, <1>3, <1>11, Zenon DEF ShapeOf, RecOf, KeepsOwner
<1>. QED
  BY <1>1, <1>2, <1>3, <1>5, <1>9, <1>10, <1>12, IndStep, Zenon

\* Linking the record of a new mapping, unlinking the record of an old one.
LEMMA LinkUnlink ==
  ASSUME IndInv, NEW c \in Clients, ClientStep(c), map_phys_record(c) \/ unmap_phys(c)
  PROVE  IndInv'
<1>. USE DEF Goto
<1>1. TypeOK' /\ TypeOK /\ ShapeOf(c) /\ AllocInv
  BY TypeStep, Zenon DEF IndInv, Shape, AllocInv
<1>f. Funs
  BY <1>1, FunsType, Zenon
<1>2. /\ bitmap' = bitmap /\ addr' = addr /\ len' = len /\ idx' = idx /\ nents' = nents
      /\ \A d \in Clients \ {c} : pc'[d] = pc[d] /\ rec'[d] = rec[d]
  BY <1>f, Zenon DEF map_phys_record, unmap_phys, Funs
<1>3. Others(c)
  BY <1>2, Zenon DEF Others
<1>4. \A d \in Clients : RecordOf(d)' = RecordOf(d)
  BY <1>2, Zenon DEF RecordOf
<1>5. /\ pc[c] \in {"record", "mapped"} /\ pc'[c] \in {"mapped", "copyout", "release"}
      /\ BouncesExact' /\ RecOf(c)'
  <2>1. CASE map_phys_record(c)
    <3>1. /\ pc[c] = "record" /\ pc'[c] = "mapped" /\ bounces' = bounces \cup {RecordOf(c)}
      BY <1>f, <2>1, Zenon DEF map_phys_record, Funs
    <3>2. BouncesExact'
      BY <1>2, <1>4, <3>1, Zenon DEF IndInv, BouncesExact, Bounced
    <3>. QED
      BY <3>1, <3>2, Zenon DEF RecOf
  <2>2. CASE unmap_phys(c)
    <3>1. pc[c] = "mapped"
      BY <2>2, NoRecordInPool, Zenon DEF unmap_phys
    <3>2. bounce_find_locked(addr[c][1]) = {RecordOf(c)}
      BY <3>1, FindsOwn, Zenon DEF Bounced
    <3>3. bounces' = bounces \ {RecordOf(c)} /\ rec' = [rec EXCEPT ![c] = RecordOf(c)]
      BY <2>2, <3>2, Zenon DEF unmap_phys, list_del
    <3>4. pc'[c] \in {"copyout", "release"} /\ rec'[c] = RecordOf(c)
      BY <1>f, <2>2, <3>3, Zenon DEF unmap_phys, Funs
    <3>5. ASSUME NEW d \in Clients \ {c} PROVE RecordOf(d) # RecordOf(c)
      <4>1. RecordOf(d).phys = d /\ RecordOf(c).phys = c
        BY Zenon DEF RecordOf
      <4>. QED
        BY <3>5, <4>1, Zenon
    <3>6. BouncesExact'
      BY <1>2, <1>4, <3>1, <3>3, <3>4, <3>5 DEF IndInv, BouncesExact, Bounced
    <3>. QED
      BY <1>4, <3>1, <3>4, <3>6, Zenon DEF RecOf
  <2>. QED
    BY <2>1, <2>2, Zenon
<1>6. InRange' /\ \A e \in Clients, j \in Entries : Owns(e, j)' <=> Owns(e, j)
  BY <1>1, <1>2, <1>5, Zenon DEF AllocInv, InRange, Owns
<1>7. AllocInv'
  BY <1>1, <1>2, <1>6, NeutralStep, Zenon
<1>8. \A lo, hi : Mapped(c, lo, hi)' <=> Mapped(c, lo, hi)
  BY <1>2, Zenon DEF Mapped
<1>9. ShapeOf(c)' /\ KeepsOwner(c) /\ pc'[c] # "inpool"
  BY <1>1, <1>5, <1>8, Zenon DEF ShapeOf, KeepsOwner
<1>. QED
  BY <1>1, <1>3, <1>5, <1>7, <1>9, IndStep, Zenon

\* unmap_phys of an address that was passed through.
LEMMA PassBack ==
  ASSUME IndInv, NEW c \in Clients, ClientStep(c), unmap_phys_in_pool(c)
  PROVE  IndInv'
<1>. USE DEF Goto, Return, Clear
<1>1. TypeOK' /\ TypeOK /\ ShapeOf(c) /\ AllocInv
  BY TypeStep, Zenon DEF IndInv, Shape, AllocInv
<1>f. Funs
  BY <1>1, FunsType, Zenon
<1>2. pc[c] = "inpool"
  BY FindsOwn, Zenon DEF unmap_phys_in_pool, Bounced
<1>3. /\ pc' = [pc EXCEPT ![c] = "idle"] /\ bounces' = bounces /\ bitmap' = bitmap
      /\ addr' = [addr EXCEPT ![c][1] = DMA_MAPPING_ERROR]
      /\ len' = [len EXCEPT ![c][1] = 0]
      /\ \A d \in Clients \ {c} : idx'[d] = idx[d] /\ nents'[d] = nents[d] /\ rec'[d] = rec[d]
  BY <1>f, Zenon DEF unmap_phys_in_pool, Funs
<1>5. 1 \in Entries /\ \A i \in Entries \ {1} : addr[c][i] = DMA_MAPPING_ERROR
  BY <1>1, <1>2, SingleEntry, Zenon
<1>4. Others(c) /\ pc'[c] = "idle"
  BY <1>f, <1>3, <1>5, Update, Zenon DEF Others, Funs
<1>6. \A i \in Entries : addr'[c][i] = DMA_MAPPING_ERROR
  BY <1>f, <1>3, <1>5, Update DEF Funs
<1>7. InRange' /\ \A e \in Clients, j \in Entries :
           /\ Owns(e, j)' <=> Owns(e, j)
           /\ Owns(e, j) => addr'[e][j] = addr[e][j] /\ len'[e][j] = len[e][j]
  BY <1>1, <1>2, <1>4, <1>6, Zenon DEF AllocInv, InRange, Others, Owns
<1>8. AllocInv'
  BY <1>1, <1>3, <1>7, NeutralStep, Zenon
<1>9. BouncesExact'
  BY <1>2, <1>3, <1>4, BouncesSame, Zenon DEF IndInv, Bounced
<1>11. Mapped(c, 1, 0)'
  BY <1>1, <1>6, EntriesInterval DEF Mapped
<1>10. ShapeOf(c)' /\ RecOf(c)' /\ KeepsOwner(c)
  BY <1>2, <1>4, <1>11, Zenon DEF ShapeOf, RecOf, KeepsOwner
<1>. QED
  BY <1>1, <1>4, <1>8, <1>9, <1>10, IndStep, Zenon

-----------------------------------------------------------------------------
(* The steps that allocate and free the entries of a scatterlist.          *)

\* The allocation for one scatterlist entry.
LEMMA SgAlloc ==
  ASSUME IndInv, NEW c \in Clients, ClientStep(c), NEW a \in Pages, map_sg_entry(c, a)
  PROVE  IndInv'
<1>. USE DEF Goto
<1>0. PICK i : i = idx[c]
  BY Zenon
<1>1. TypeOK' /\ TypeOK /\ ShapeOf(c) /\ AllocInv
  BY TypeStep, Zenon DEF IndInv, Shape, AllocInv
<1>f. Funs
  BY <1>1, FunsType, Zenon
<1>2. /\ MaxNents \in Int /\ 1 <= MaxNents
      /\ i \in Int /\ 1 <= i /\ i <= MaxNents + 1
      /\ nents[c] \in Int /\ 1 <= nents[c] /\ nents[c] <= MaxNents
      /\ \A j \in Entries : j \in Int /\ 1 <= j /\ j <= MaxNents
      /\ \A j \in Int : 1 <= j /\ j <= MaxNents => j \in Entries
  BY <1>0, <1>1, FunsType, EntriesInterval, Zenon
<1>3. /\ pc[c] = "sgmap" /\ i <= nents[c] /\ pool_alloc(len[c][i], a)
      /\ addr' = [addr EXCEPT ![c][i] = a] /\ len' = len /\ nents' = nents
      /\ bounces' = bounces /\ rec' = rec
      /\ \A d \in Clients \ {c} : pc'[d] = pc[d] /\ idx'[d] = idx[d]
      /\ \/ pc'[c] = "sgcopy" /\ idx'[c] = i
         \/ pc'[c] = "sgmap" /\ idx'[c] = i + 1
  <2>1. CASE CopiesIn(dir[c])
    BY <1>0, <1>f, <2>1, Zenon DEF map_sg_entry, Funs
  <2>2. CASE ~CopiesIn(dir[c])
    BY <1>0, <1>f, <2>2, Zenon DEF map_sg_entry, Funs
  <2>. QED
    BY <2>1, <2>2, Zenon
<1>4. i \in Entries /\ len[c][i] \in Nat
  <2>1. i \in Entries
    BY <1>2, <1>3
  <2>. QED
    BY <1>f, <2>1, Zenon DEF Funs
<1>5. Others(c)
  BY <1>f, <1>3, Zenon DEF Others, Funs
<1>6. \A j \in Entries : j < i <=> addr[c][j] # DMA_MAPPING_ERROR
  BY <1>0, <1>1, <1>3, LoopEntry, Zenon
<1>7. addr'[c][i] = a /\ \A j \in Entries \ {i} : addr'[c][j] = addr[c][j]
  BY <1>f, <1>3, <1>4, Update DEF Funs
<1>8. AllocInv'
  <2>1. \A d \in Clients, j \in Entries : <<d, j>> # <<c, i>> =>
          addr'[d][j] = addr[d][j] /\ len'[d][j] = len[d][j]
    BY <1>3, <1>5, <1>7, Zenon DEF Others
  <2>2. \A d \in Clients : pc'[d] = "inpool" <=> pc[d] = "inpool"
    BY <1>3, Zenon
  <2>3. addr[c][i] = DMA_MAPPING_ERROR
    BY <1>2, <1>4, <1>6
  <2>. QED
    BY <1>1, <1>3, <1>4, <1>7, <2>1, <2>2, <2>3, AllocStep, Zenon
<1>9. BouncesExact'
  BY <1>3, <1>5, BouncesSame, Zenon DEF IndInv, Bounced
<1>10. Mapped(c, 1, i)'
  <2>1. a # DMA_MAPPING_ERROR
    BY DEF Pages, DMA_MAPPING_ERROR
  <2>2. \A j \in Entries : addr'[c][j] # DMA_MAPPING_ERROR <=> j < i \/ j = i
    BY <1>6, <1>7, <2>1, Zenon
  <2>3. i \in Int /\ \A j \in Entries : j \in Int /\ 1 <= j
    BY <1>2, Zenon
  <2>4. \A j \in Entries : addr'[c][j] # DMA_MAPPING_ERROR <=> 1 <= j /\ j <= i
    BY <2>2, <2>3
  <2>. QED
    BY <2>4, Zenon DEF Mapped
<1>11. ShapeOf(c)' /\ RecOf(c)' /\ KeepsOwner(c) /\ pc'[c] # "inpool"
  <2>1. CASE pc'[c] = "sgcopy" /\ idx'[c] = i
    BY <1>3, <1>10, <2>1, Zenon DEF ShapeOf, RecOf, KeepsOwner
  <2>2. CASE pc'[c] = "sgmap" /\ idx'[c] = i + 1
    <3>1. idx'[c] - 1 = i /\ idx'[c] <= nents'[c] + 1
      BY <1>2, <1>3, <2>2
    <3>. QED
      BY <1>3, <1>10, <2>2, <3>1, Zenon DEF ShapeOf, RecOf, KeepsOwner
  <2>. QED
    BY <1>3, <2>1, <2>2, Zenon
<1>. QED
  BY <1>1, <1>5, <1>8, <1>9, <1>11, IndStep, Zenon

\* The release of one scatterlist entry, on the error path and by unmap_sg.
LEMMA SgFree ==
  ASSUME IndInv, NEW c \in Clients, ClientStep(c), map_sg_undo(c) \/ unmap_sg_entry(c)
  PROVE  IndInv'
<1>. USE DEF Goto, Clear
<1>0. PICK i : i = idx[c]
  BY Zenon
<1>1. TypeOK' /\ TypeOK /\ ShapeOf(c) /\ AllocInv
  BY TypeStep, Zenon DEF IndInv, Shape, AllocInv
<1>f. Funs
  BY <1>1, FunsType, Zenon
<1>2. /\ MaxNents \in Int /\ 1 <= MaxNents
      /\ i \in Int /\ 1 <= i /\ i <= MaxNents + 1
      /\ nents[c] \in Int /\ 1 <= nents[c] /\ nents[c] <= MaxNents
      /\ \A j \in Entries : j \in Int /\ 1 <= j /\ j <= MaxNents
      /\ \A j \in Int : 1 <= j /\ j <= MaxNents => j \in Entries
  BY <1>0, <1>1, FunsType, EntriesInterval, Zenon
<1>3. /\ i \in Entries /\ addr[c][i] # DMA_MAPPING_ERROR
      /\ pc[c] \in {"sgundo", "sgunmap", "sgfree"}
      /\ pc'[c] = IF pc[c] = "sgundo" THEN "sgundo" ELSE "sgunmap"
  <2>1. CASE map_sg_undo(c)
    BY <1>0, <1>1, <2>1, LoopEntry, Zenon DEF map_sg_undo
  <2>2. CASE unmap_sg_entry(c)
    <3>1. pc[c] = "sgfree" \/ (pc[c] = "sgunmap" /\ i <= nents[c])
      BY <1>0, <2>2, Zenon DEF unmap_sg_entry
    <3>2. pc'[c] = "sgunmap"
      BY <1>f, <2>2, Zenon DEF unmap_sg_entry, Funs
    <3>. QED
      BY <1>0, <1>1, <3>1, <3>2, LoopEntry, Zenon
  <2>. QED
    BY <2>1, <2>2, Zenon
<1>4. /\ pool_free(addr[c][i], len[c][i])
      /\ addr' = [addr EXCEPT ![c][i] = DMA_MAPPING_ERROR]
      /\ len' = [len EXCEPT ![c][i] = 0]
      /\ nents' = nents /\ bounces' = bounces /\ rec' = rec /\ idx'[c] = i + 1
      /\ \A d \in Clients \ {c} : pc'[d] = pc[d] /\ idx'[d] = idx[d]
  BY <1>0, <1>f, Zenon DEF map_sg_undo, unmap_sg_entry, Funs
<1>5. Others(c)
  BY <1>f, <1>3, <1>4, Update, Zenon DEF Others, Funs
<1>6. addr'[c][i] = DMA_MAPPING_ERROR /\ \A j \in Entries \ {i} :
        addr'[c][j] = addr[c][j] /\ len'[c][j] = len[c][j]
  BY <1>f, <1>3, <1>4, Update DEF Funs
<1>7. AllocInv'
  <2>1. \A d \in Clients, j \in Entries : <<d, j>> # <<c, i>> =>
          addr'[d][j] = addr[d][j] /\ len'[d][j] = len[d][j]
    BY <1>5, <1>6, Zenon DEF Others
  <2>2. \A d \in Clients : pc'[d] = "inpool" <=> pc[d] = "inpool"
    BY <1>3, <1>4, Zenon
  <2>3. Owns(c, i)
    BY <1>3, Zenon DEF Owns
  <2>. QED
    BY <1>1, <1>3, <1>4, <1>6, <2>1, <2>2, <2>3, FreeStep, Zenon
<1>8. BouncesExact'
  BY <1>3, <1>4, <1>5, BouncesSame, Zenon DEF IndInv, Bounced
<1>9. ASSUME NEW h \in Int, Mapped(c, i, h)
      PROVE  i <= h /\ Mapped(c, i + 1, h)'
  <2>1. \A j \in Entries : addr'[c][j] # DMA_MAPPING_ERROR <=> i <= j /\ j <= h /\ j # i
    BY <1>3, <1>6, <1>9, Zenon DEF Mapped
  <2>2. i <= h
    BY <1>3, <1>9, Zenon DEF Mapped
  <2>3. i \in Int /\ \A j \in Entries : j \in Int
    BY <1>2, Zenon
  <2>4. \A j \in Entries : addr'[c][j] # DMA_MAPPING_ERROR <=> i + 1 <= j /\ j <= h
    BY <2>1, <2>3
  <2>. QED
    BY <2>2, <2>4, Zenon DEF Mapped
<1>10. ShapeOf(c)'
  <2>1. CASE pc[c] = "sgundo"
    <3>1. PICK f \in 1 .. nents[c] : i <= f /\ Mapped(c, i, f - 1)
      BY <1>0, <1>1, <2>1, Zenon DEF ShapeOf
    <3>2. f - 1 \in Int /\ i <= f - 1 /\ Mapped(c, i + 1, f - 1)'
      BY <1>2, <1>9, <3>1
    <3>3. idx'[c] = i + 1 /\ i + 1 <= f /\ f \in 1 .. nents'[c]
      BY <1>2, <1>4, <3>1, <3>2
    <3>. QED
      BY <1>3, <2>1, <3>2, <3>3, Zenon DEF ShapeOf
  <2>2. CASE pc[c] # "sgundo"
    <3>0. PICK n : n = nents[c]
      BY Zenon
    <3>1. Mapped(c, i, n) /\ n \in Int
      BY <1>0, <1>1, <1>2, <1>3, <2>2, <3>0, Zenon DEF ShapeOf
    <3>2. i <= n /\ Mapped(c, i + 1, n)'
      BY <1>9, <3>1, Zenon
    <3>3. idx'[c] = i + 1 /\ nents'[c] = n /\ i + 1 <= n + 1
      BY <1>2, <1>4, <3>0, <3>1, <3>2
    <3>. QED
      BY <1>3, <2>2, <3>2, <3>3, Zenon DEF ShapeOf
  <2>. QED
    BY <2>1, <2>2, Zenon
<1>11. RecOf(c)' /\ KeepsOwner(c) /\ pc'[c] # "inpool"
  BY <1>3, Zenon DEF RecOf, KeepsOwner
<1>. QED
  BY <1>1, <1>5, <1>7, <1>8, <1>10, <1>11, IndStep, Zenon

-----------------------------------------------------------------------------
(* The theorems.                                                           *)

\* The empty pool satisfies the invariant.
LEMMA IndInvInit == Init => IndInv
<1>. SUFFICES ASSUME Init PROVE IndInv
  BY Zenon
<1>1. TypeOK
  <2>1. 1 \in Entries /\ 1 \in 1 .. MaxNents + 1
    BY ConstantsAssumption DEF Entries, ConstantsAssumption
  <2>2. \A c \in Clients : NoBounce(c) \in Bounce
    BY DEF NoBounce, Bounce, DMA_MAPPING_ERROR
  <2>. QED
    BY <2>1, <2>2, Zenon DEF Init, TypeOK, Locations, Dirs
<1>2. \A c \in Clients, i \in Entries : addr[c][i] = DMA_MAPPING_ERROR
  BY Zenon DEF Init
<1>3. \A c \in Clients : pc[c] = "idle"
  BY Zenon DEF Init
<1>4. Shape
  <2>1. \A c \in Clients : Mapped(c, 1, 0)
    BY <1>1, <1>2, EntriesInterval DEF Mapped
  <2>. QED
    BY <1>3, <2>1, Zenon DEF Shape, ShapeOf
<1>5. InRange /\ AllocationsDisjoint /\ BitmapExact
  BY <1>2, Zenon DEF InRange, AllocationsDisjoint, BitmapExact, Owns, Init
<1>6. BouncesExact
  BY <1>3, Zenon DEF BouncesExact, Bounced, Init
<1>7. RecMatches /\ InPoolInside
  BY <1>3, Zenon DEF RecMatches, InPoolInside
<1>. QED
  BY <1>1, <1>4, <1>5, <1>6, <1>7, Zenon DEF IndInv

\* Every step preserves the invariant.
LEMMA IndInvNext == IndInv /\ [Next]_vars => IndInv'
<1>1. ASSUME IndInv, NEW c \in Clients, ClientStep(c) PROVE IndInv'
  BY <1>1, QuietSingle, QuietSg, SingleAlloc, SingleFree, PassThrough, LinkUnlink, PassBack,
     SgAlloc, SgFree, Zenon
  DEF ClientStep, QuietSgStep
<1>2. ASSUME IndInv, UNCHANGED vars PROVE IndInv'
  <2>1. TypeOK'
    BY <1>2, Zenon DEF vars, IndInv, TypeOK
  <2>2. Shape'
    <3>1. \A c \in Clients : ShapeOf(c)
      BY <1>2, Zenon DEF IndInv, Shape
    <3>2. pc' = pc /\ addr' = addr /\ idx' = idx /\ nents' = nents
      BY <1>2, Zenon DEF vars
    <3>3. \A c \in Clients : ShapeOf(c)'
      <4>. TAKE c \in Clients
      <4>1. \A lo, hi : Mapped(c, lo, hi)' <=> Mapped(c, lo, hi)
        BY <3>2, Zenon DEF Mapped
      <4>. QED
        BY <3>1, <3>2, <4>1, Zenon DEF ShapeOf
    <3>. QED
      BY <3>3, Zenon DEF Shape
  <2>3. AllocInv'
    <3>1. bitmap' = bitmap /\ addr' = addr /\ len' = len /\ pc' = pc
      BY <1>2, Zenon DEF vars
    <3>2. InRange'
      BY <1>2, <3>1, Zenon DEF IndInv, InRange
    <3>3. \A d \in Clients, j \in Entries : Owns(d, j)' <=> Owns(d, j)
      BY <3>1, Zenon DEF Owns
    <3>. QED
      BY <1>2, <3>1, <3>2, <3>3, NeutralStep, Zenon DEF IndInv, AllocInv
  <2>4. BouncesExact' /\ RecMatches' /\ InPoolInside'
    BY <1>2, Zenon DEF vars, IndInv, BouncesExact, RecMatches, InPoolInside, RecordOf
  <2>. QED
    BY <2>1, <2>2, <2>3, <2>4, Zenon DEF IndInv, AllocInv
<1>. QED
  BY <1>1, <1>2, Zenon DEF Next

\* The inductive invariant of the DMA operations (axi_mmio.c) holds in every
\* reachable state.
THEOREM IndInvAlways == Spec => []IndInv
BY IndInvInit, IndInvNext, PTL DEF Spec

\* The state of axi_mmio.c's DMA operations stays well typed; in particular no
\* allocation reaches beyond the bitmap.
THEOREM TypeAlways == Spec => []TypeOK
<1>1. IndInv => TypeOK
  BY Zenon DEF IndInv
<1>. QED
  BY <1>1, IndInvAlways, PTL

\* axi_mmio_pool_alloc never gives out a page that somebody still holds.
THEOREM AllocationsDisjointAlways == Spec => []AllocationsDisjoint
<1>1. IndInv => AllocationsDisjoint
  BY Zenon DEF IndInv
<1>. QED
  BY <1>1, IndInvAlways, PTL

\* The bitmap marks exactly the pages in use: no path of map, unmap, alloc or
\* free leaks a page or frees somebody else's.
THEOREM BitmapExactAlways == Spec => []BitmapExact
<1>1. IndInv => BitmapExact
  BY Zenon DEF IndInv
<1>. QED
  BY <1>1, IndInvAlways, PTL

\* pool->bounces holds exactly one record per bounced mapping.
THEOREM BouncesExactAlways == Spec => []BouncesExact
<1>1. IndInv => BouncesExact
  BY Zenon DEF IndInv
<1>. QED
  BY <1>1, IndInvAlways, PTL

-----------------------------------------------------------------------------
(* The data.                                                               *)

\* What a step of c leaves alone.
Private(c) ==
  \A d \in Clients \ {c} :
    /\ pc'[d] = pc[d] /\ dir'[d] = dir[d] /\ idx'[d] = idx[d] /\ addr'[d] = addr[d]
    /\ len'[d] = len[d] /\ buf'[d] = buf[d] /\ expect'[d] = expect[d] /\ ring'[d] = ring[d]

\* The only pages whose content it changes are those of one entry of its own.
OwnPages(c) ==
  \/ pool' = pool
  \/ \E i \in Entries : /\ Owns(c, i)
                        /\ \A p \in Pages \ PagesHeld(c, i) : pool'[p] = pool[p]

\* The functions that hold contents.
LEMMA ContentType ==
  ASSUME TypeOK
  PROVE  /\ pool \in [Pages -> Values \cup {Unset}]
         /\ pc \in [Clients -> Locations] /\ dir \in [Clients -> Dirs]
         /\ idx \in [Clients -> 1 .. MaxNents + 1]
         /\ addr \in [Clients -> [Entries -> Pages \cup {DMA_MAPPING_ERROR}]]
         /\ len \in [Clients -> [Entries -> Nat]]
         /\ buf \in [Clients -> [Entries -> Values \cup {Unset}]]
         /\ expect \in [Clients -> [Entries -> Values \cup {Unset}]]
         /\ ring \in [Clients -> Values \cup {Unset}]
BY Zenon DEF TypeOK

\* The pages that an entry owns are pages of the pool.
LEMMA HeldInPages ==
  ASSUME IndInv, NEW c \in Clients, NEW i \in Entries, Owns(c, i)
  PROVE  PagesHeld(c, i) \subseteq Pages /\ PagesHeld(c, i) # {}
<1>1. addr[c][i] \in Pages /\ len[c][i] \in Nat
  BY DEF IndInv, TypeOK, Owns
<1>2. PagesOf(len[c][i]) > 0 /\ addr[c][i] + PagesOf(len[c][i]) <= DmaPages
  BY Zenon DEF IndInv, InRange, Owns
<1>3. addr[c][i] \in PagesHeld(c, i)
  BY <1>1, <1>2, PagesOfNat DEF PagesHeld, Run, Pages
<1>4. PagesHeld(c, i) \subseteq Pages
  BY <1>1, <1>2, PagesOfNat, ConstantsAssumption DEF PagesHeld, Run, Pages, ConstantsAssumption
<1>. QED
  BY <1>3, <1>4, Zenon

\* A step of c disturbs nobody else's data.
LEMMA DataStep ==
  ASSUME DataInv, NEW c \in Clients, Private(c), OwnPages(c), ContentOf(c)'
  PROVE  \A d \in Clients : ContentOf(d)'
<1>. SUFFICES ASSUME NEW d \in Clients \ {c} PROVE ContentOf(d)'
  BY Zenon
<1>1. ContentOf(d) /\ IndInv
  BY Zenon DEF DataInv
<1>2. /\ pc'[d] = pc[d] /\ dir'[d] = dir[d] /\ idx'[d] = idx[d] /\ addr'[d] = addr[d]
      /\ len'[d] = len[d] /\ buf'[d] = buf[d] /\ expect'[d] = expect[d] /\ ring'[d] = ring[d]
  BY Zenon DEF Private
<1>3. ASSUME NEW j \in Entries, Owns(d, j)
      PROVE  \A p \in PagesHeld(d, j) : pool'[p] = pool[p]
  <2>1. PagesHeld(d, j) \subseteq Pages
    BY <1>1, <1>3, HeldInPages, Zenon
  <2>2. ASSUME NEW i \in Entries, Owns(c, i), \A p \in Pages \ PagesHeld(c, i) : pool'[p] = pool[p]
        PROVE  \A p \in PagesHeld(d, j) : pool'[p] = pool[p]
    <3>1. PagesHeld(c, i) \cap PagesHeld(d, j) = {}
      BY <1>1, <1>3, <2>2, Zenon DEF IndInv, AllocationsDisjoint
    <3>. QED
      BY <2>1, <2>2, <3>1, Zenon
  <2>. QED
    BY <2>2, Zenon DEF OwnPages
<1>4. \A j \in Entries : /\ Owns(d, j)' <=> Owns(d, j)
                         /\ PagesHeld(d, j)' = PagesHeld(d, j)
                         /\ KeptInBuf(d, j)' <=> KeptInBuf(d, j)
                         /\ KeptInPool(d, j)' <=> KeptInPool(d, j)
                         /\ BufHolds(d, j)' <=> BufHolds(d, j)
  BY <1>2, Zenon DEF Owns, PagesHeld, KeptInBuf, KeptInPool, BufHolds
<1>5. \A j \in Entries : KeptInPool(d, j) /\ PoolHolds(d, j) => PoolHolds(d, j)'
  BY <1>2, <1>3, <1>4, Zenon DEF KeptInPool, PoolHolds
<1>6. pc[d] = "coherent" => 1 \in Entries /\ Owns(d, 1)
  BY <1>1, SingleEntry, Zenon DEF IndInv, Shape, Owns
<1>7. /\ pc[d] = "coherent" =>
           ring'[d] = Unset \/ \A p \in PagesHeld(d, 1)' : pool'[p] = ring'[d]
      /\ pc[d] # "coherent" => ring'[d] = Unset
  BY <1>1, <1>2, <1>3, <1>4, <1>6, Zenon DEF ContentOf
<1>. QED
  BY <1>1, <1>2, <1>4, <1>5, <1>7, Zenon DEF ContentOf

\* Where the data of an entry is after a step that copies nothing, it was before.
Carried(c, i) ==
  \/ expect'[c][i] = Unset
  \/ /\ expect'[c][i] = expect[c][i] /\ buf'[c][i] = buf[c][i]
     /\ KeptInBuf(c, i)' => KeptInBuf(c, i)
     /\ KeptInPool(c, i)' => /\ KeptInPool(c, i)
                             /\ addr'[c][i] = addr[c][i] /\ len'[c][i] = len[c][i]

\* A step that copies nothing preserves the invariant if it carries the caller's data.
LEMMA Moves ==
  ASSUME DataInv, NEW c \in Clients, Private(c), pool' = pool, ring'[c] = Unset,
         \A i \in Entries : Carried(c, i)
  PROVE  \A d \in Clients : ContentOf(d)'
<1>0. ContentOf(c)
  BY Zenon DEF DataInv
<1>1. ASSUME NEW i \in Entries, KeptInBuf(c, i)' PROVE BufHolds(c, i)'
  BY <1>0, <1>1, Zenon DEF ContentOf, BufHolds, Carried
<1>2. ASSUME NEW i \in Entries, KeptInPool(c, i)' PROVE PoolHolds(c, i)'
  BY <1>0, <1>2, Zenon DEF ContentOf, PoolHolds, PagesHeld, Carried
<1>3. ContentOf(c)'
  BY <1>1, <1>2, Zenon DEF ContentOf
<1>. QED
  BY <1>3, DataStep, Zenon DEF OwnPages

\* The record in use by a running call names its own buffer and size.
LEMMA OwnRecord ==
  ASSUME IndInv, NEW c \in Clients, pc[c] \in {"copyout", "release", "synccpu", "syncdev"}
  PROVE  rec[c].phys = c /\ rec[c].size = len[c][1]
<1>1. RecMatches
  BY Zenon DEF IndInv
<1>2. rec[c] = RecordOf(c)
  BY <1>1, Zenon DEF RecMatches
<1>. QED
  BY <1>2 DEF RecordOf

\* A copy into the pool reaches the pages of its own entry and no others.
LEMMA CopiesInto ==
  ASSUME IndInv, NEW c \in Clients, NEW i \in Entries, Owns(c, i), NEW v,
         CopyIn(addr[c][i], len[c][i], v)
  PROVE  /\ OwnPages(c)
         /\ \A p \in PagesHeld(c, i) : pool'[p] = v
         /\ \A j \in Entries \ {i} : Owns(c, j) =>
              \A p \in PagesHeld(c, j) : pool'[p] = pool[p]
<1>1. \A p \in Pages : pool'[p] = IF p \in PagesHeld(c, i) THEN v ELSE pool[p]
  BY Zenon DEF CopyIn, PagesHeld
<1>2. PagesHeld(c, i) \subseteq Pages
  BY HeldInPages, Zenon
<1>3. ASSUME NEW j \in Entries \ {i}, Owns(c, j)
      PROVE  \A p \in PagesHeld(c, j) : pool'[p] = pool[p]
  <2>1. PagesHeld(c, j) \subseteq Pages
    BY <1>3, HeldInPages, Zenon
  <2>2. PagesHeld(c, i) \cap PagesHeld(c, j) = {}
    BY <1>3, Zenon DEF IndInv, AllocationsDisjoint
  <2>. QED
    BY <1>1, <2>1, <2>2, Zenon
<1>. QED
  BY <1>1, <1>2, <1>3, Zenon DEF OwnPages

\* A copy out of the pool takes what the pages of the entry hold.
LEMMA CopiesFrom ==
  ASSUME IndInv, NEW c \in Clients, NEW i \in Entries, Owns(c, i), PoolHolds(c, i),
         CopyOut(c, i, addr[c][i], len[c][i])
  PROVE  /\ expect[c][i] = Unset \/ buf'[c][i] = expect[c][i]
         /\ \A j \in Entries \ {i} : buf'[c][j] = buf[c][j]
         /\ \A d \in Clients \ {c} : buf'[d] = buf[d]
<1>1. PICK p \in PagesHeld(c, i) : buf' = [buf EXCEPT ![c][i] = pool[p]]
  BY Zenon DEF CopyOut, PagesHeld
<1>2. buf \in [Clients -> [Entries -> Values \cup {Unset}]]
  BY ContentType, Zenon DEF IndInv
<1>3. /\ buf'[c][i] = pool[p]
      /\ \A j \in Entries \ {i} : buf'[c][j] = buf[c][j]
      /\ \A d \in Clients \ {c} : buf'[d] = buf[d]
  BY <1>1, <1>2, Zenon
<1>. QED
  BY <1>3, Zenon DEF PoolHolds

-----------------------------------------------------------------------------
(* The steps that copy.                                                    *)

\* Stores of the CPU or the device into coherent memory.
LEMMA CoherentWriteData ==
  ASSUME DataInv, NEW c \in Clients, NEW v \in Values, CoherentWrite(c, v)
  PROVE  \A d \in Clients : ContentOf(d)'
<1>1. IndInv /\ ContentOf(c) /\ 1 \in Entries /\ Owns(c, 1) /\ pc[c] = "coherent"
  BY SingleEntry, Zenon DEF DataInv, IndInv, Shape, Owns, CoherentWrite
<1>2. /\ pc' = pc /\ dir' = dir /\ idx' = idx /\ addr' = addr /\ len' = len /\ buf' = buf
      /\ expect' = expect /\ ring' = [ring EXCEPT ![c] = v]
      /\ ring \in [Clients -> Values \cup {Unset}]
  BY <1>1, ContentType, Zenon DEF CoherentWrite, IndInv
<1>3. OwnPages(c) /\ \A p \in PagesHeld(c, 1) : pool'[p] = v
  BY <1>1, CopiesInto, Zenon DEF CoherentWrite
<1>4. Private(c) /\ ring'[c] = v
  BY <1>2, Zenon DEF Private
<1>5. \A i \in Entries : ~KeptInPool(c, i)' /\ (KeptInBuf(c, i)' => BufHolds(c, i)')
  BY <1>1, <1>2, Zenon DEF ContentOf, KeptInPool, KeptInBuf, BufHolds, Owns
<1>6. ContentOf(c)'
  BY <1>1, <1>2, <1>3, <1>4, <1>5, Zenon DEF ContentOf, PagesHeld
<1>. QED
  BY <1>3, <1>4, <1>6, DataStep, Zenon

\* The copy of map_phys (axi_mmio_copy_phys_to_pool).
LEMMA MapPhysCopyData ==
  ASSUME DataInv, NEW c \in Clients, map_phys_copy(c)
  PROVE  \A d \in Clients : ContentOf(d)'
<1>1. IndInv /\ ContentOf(c) /\ 1 \in Entries /\ Owns(c, 1) /\ pc[c] = "copyin"
  BY SingleEntry, Zenon DEF DataInv, IndInv, Shape, Owns, map_phys_copy
<1>2. /\ pc' = [pc EXCEPT ![c] = "record"] /\ dir' = dir /\ idx' = idx /\ addr' = addr
      /\ len' = len /\ buf' = buf /\ expect' = expect /\ ring' = ring
      /\ pc \in [Clients -> Locations]
  BY <1>1, ContentType, Zenon DEF map_phys_copy, Goto, IndInv
<1>3. OwnPages(c) /\ \A p \in PagesHeld(c, 1) : pool'[p] = buf[c][1]
  BY <1>1, CopiesInto, Zenon DEF map_phys_copy
<1>4. Private(c) /\ pc'[c] = "record" /\ ring[c] = Unset
  BY <1>1, <1>2, Zenon DEF Private, ContentOf
<1>5. \A i \in Entries : KeptInBuf(c, i) /\ BufHolds(c, i)
  BY <1>1, Zenon DEF ContentOf, KeptInBuf
<1>6. \A i \in Entries : KeptInPool(c, i)' => i = 1
  BY <1>1, <1>2, SingleEntry, Zenon DEF KeptInPool, Owns, IndInv, Shape
<1>7. PoolHolds(c, 1)' /\ \A i \in Entries : BufHolds(c, i)'
  BY <1>1, <1>2, <1>3, <1>5, Zenon DEF PoolHolds, BufHolds, PagesHeld
<1>8. ContentOf(c)'
  BY <1>2, <1>4, <1>6, <1>7, Zenon DEF ContentOf
<1>. QED
  BY <1>3, <1>4, <1>8, DataStep, Zenon

\* The copies of unmap_phys and sync_for_cpu (axi_mmio_copy_pool_to_phys), made or failed.
LEMMA CopyBackData ==
  ASSUME DataInv, NEW c \in Clients, unmap_phys_copy(c) \/ sync_for_cpu_copy(c)
  PROVE  \A d \in Clients : ContentOf(d)'
<1>1. IndInv /\ ContentOf(c) /\ pc[c] \in {"copyout", "synccpu"}
  BY Zenon DEF DataInv, unmap_phys_copy, sync_for_cpu_copy
<1>2. /\ 1 \in Entries /\ Owns(c, 1)
      /\ \A i \in Entries \ {1} : ~Owns(c, i)
  BY <1>1, SingleEntry, Zenon DEF IndInv, Shape, Owns, Bounced
<1>3. rec[c].phys = c /\ rec[c].size = len[c][1]
  BY <1>1, OwnRecord, Zenon
<1>4. /\ pc \in [Clients -> Locations]
      /\ expect \in [Clients -> [Entries -> Values \cup {Unset}]]
  BY <1>1, ContentType, Zenon DEF IndInv
<1>5. /\ pc' = [pc EXCEPT ![c] = "release"] \/ pc' = [pc EXCEPT ![c] = "cpuowned"]
      /\ pool' = pool /\ dir' = dir /\ idx' = idx /\ addr' = addr /\ len' = len /\ ring' = ring
  BY Zenon DEF unmap_phys_copy, sync_for_cpu_copy, Goto
<1>6. pc'[c] \in {"release", "cpuowned"} /\ \A d \in Clients \ {c} : pc'[d] = pc[d]
  BY <1>4, <1>5, Zenon
<1>7. PoolHolds(c, 1) /\ (\A i \in Entries \ {1} : BufHolds(c, i)) /\ ring[c] = Unset
  BY <1>1, <1>2, Zenon DEF ContentOf, KeptInPool, KeptInBuf
<1>8. \/ CopyOut(c, 1, addr[c][1], len[c][1]) /\ expect' = expect
      \/ buf' = buf /\ expect' = [expect EXCEPT ![c][1] = Unset]
  BY <1>3, Zenon DEF unmap_phys_copy, sync_for_cpu_copy, Forget
<1>9. /\ \A i \in Entries : BufHolds(c, i)'
      /\ \A d \in Clients \ {c} : buf'[d] = buf[d] /\ expect'[d] = expect[d]
  <2>1. CASE CopyOut(c, 1, addr[c][1], len[c][1]) /\ expect' = expect
    <3>1. /\ expect[c][1] = Unset \/ buf'[c][1] = expect[c][1]
          /\ \A j \in Entries \ {1} : buf'[c][j] = buf[c][j]
          /\ \A d \in Clients \ {c} : buf'[d] = buf[d]
      BY <1>1, <1>2, <1>7, <2>1, CopiesFrom, Zenon
    <3>. QED
      BY <1>7, <2>1, <3>1, Zenon DEF BufHolds
  <2>2. CASE buf' = buf /\ expect' = [expect EXCEPT ![c][1] = Unset]
    BY <1>2, <1>4, <1>7, <2>2, Zenon DEF BufHolds
  <2>. QED
    BY <1>8, <2>1, <2>2, Zenon
<1>10. \A i \in Entries : ~KeptInPool(c, i)'
  BY <1>6, Zenon DEF KeptInPool
<1>11. ContentOf(c)'
  BY <1>5, <1>6, <1>7, <1>9, <1>10, Zenon DEF ContentOf
<1>12. Private(c) /\ OwnPages(c)
  BY <1>5, <1>6, <1>9, Zenon DEF Private, OwnPages
<1>. QED
  BY <1>11, <1>12, DataStep, Zenon

\* The copy of sync_for_device (axi_mmio_copy_phys_to_pool), made or failed.
LEMMA SyncDeviceData ==
  ASSUME DataInv, NEW c \in Clients, sync_for_device_copy(c)
  PROVE  \A d \in Clients : ContentOf(d)'
<1>1. IndInv /\ ContentOf(c) /\ pc[c] = "syncdev"
  BY Zenon DEF DataInv, sync_for_device_copy
<1>2. /\ 1 \in Entries /\ Owns(c, 1)
      /\ \A i \in Entries \ {1} : ~Owns(c, i)
  BY <1>1, SingleEntry, Zenon DEF IndInv, Shape, Owns, Bounced
<1>3. rec[c].phys = c /\ rec[c].size = len[c][1]
  BY <1>1, OwnRecord, Zenon
<1>4. /\ pc \in [Clients -> Locations]
      /\ expect \in [Clients -> [Entries -> Values \cup {Unset}]]
  BY <1>1, ContentType, Zenon DEF IndInv
<1>5. /\ pc' = [pc EXCEPT ![c] = "mapped"]
      /\ dir' = dir /\ idx' = idx /\ addr' = addr /\ len' = len /\ buf' = buf /\ ring' = ring
  BY Zenon DEF sync_for_device_copy, Goto
<1>6. pc'[c] = "mapped" /\ \A d \in Clients \ {c} : pc'[d] = pc[d]
  BY <1>4, <1>5, Zenon
<1>7. (\A i \in Entries : BufHolds(c, i)) /\ ring[c] = Unset
  BY <1>1, Zenon DEF ContentOf, KeptInBuf
<1>8. \/ CopyIn(addr[c][1], len[c][1], buf[c][1]) /\ expect' = expect
      \/ pool' = pool /\ expect' = [expect EXCEPT ![c][1] = Unset]
  BY <1>3, Zenon DEF sync_for_device_copy, Forget
<1>9. /\ \A i \in Entries : BufHolds(c, i)'
      /\ PoolHolds(c, 1)'
      /\ OwnPages(c)
      /\ \A d \in Clients \ {c} : expect'[d] = expect[d]
  <2>1. CASE CopyIn(addr[c][1], len[c][1], buf[c][1]) /\ expect' = expect
    <3>1. OwnPages(c) /\ \A p \in PagesHeld(c, 1) : pool'[p] = buf[c][1]
      BY <1>1, <1>2, <2>1, CopiesInto, Zenon
    <3>. QED
      BY <1>2, <1>5, <1>7, <2>1, <3>1, Zenon DEF BufHolds, PoolHolds, PagesHeld
  <2>2. CASE pool' = pool /\ expect' = [expect EXCEPT ![c][1] = Unset]
    BY <1>2, <1>4, <1>5, <1>7, <2>2, Zenon DEF BufHolds, PoolHolds, OwnPages
  <2>. QED
    BY <1>8, <2>1, <2>2, Zenon
<1>10. \A i \in Entries : KeptInPool(c, i)' => i = 1
  BY <1>2, <1>5, <1>6, <1>1, Zenon DEF KeptInPool, Owns
<1>11. ContentOf(c)'
  BY <1>5, <1>6, <1>7, <1>9, <1>10, Zenon DEF ContentOf
<1>12. Private(c)
  BY <1>5, <1>6, <1>9, Zenon DEF Private
<1>. QED
  BY <1>9, <1>11, <1>12, DataStep, Zenon

\* The copy of one scatterlist entry into the pool (sg_copy_to_buffer).
LEMMA SgCopyInData ==
  ASSUME DataInv, NEW c \in Clients, map_sg_copy(c)
  PROVE  \A d \in Clients : ContentOf(d)'
<1>1. IndInv /\ ContentOf(c) /\ pc[c] = "sgcopy"
  BY Zenon DEF DataInv, map_sg_copy
<1>2. idx[c] \in Entries /\ Owns(c, idx[c])
  BY <1>1, LoopEntry, Zenon DEF IndInv, Shape, Owns
<1>3. /\ pc \in [Clients -> Locations] /\ idx \in [Clients -> 1 .. MaxNents + 1]
  BY <1>1, ContentType, Zenon DEF IndInv
<1>4. /\ pc' = [pc EXCEPT ![c] = "sgmap"] /\ idx' = [idx EXCEPT ![c] = idx[c] + 1]
      /\ dir' = dir /\ addr' = addr /\ len' = len /\ buf' = buf /\ expect' = expect
      /\ ring' = ring
  BY Zenon DEF map_sg_copy, Goto
<1>5. pc'[c] = "sgmap" /\ Private(c)
  BY <1>3, <1>4, Zenon DEF Private
<1>6. (\A i \in Entries : BufHolds(c, i)) /\ ring[c] = Unset
  BY <1>1, Zenon DEF ContentOf, KeptInBuf
<1>7. CopyIn(addr[c][idx[c]], len[c][idx[c]], buf[c][idx[c]])
  BY Zenon DEF map_sg_copy
<1>8. /\ OwnPages(c)
      /\ \A p \in PagesHeld(c, idx[c]) : pool'[p] = buf[c][idx[c]]
      /\ \A j \in Entries \ {idx[c]} : Owns(c, j) =>
           \A p \in PagesHeld(c, j) : pool'[p] = pool[p]
  BY <1>1, <1>2, <1>7, CopiesInto, Zenon
<1>10. ASSUME NEW i \in Entries, KeptInPool(c, i)' PROVE PoolHolds(c, i)'
  <2>1. Owns(c, i) /\ PagesHeld(c, i)' = PagesHeld(c, i)
    BY <1>1, <1>4, <1>10, Zenon DEF KeptInPool, Owns, PagesHeld
  <2>2. CASE i = idx[c]
    BY <1>2, <1>4, <1>6, <1>8, <2>1, <2>2, Zenon DEF PoolHolds, BufHolds
  <2>3. CASE i # idx[c]
    <3>1. PoolHolds(c, i)
      BY <1>1, <2>1, <2>3, Zenon DEF ContentOf, KeptInPool
    <3>. QED
      BY <1>4, <1>8, <2>1, <2>3, <3>1, Zenon DEF PoolHolds
  <2>. QED
    BY <2>2, <2>3, Zenon
<1>11. \A i \in Entries : BufHolds(c, i)'
  BY <1>4, <1>6, Zenon DEF BufHolds
<1>12. ContentOf(c)'
  BY <1>4, <1>5, <1>6, <1>10, <1>11, Zenon DEF ContentOf
<1>. QED
  BY <1>5, <1>8, <1>12, DataStep, Zenon

\* The copy of one scatterlist entry out of the pool (sg_copy_from_buffer).
LEMMA SgCopyOutData ==
  ASSUME DataInv, NEW c \in Clients, unmap_sg_copy(c)
  PROVE  \A d \in Clients : ContentOf(d)'
<1>1. IndInv /\ ContentOf(c) /\ pc[c] = "sgunmap" /\ idx[c] <= nents[c]
  BY Zenon DEF DataInv, unmap_sg_copy
<1>2. idx[c] \in Entries /\ Owns(c, idx[c])
  BY <1>1, LoopEntry, Zenon DEF IndInv, Shape, Owns
<1>3. pc \in [Clients -> Locations]
  BY <1>1, ContentType, Zenon DEF IndInv
<1>4. /\ pc' = [pc EXCEPT ![c] = "sgfree"] /\ idx' = idx
      /\ pool' = pool /\ dir' = dir /\ addr' = addr /\ len' = len /\ expect' = expect
      /\ ring' = ring
  BY Zenon DEF unmap_sg_copy, Goto
<1>5. pc'[c] = "sgfree" /\ ring[c] = Unset
  BY <1>1, <1>3, <1>4, Zenon DEF ContentOf
<1>6. PoolHolds(c, idx[c])
  BY <1>1, <1>2, Zenon DEF ContentOf, KeptInPool
<1>7. CopyOut(c, idx[c], addr[c][idx[c]], len[c][idx[c]])
  BY Zenon DEF unmap_sg_copy
<1>8. /\ expect[c][idx[c]] = Unset \/ buf'[c][idx[c]] = expect[c][idx[c]]
      /\ \A j \in Entries \ {idx[c]} : buf'[c][j] = buf[c][j]
      /\ \A d \in Clients \ {c} : buf'[d] = buf[d]
  BY <1>1, <1>2, <1>6, <1>7, CopiesFrom, Zenon
<1>9. ASSUME NEW i \in Entries, KeptInBuf(c, i)' PROVE BufHolds(c, i)'
  <2>1. CASE i = idx[c]
    BY <1>4, <1>8, <2>1, Zenon DEF BufHolds
  <2>2. CASE i # idx[c]
    <3>1. KeptInBuf(c, i)
      BY <1>1, <1>4, <1>5, <1>9, <2>2, Zenon DEF KeptInBuf, Owns
    <3>. QED
      BY <1>1, <1>4, <1>8, <2>2, <3>1, Zenon DEF ContentOf, BufHolds
  <2>. QED
    BY <2>1, <2>2, Zenon
<1>10. ASSUME NEW i \in Entries, KeptInPool(c, i)' PROVE PoolHolds(c, i)'
  <2>1. KeptInPool(c, i)
    BY <1>1, <1>4, <1>5, <1>10, Zenon DEF KeptInPool, Owns
  <2>. QED
    BY <1>1, <1>4, <2>1, Zenon DEF ContentOf, PoolHolds, PagesHeld
<1>11. ContentOf(c)'
  BY <1>4, <1>5, <1>9, <1>10, Zenon DEF ContentOf
<1>12. Private(c) /\ OwnPages(c)
  BY <1>3, <1>4, <1>8, Zenon DEF Private, OwnPages
<1>. QED
  BY <1>11, <1>12, DataStep, Zenon

\* The device writes a mapping that it owns.
LEMMA DeviceWriteData ==
  ASSUME DataInv, NEW c \in Clients, NEW i \in Entries, NEW v \in Values, DeviceWrite(c, i, v)
  PROVE  \A d \in Clients : ContentOf(d)'
<1>1. IndInv /\ ContentOf(c) /\ pc[c] \in {"mapped", "sgmapped"} /\ CopiesOut(dir[c]) /\ Owns(c, i)
  BY Zenon DEF DataInv, DeviceWrite, Owns
<1>2. expect \in [Clients -> [Entries -> Values \cup {Unset}]]
  BY <1>1, ContentType, Zenon DEF IndInv
<1>3. /\ pc' = pc /\ idx' = idx /\ dir' = dir /\ addr' = addr /\ len' = len /\ buf' = buf
      /\ expect' = [expect EXCEPT ![c][i] = v] /\ ring' = ring
  BY Zenon DEF DeviceWrite
<1>4. /\ expect'[c][i] = v
      /\ \A j \in Entries \ {i} : expect'[c][j] = expect[c][j]
      /\ \A d \in Clients \ {c} : expect'[d] = expect[d]
  BY <1>2, <1>3, Zenon
<1>5. /\ OwnPages(c)
      /\ \A p \in PagesHeld(c, i) : pool'[p] = v
      /\ \A j \in Entries \ {i} : Owns(c, j) => \A p \in PagesHeld(c, j) : pool'[p] = pool[p]
  BY <1>1, CopiesInto, Zenon DEF DeviceWrite
<1>6. ASSUME NEW j \in Entries, KeptInBuf(c, j)' PROVE BufHolds(c, j)'
  <2>1. KeptInBuf(c, j) /\ j # i
    BY <1>1, <1>3, <1>6, Zenon DEF KeptInBuf, Owns
  <2>. QED
    BY <1>1, <1>3, <1>4, <2>1, Zenon DEF ContentOf, BufHolds
<1>7. ASSUME NEW j \in Entries, KeptInPool(c, j)' PROVE PoolHolds(c, j)'
  <2>1. KeptInPool(c, j) /\ Owns(c, j) /\ PagesHeld(c, j)' = PagesHeld(c, j)
    BY <1>3, <1>7, Zenon DEF KeptInPool, Owns, PagesHeld
  <2>2. PoolHolds(c, j)
    BY <1>1, <2>1, Zenon DEF ContentOf
  <2>. QED
    BY <1>4, <1>5, <2>1, <2>2 DEF PoolHolds
<1>8. ContentOf(c)'
  BY <1>1, <1>3, <1>6, <1>7, Zenon DEF ContentOf
<1>9. Private(c)
  BY <1>3, <1>4, Zenon DEF Private
<1>. QED
  BY <1>5, <1>8, <1>9, DataStep, Zenon

\* The CPU writes a buffer that it owns.
LEMMA CpuWriteData ==
  ASSUME DataInv, NEW c \in Clients, NEW i \in Entries, NEW v \in Values, CpuWrite(c, i, v)
  PROVE  \A d \in Clients : ContentOf(d)'
<1>1. IndInv /\ ContentOf(c) /\ pc[c] \in {"idle", "cpuowned"}
  BY Zenon DEF DataInv, CpuWrite
<1>2. /\ expect \in [Clients -> [Entries -> Values \cup {Unset}]]
      /\ buf \in [Clients -> [Entries -> Values \cup {Unset}]]
  BY <1>1, ContentType, Zenon DEF IndInv
<1>3. /\ pc' = pc /\ idx' = idx /\ dir' = dir /\ addr' = addr /\ len' = len /\ pool' = pool
      /\ expect' = [expect EXCEPT ![c][i] = v] /\ buf' = [buf EXCEPT ![c][i] = v] /\ ring' = ring
  BY Zenon DEF CpuWrite
<1>4. /\ expect'[c][i] = v /\ buf'[c][i] = v
      /\ \A j \in Entries \ {i} : expect'[c][j] = expect[c][j] /\ buf'[c][j] = buf[c][j]
      /\ \A d \in Clients \ {c} : expect'[d] = expect[d] /\ buf'[d] = buf[d]
  BY <1>2, <1>3, Zenon
<1>5. \A j \in Entries : ~KeptInPool(c, j)'
  BY <1>1, <1>3, Zenon DEF KeptInPool
<1>6. \A j \in Entries : KeptInBuf(c, j)' => BufHolds(c, j)'
  BY <1>1, <1>3, <1>4, Zenon DEF ContentOf, KeptInBuf, BufHolds, Owns
<1>7. ContentOf(c)'
  BY <1>1, <1>3, <1>5, <1>6, Zenon DEF ContentOf
<1>8. Private(c) /\ OwnPages(c)
  BY <1>3, <1>4, Zenon DEF Private, OwnPages
<1>. QED
  BY <1>7, <1>8, DataStep, Zenon

-----------------------------------------------------------------------------
(* The steps that copy nothing.                                            *)

\* What Return leaves of the caller and of the others.
LEMMA Returns ==
  ASSUME TypeOK, NEW c \in Clients, Return(c)
  PROVE  /\ pc'[c] = "idle"
         /\ \A d \in Clients \ {c} : pc'[d] = pc[d] /\ dir'[d] = dir[d] /\ idx'[d] = idx[d]
<1>1. /\ pc \in [Clients -> Locations] /\ dir \in [Clients -> Dirs]
      /\ idx \in [Clients -> 1 .. MaxNents + 1]
  BY ContentType, Zenon
<1>. QED
  BY <1>1, Zenon DEF Return, Goto

\* Clear empties one entry of the caller.
LEMMA Clears ==
  ASSUME TypeOK, NEW c \in Clients, NEW i \in Entries, Clear(c, i)
  PROVE  /\ addr'[c][i] = DMA_MAPPING_ERROR
         /\ \A j \in Entries \ {i} : addr'[c][j] = addr[c][j] /\ len'[c][j] = len[c][j]
         /\ \A d \in Clients \ {c} : addr'[d] = addr[d] /\ len'[d] = len[d]
<1>1. /\ addr \in [Clients -> [Entries -> Pages \cup {DMA_MAPPING_ERROR}]]
      /\ len \in [Clients -> [Entries -> Nat]]
  BY ContentType, Zenon
<1>. QED
  BY <1>1, Zenon DEF Clear

\* What KeepBuffers leaves of the contents.
LEMMA Keeps ==
  ASSUME TypeOK, NEW c \in Clients, NEW n, KeepBuffers(c, n)
  PROVE  /\ \A i \in Entries :
              \/ expect'[c][i] = Unset
              \/ i <= n /\ expect'[c][i] = expect[c][i] /\ buf'[c][i] = buf[c][i]
         /\ \A d \in Clients \ {c} : buf'[d] = buf[d] /\ expect'[d] = expect[d]
<1>1. /\ buf \in [Clients -> [Entries -> Values \cup {Unset}]]
      /\ expect \in [Clients -> [Entries -> Values \cup {Unset}]]
  BY ContentType, Zenon
<1>. QED
  BY <1>1, Zenon DEF KeepBuffers

\* HandOver leaves open what a FROM_DEVICE buffer will hold, and nothing else.
LEMMA HandsOver ==
  ASSUME TypeOK, NEW c \in Clients, NEW n, HandOver(c, n)
  PROVE  /\ \A i \in Entries : IF dir[c] = "FROM_DEVICE" /\ i <= n
                                 THEN expect'[c][i] = Unset
                                 ELSE expect'[c][i] = expect[c][i]
         /\ \A d \in Clients \ {c} : expect'[d] = expect[d]
<1>1. expect \in [Clients -> [Entries -> Values \cup {Unset}]]
  BY ContentType, Zenon
<1>. QED
  BY <1>1, Zenon DEF HandOver

\* dma_alloc and the pass-through of map_phys: the caller gives up its buffers.
LEMMA GiveUpData ==
  ASSUME DataInv, NEW c \in Clients,
         \/ \E s \in Sizes, a \in Pages : dma_alloc(c, s, a)
         \/ \E o \in Clients \ {c}, d \in MapDirs : map_phys_in_pool(c, o, d)
  PROVE  \A d \in Clients : ContentOf(d)'
<1>1. TypeOK /\ ContentOf(c) /\ pc[c] = "idle" /\ KeepBuffers(c, 0)
  BY Zenon DEF DataInv, IndInv, dma_alloc, map_phys_in_pool
<1>2. ring' = ring /\ pool' = pool /\ idx' = idx /\ ring[c] = Unset
  BY <1>1, Zenon DEF dma_alloc, map_phys_in_pool, ContentOf
<1>3. \A i \in Entries : expect'[c][i] = Unset
  BY <1>1, Keeps, EntriesInterval
<1>4. \A d \in Clients \ {c} : buf'[d] = buf[d] /\ expect'[d] = expect[d]
  BY <1>1, Keeps, Zenon
<1>5. \A d \in Clients \ {c} : /\ pc'[d] = pc[d] /\ dir'[d] = dir[d]
                               /\ addr'[d] = addr[d] /\ len'[d] = len[d]
  BY <1>1, ContentType, Zenon DEF dma_alloc, map_phys_in_pool, Goto
<1>6. Private(c)
  BY <1>2, <1>4, <1>5, Zenon DEF Private
<1>. QED
  BY <1>2, <1>3, <1>6, Moves, Zenon DEF Carried

\* dma_free, the error path of map_phys and the ends of unmap_phys: the call returns and
\* its data is in the buffer.
LEMMA ReturnData ==
  ASSUME DataInv, NEW c \in Clients,
         dma_free(c) \/ map_phys_copy_fails(c) \/ unmap_phys_in_pool(c) \/ unmap_phys_release(c)
  PROVE  \A d \in Clients : ContentOf(d)'
<1>1. IndInv /\ TypeOK /\ ContentOf(c) /\ Return(c) /\ Clear(c, 1)
  BY Zenon DEF DataInv, IndInv, dma_free, map_phys_copy_fails, unmap_phys_in_pool, unmap_phys_release
<1>2. pc[c] \in {"coherent", "copyin", "inpool", "release"}
  BY <1>1, FindsOwn, Zenon
  DEF dma_free, map_phys_copy_fails, unmap_phys_in_pool, unmap_phys_release, Bounced
<1>3. pool' = pool /\ buf' = buf /\ expect' = expect
  BY Zenon DEF dma_free, map_phys_copy_fails, unmap_phys_in_pool, unmap_phys_release
<1>4. ring'[c] = Unset /\ \A d \in Clients \ {c} : ring'[d] = ring[d]
  BY <1>1, <1>2, ContentType, Zenon
  DEF dma_free, map_phys_copy_fails, unmap_phys_in_pool, unmap_phys_release, ContentOf
<1>5. pc'[c] = "idle" /\ 1 \in Entries
  BY <1>1, Returns, EntriesInterval, Zenon
<1>6. Private(c)
  <2>1. \A d \in Clients \ {c} : pc'[d] = pc[d] /\ dir'[d] = dir[d] /\ idx'[d] = idx[d]
    BY <1>1, Returns, Zenon
  <2>2. \A d \in Clients \ {c} : addr'[d] = addr[d] /\ len'[d] = len[d]
    BY <1>1, <1>5, Clears, Zenon
  <2>. QED
    BY <1>3, <1>4, <2>1, <2>2, Zenon DEF Private
<1>7. \A i \in Entries : KeptInBuf(c, i) /\ ~KeptInPool(c, i)'
  BY <1>2, <1>5, Zenon DEF KeptInBuf, KeptInPool, Owns
<1>. QED
  BY <1>3, <1>4, <1>6, <1>7, Moves, Zenon DEF Carried

\* The allocation of map_phys: the data is still in the buffer.
LEMMA MapPhysData ==
  ASSUME DataInv, NEW c \in Clients, NEW s \in Sizes, NEW d \in MapDirs, NEW a \in Pages,
         map_phys(c, s, d, a)
  PROVE  \A e \in Clients : ContentOf(e)'
<1>1. IndInv /\ TypeOK /\ ContentOf(c) /\ pc[c] = "idle" /\ KeepBuffers(c, 1)
  BY Zenon DEF DataInv, IndInv, map_phys
<1>2. ring' = ring /\ pool' = pool /\ idx' = idx /\ ring[c] = Unset
  BY <1>1, Zenon DEF map_phys, ContentOf
<1>3. /\ pc'[c] = (IF CopiesIn(d) THEN "copyin" ELSE "record") /\ dir'[c] = d
      /\ \A e \in Clients \ {c} : /\ pc'[e] = pc[e] /\ dir'[e] = dir[e]
                                  /\ addr'[e] = addr[e] /\ len'[e] = len[e]
  BY <1>1, ContentType, Zenon DEF map_phys, Goto
<1>4. /\ \A i \in Entries : \/ expect'[c][i] = Unset
                            \/ expect'[c][i] = expect[c][i] /\ buf'[c][i] = buf[c][i]
      /\ \A e \in Clients \ {c} : buf'[e] = buf[e] /\ expect'[e] = expect[e]
  BY <1>1, Keeps, Zenon
<1>5. Private(c)
  BY <1>2, <1>3, <1>4, Zenon DEF Private
<1>6. \A i \in Entries : addr[c][i] = DMA_MAPPING_ERROR
  BY <1>1, EntriesInterval DEF IndInv, Shape, ShapeOf, Mapped
<1>7. \A i \in Entries : KeptInBuf(c, i) /\ ~KeptInPool(c, i)'
  BY <1>3, <1>6, Zenon DEF KeptInBuf, KeptInPool, Owns
<1>. QED
  BY <1>2, <1>4, <1>5, <1>7, Moves, Zenon DEF Carried

\* The record of map_phys and sync_for_device without a copy: the device gets the mapping.
LEMMA HandOverData ==
  ASSUME DataInv, NEW c \in Clients,
         map_phys_record(c) \/ (sync_for_device(c) /\ ~CopiesIn(dir[c]))
  PROVE  \A d \in Clients : ContentOf(d)'
<1>1. /\ IndInv /\ TypeOK /\ ContentOf(c) /\ HandOver(c, 1)
      /\ pc[c] = "record" \/ (pc[c] = "cpuowned" /\ ~CopiesIn(dir[c]))
  BY Zenon DEF DataInv, IndInv, map_phys_record, sync_for_device
<1>2. /\ pc' = [pc EXCEPT ![c] = "mapped"] /\ pool' = pool /\ dir' = dir /\ idx' = idx
      /\ addr' = addr /\ len' = len /\ buf' = buf /\ ring' = ring
  BY Zenon DEF map_phys_record, sync_for_device, Goto
<1>3. pc'[c] = "mapped" /\ (\A d \in Clients \ {c} : pc'[d] = pc[d]) /\ ring[c] = Unset
  BY <1>1, <1>2, ContentType, Zenon DEF ContentOf
<1>4. /\ 1 \in Entries
      /\ dir[c] = "FROM_DEVICE" => expect'[c][1] = Unset
      /\ \A i \in Entries : expect'[c][i] = Unset \/ expect'[c][i] = expect[c][i]
      /\ \A d \in Clients \ {c} : expect'[d] = expect[d]
  BY <1>1, HandsOver, EntriesInterval, Zenon
<1>5. \A i \in Entries \ {1} : ~Owns(c, i)
  BY <1>1, SingleEntry, Zenon DEF IndInv, Shape, Owns, Bounced
<1>6. Private(c)
  BY <1>2, <1>3, <1>4, Zenon DEF Private
<1>7. ASSUME NEW i \in Entries, expect'[c][i] # Unset
      PROVE  KeptInBuf(c, i) /\ (KeptInPool(c, i)' => KeptInPool(c, i))
  <2>1. KeptInBuf(c, i)
    BY <1>1, Zenon DEF KeptInBuf
  <2>2. ASSUME KeptInPool(c, i)' PROVE KeptInPool(c, i)
    <3>1. Owns(c, i)
      BY <1>1, <1>2, <2>2, Zenon DEF KeptInPool, Owns
    <3>2. i = 1 /\ dir[c] # "FROM_DEVICE"
      BY <1>4, <1>5, <1>7, <3>1, Zenon
    <3>. QED
      BY <1>1, <3>1, <3>2, Zenon DEF KeptInPool, CopiesIn
  <2>. QED
    BY <2>1, <2>2, Zenon
<1>8. \A i \in Entries : Carried(c, i)
  BY <1>2, <1>4, <1>7, Zenon DEF Carried
<1>. QED
  BY <1>2, <1>3, <1>6, <1>8, Moves, Zenon

\* Looking a record up: the data stays where it is until the copy.
LEMMA LookupData ==
  ASSUME DataInv, NEW c \in Clients,
         unmap_phys(c) \/ sync_for_cpu(c) \/ (sync_for_device(c) /\ CopiesIn(dir[c]))
  PROVE  \A d \in Clients : ContentOf(d)'
<1>1. IndInv /\ TypeOK /\ ContentOf(c)
  BY Zenon DEF DataInv, IndInv
<1>2. pc[c] # "inpool"
  BY <1>1, NoRecordInPool, Zenon DEF unmap_phys, sync_for_cpu, sync_for_device
<1>3. \/ /\ pc[c] = "mapped" /\ CopiesOut(dir[c])
         /\ Goto(c, "copyout") \/ Goto(c, "synccpu")
      \/ /\ pc[c] = "mapped" /\ ~CopiesOut(dir[c])
         /\ Goto(c, "release") \/ Goto(c, "cpuowned")
      \/ pc[c] = "cpuowned" /\ Goto(c, "syncdev")
  BY <1>2, Zenon DEF unmap_phys, sync_for_cpu, sync_for_device
<1>4. /\ pool' = pool /\ dir' = dir /\ idx' = idx /\ addr' = addr /\ len' = len
      /\ buf' = buf /\ expect' = expect /\ ring' = ring
  BY Zenon DEF unmap_phys, sync_for_cpu, sync_for_device
<1>5. /\ \/ pc[c] = "mapped" /\ CopiesOut(dir[c]) /\ pc'[c] \in {"copyout", "synccpu"}
         \/ pc[c] = "mapped" /\ ~CopiesOut(dir[c]) /\ pc'[c] \in {"release", "cpuowned"}
         \/ pc[c] = "cpuowned" /\ pc'[c] = "syncdev"
      /\ \A d \in Clients \ {c} : pc'[d] = pc[d]
  BY <1>1, <1>3, ContentType, Zenon DEF Goto
<1>6. ring[c] = Unset /\ Private(c)
  BY <1>1, <1>4, <1>5, Zenon DEF ContentOf, Private
<1>7. \A i \in Entries : /\ KeptInBuf(c, i)' => KeptInBuf(c, i)
                         /\ KeptInPool(c, i)' => KeptInPool(c, i)
  BY <1>4, <1>5, Zenon DEF KeptInBuf, KeptInPool, Owns
<1>. QED
  BY <1>4, <1>6, <1>7, Moves, Zenon DEF Carried

\* map_sg begins: the data is in the buffers.
LEMMA MapSgData ==
  ASSUME DataInv, NEW c \in Clients, NEW n \in Entries, NEW s, NEW d, map_sg(c, n, s, d)
  PROVE  \A e \in Clients : ContentOf(e)'
<1>1. IndInv /\ TypeOK /\ ContentOf(c) /\ pc[c] = "idle" /\ KeepBuffers(c, n)
  BY Zenon DEF DataInv, IndInv, map_sg
<1>2. ring' = ring /\ pool' = pool /\ addr' = addr /\ ring[c] = Unset
  BY <1>1, Zenon DEF map_sg, ContentOf
<1>3. /\ pc'[c] = "sgmap"
      /\ \A e \in Clients \ {c} : /\ pc'[e] = pc[e] /\ dir'[e] = dir[e]
                                  /\ idx'[e] = idx[e] /\ len'[e] = len[e]
  BY <1>1, ContentType, Zenon DEF map_sg, Goto
<1>4. /\ \A i \in Entries : \/ expect'[c][i] = Unset
                            \/ expect'[c][i] = expect[c][i] /\ buf'[c][i] = buf[c][i]
      /\ \A e \in Clients \ {c} : buf'[e] = buf[e] /\ expect'[e] = expect[e]
  BY <1>1, Keeps, Zenon
<1>5. Private(c)
  BY <1>2, <1>3, <1>4, Zenon DEF Private
<1>6. \A i \in Entries : addr[c][i] = DMA_MAPPING_ERROR
  BY <1>1, EntriesInterval DEF IndInv, Shape, ShapeOf, Mapped
<1>7. \A i \in Entries : KeptInBuf(c, i) /\ ~KeptInPool(c, i)'
  BY <1>2, <1>6, Zenon DEF KeptInBuf, KeptInPool, Owns
<1>. QED
  BY <1>2, <1>4, <1>5, <1>7, Moves, Zenon DEF Carried

\* The allocation of one scatterlist entry.
LEMMA MapSgEntryData ==
  ASSUME DataInv, NEW c \in Clients, NEW a \in Pages, map_sg_entry(c, a)
  PROVE  \A d \in Clients : ContentOf(d)'
<1>1. IndInv /\ TypeOK /\ ContentOf(c) /\ pc[c] = "sgmap" /\ idx[c] <= nents[c]
  BY Zenon DEF DataInv, IndInv, map_sg_entry
<1>2. idx[c] \in Entries
  BY <1>1, FunsType, EntriesInterval
<1>3. /\ pool' = pool /\ dir' = dir /\ len' = len /\ buf' = buf /\ expect' = expect
      /\ ring' = ring /\ addr' = [addr EXCEPT ![c][idx[c]] = a]
      /\ \/ /\ CopiesIn(dir[c]) /\ pc' = [pc EXCEPT ![c] = "sgcopy"] /\ idx' = idx
         \/ /\ ~CopiesIn(dir[c]) /\ pc' = pc /\ idx' = [idx EXCEPT ![c] = idx[c] + 1]
  BY Zenon DEF map_sg_entry, Goto
<1>4. /\ pc \in [Clients -> Locations] /\ idx \in [Clients -> 1 .. MaxNents + 1]
      /\ addr \in [Clients -> [Entries -> Pages \cup {DMA_MAPPING_ERROR}]]
  BY <1>1, ContentType, Zenon
<1>5. /\ \A j \in Entries \ {idx[c]} : addr'[c][j] = addr[c][j]
      /\ \A d \in Clients \ {c} : addr'[d] = addr[d]
  BY <1>2, <1>3, <1>4, Zenon
<1>6. /\ \/ CopiesIn(dir[c]) /\ pc'[c] = "sgcopy" /\ idx'[c] = idx[c]
         \/ ~CopiesIn(dir[c]) /\ pc'[c] = "sgmap"
      /\ \A d \in Clients \ {c} : pc'[d] = pc[d] /\ idx'[d] = idx[d]
  BY <1>1, <1>3, <1>4, Zenon
<1>7. ring[c] = Unset /\ Private(c)
  BY <1>1, <1>3, <1>5, <1>6, Zenon DEF ContentOf, Private
<1>8. ASSUME NEW i \in Entries
      PROVE  /\ KeptInBuf(c, i)
             /\ KeptInPool(c, i)' => KeptInPool(c, i) /\ addr'[c][i] = addr[c][i]
  BY <1>1, <1>3, <1>5, <1>6, Zenon DEF KeptInBuf, KeptInPool, Owns
<1>. QED
  BY <1>3, <1>7, <1>8, Moves, Zenon DEF Carried

\* The error path of map_sg: nothing has left the buffers.
LEMMA MapSgUndoData ==
  ASSUME DataInv, NEW c \in Clients,
         map_sg_entry_fails(c) \/ map_sg_undo(c) \/ map_sg_undone(c)
  PROVE  \A d \in Clients : ContentOf(d)'
<1>1. IndInv /\ TypeOK /\ ContentOf(c) /\ pc[c] \in {"sgmap", "sgundo"}
  BY Zenon DEF DataInv, IndInv, map_sg_entry_fails, map_sg_undo, map_sg_undone
<1>2. pool' = pool /\ buf' = buf /\ expect' = expect /\ ring' = ring /\ ring[c] = Unset
  BY <1>1, Zenon DEF map_sg_entry_fails, map_sg_undo, map_sg_undone, ContentOf
<1>3. pc'[c] \in {"sgundo", "idle"}
  BY <1>1, ContentType, Zenon DEF map_sg_entry_fails, map_sg_undo, map_sg_undone, Return, Goto
<1>4. \A d \in Clients \ {c} : /\ pc'[d] = pc[d] /\ dir'[d] = dir[d] /\ idx'[d] = idx[d]
                               /\ addr'[d] = addr[d] /\ len'[d] = len[d]
  BY <1>1, ContentType, Zenon DEF map_sg_entry_fails, map_sg_undo, map_sg_undone, Return, Goto, Clear
<1>5. Private(c)
  BY <1>2, <1>4, Zenon DEF Private
<1>6. \A i \in Entries : KeptInBuf(c, i) /\ ~KeptInPool(c, i)'
  BY <1>1, <1>3, Zenon DEF KeptInBuf, KeptInPool
<1>. QED
  BY <1>2, <1>5, <1>6, Moves, Zenon DEF Carried

\* map_sg returns: the device gets the entries.
LEMMA MapSgDoneData ==
  ASSUME DataInv, NEW c \in Clients, map_sg_done(c)
  PROVE  \A d \in Clients : ContentOf(d)'
<1>1. /\ IndInv /\ TypeOK /\ ContentOf(c) /\ HandOver(c, nents[c])
      /\ pc[c] = "sgmap" /\ idx[c] > nents[c]
  BY Zenon DEF DataInv, IndInv, map_sg_done
<1>2. /\ pc' = [pc EXCEPT ![c] = "sgmapped"] /\ pool' = pool /\ dir' = dir /\ idx' = idx
      /\ addr' = addr /\ len' = len /\ buf' = buf /\ ring' = ring
  BY Zenon DEF map_sg_done, Goto
<1>3. pc'[c] = "sgmapped" /\ (\A d \in Clients \ {c} : pc'[d] = pc[d]) /\ ring[c] = Unset
  BY <1>1, <1>2, ContentType, Zenon DEF ContentOf
<1>4. /\ \A i \in Entries : dir[c] = "FROM_DEVICE" /\ i <= nents[c] => expect'[c][i] = Unset
      /\ \A i \in Entries : expect'[c][i] = Unset \/ expect'[c][i] = expect[c][i]
      /\ \A d \in Clients \ {c} : expect'[d] = expect[d]
  BY <1>1, HandsOver, Zenon
<1>5. \A i \in Entries : Owns(c, i) => i <= nents[c]
  <2>1. Mapped(c, 1, idx[c] - 1) /\ idx[c] <= nents[c] + 1
    BY <1>1, Zenon DEF IndInv, Shape, ShapeOf
  <2>. QED
    BY <1>1, <2>1, FunsType, EntriesInterval DEF Mapped, Owns
<1>6. Private(c)
  BY <1>2, <1>3, <1>4, Zenon DEF Private
<1>7. ASSUME NEW i \in Entries, expect'[c][i] # Unset, KeptInPool(c, i)'
      PROVE  KeptInPool(c, i)
  <2>1. Owns(c, i)
    BY <1>1, <1>2, <1>7, Zenon DEF KeptInPool, Owns
  <2>2. dir[c] # "FROM_DEVICE"
    BY <1>4, <1>5, <1>7, <2>1, Zenon
  <2>. QED
    BY <1>1, <2>1, <2>2, Zenon DEF KeptInPool, CopiesIn
<1>8. \A i \in Entries : KeptInBuf(c, i)
  BY <1>1, Zenon DEF KeptInBuf
<1>9. \A i \in Entries : Carried(c, i)
  BY <1>2, <1>4, <1>7, <1>8, Zenon DEF Carried
<1>. QED
  BY <1>2, <1>3, <1>6, <1>9, Moves, Zenon

\* unmap_sg begins, and returns when all entries have been freed.
LEMMA UnmapSgData ==
  ASSUME DataInv, NEW c \in Clients, unmap_sg(c) \/ unmap_sg_done(c)
  PROVE  \A d \in Clients : ContentOf(d)'
<1>1. IndInv /\ TypeOK /\ ContentOf(c)
  BY Zenon DEF DataInv, IndInv
<1>2. /\ \/ pc[c] = "sgmapped" /\ pc'[c] = "sgunmap" /\ dir' = dir
         \/ pc[c] = "sgunmap" /\ idx[c] > nents[c] /\ pc'[c] = "idle"
      /\ \A d \in Clients \ {c} : pc'[d] = pc[d] /\ dir'[d] = dir[d] /\ idx'[d] = idx[d]
  BY <1>1, ContentType, Zenon DEF unmap_sg, unmap_sg_done, Return, Goto
<1>3. /\ pool' = pool /\ addr' = addr /\ len' = len /\ buf' = buf /\ expect' = expect
      /\ ring' = ring
  BY Zenon DEF unmap_sg, unmap_sg_done
<1>4. ring[c] = Unset /\ Private(c)
  BY <1>1, <1>2, <1>3, Zenon DEF ContentOf, Private
<1>5. ASSUME pc[c] = "sgunmap", idx[c] > nents[c] PROVE \A i \in Entries : ~Owns(c, i)
  <2>1. Mapped(c, idx[c], nents[c])
    BY <1>1, <1>5, Zenon DEF IndInv, Shape, ShapeOf
  <2>. QED
    BY <1>1, <1>5, <2>1, FunsType, EntriesInterval DEF Mapped, Owns
<1>6. \A i \in Entries : /\ KeptInBuf(c, i)' => KeptInBuf(c, i)
                         /\ KeptInPool(c, i)' => KeptInPool(c, i)
  BY <1>2, <1>3, <1>5, Zenon DEF KeptInBuf, KeptInPool, Owns
<1>. QED
  BY <1>3, <1>4, <1>6, Moves, Zenon DEF Carried

\* unmap_sg frees one entry, whose data is back in its buffer.
LEMMA UnmapSgEntryData ==
  ASSUME DataInv, NEW c \in Clients, unmap_sg_entry(c)
  PROVE  \A d \in Clients : ContentOf(d)'
<1>1. /\ IndInv /\ TypeOK /\ ContentOf(c) /\ Clear(c, idx[c])
      /\ \/ pc[c] = "sgfree"
         \/ pc[c] = "sgunmap" /\ idx[c] <= nents[c] /\ ~CopiesOut(dir[c])
  BY Zenon DEF DataInv, IndInv, unmap_sg_entry
<1>2. idx[c] \in Entries
  BY <1>1, LoopEntry, Zenon DEF IndInv, Shape
<1>3. /\ pool' = pool /\ dir' = dir /\ buf' = buf /\ expect' = expect /\ ring' = ring
      /\ pc' = [pc EXCEPT ![c] = "sgunmap"] /\ idx' = [idx EXCEPT ![c] = idx[c] + 1]
  BY Zenon DEF unmap_sg_entry, Goto
<1>4. /\ pc'[c] = "sgunmap"
      /\ \A d \in Clients \ {c} : pc'[d] = pc[d] /\ idx'[d] = idx[d]
  BY <1>1, <1>3, ContentType, Zenon
<1>5. /\ addr'[c][idx[c]] = DMA_MAPPING_ERROR
      /\ \A j \in Entries \ {idx[c]} : addr'[c][j] = addr[c][j] /\ len'[c][j] = len[c][j]
      /\ \A d \in Clients \ {c} : addr'[d] = addr[d] /\ len'[d] = len[d]
  BY <1>1, <1>2, Clears, Zenon
<1>6. ring[c] = Unset /\ Private(c)
  BY <1>1, <1>3, <1>4, <1>5, Zenon DEF ContentOf, Private
<1>7. ASSUME NEW i \in Entries
      PROVE  /\ KeptInBuf(c, i)' => KeptInBuf(c, i)
             /\ KeptInPool(c, i)' =>
                  KeptInPool(c, i) /\ addr'[c][i] = addr[c][i] /\ len'[c][i] = len[c][i]
  <2>1. CASE i = idx[c]
    BY <1>1, <1>5, <2>1, Zenon DEF KeptInBuf, KeptInPool, Owns
  <2>2. CASE i # idx[c]
    BY <1>1, <1>3, <1>4, <1>5, <2>2, Zenon DEF KeptInBuf, KeptInPool, Owns
  <2>. QED
    BY <2>1, <2>2, Zenon
<1>. QED
  BY <1>3, <1>6, <1>7, Moves, Zenon DEF Carried

-----------------------------------------------------------------------------
(* The invariant and the theorem.                                          *)

\* Nothing is expected of any buffer initially.
LEMMA DataInvInit == Init => DataInv
<1>. SUFFICES ASSUME Init PROVE DataInv
  BY Zenon
<1>1. IndInv
  BY IndInvInit, Zenon
<1>2. ASSUME NEW c \in Clients PROVE ContentOf(c)
  <2>1. /\ pc[c] = "idle" /\ ring[c] = Unset
        /\ \A i \in Entries : expect[c][i] = Unset
    BY Zenon DEF Init
  <2>. QED
    BY <2>1, Zenon DEF ContentOf, BufHolds, PoolHolds
<1>. QED
  BY <1>1, <1>2, Zenon DEF DataInv

\* Every step keeps the data where the next copy will take it from.
LEMMA DataInvNext == DataInv /\ [Next]_vars => DataInv'
<1>1. ASSUME DataInv, NEW c \in Clients, ClientStep(c) PROVE \A d \in Clients : ContentOf(d)'
  <2>1. CASE sync_for_device(c)
    BY <1>1, <2>1, HandOverData, LookupData, Zenon
  <2>2. CASE ~sync_for_device(c)
    BY <1>1, <2>2, CoherentWriteData, MapPhysCopyData, CopyBackData, SyncDeviceData,
       SgCopyInData, SgCopyOutData, DeviceWriteData, CpuWriteData, GiveUpData, ReturnData,
       MapPhysData, HandOverData, LookupData, MapSgData, MapSgEntryData, MapSgUndoData,
       MapSgDoneData, UnmapSgData, UnmapSgEntryData, Zenon
    DEF ClientStep
  <2>. QED
    BY <2>1, <2>2, Zenon
<1>2. ASSUME DataInv, UNCHANGED vars PROVE \A d \in Clients : ContentOf(d)'
  <2>. SUFFICES ASSUME NEW d \in Clients PROVE ContentOf(d)'
    BY Zenon
  <2>1. ContentOf(d)
    BY <1>2, Zenon DEF DataInv
  <2>2. /\ pool' = pool /\ pc' = pc /\ dir' = dir /\ idx' = idx /\ addr' = addr /\ len' = len
        /\ buf' = buf /\ expect' = expect /\ ring' = ring
    BY <1>2, Zenon DEF vars
  <2>. QED
    BY <2>1, <2>2, Zenon DEF ContentOf, KeptInBuf, KeptInPool, BufHolds, PoolHolds, Owns, PagesHeld
<1>3. DataInv /\ [Next]_vars => IndInv'
  BY IndInvNext, Zenon DEF DataInv
<1>. QED
  BY <1>1, <1>2, <1>3, Zenon DEF DataInv, Next

\* The data is at every moment where the next copy will take it from (axi_mmio.c, the
\* copies between the restricted pool and the buffers of the callers).
THEOREM DataInvAlways == Spec => []DataInv
BY DataInvInit, DataInvNext, PTL DEF Spec

\* Each side sees what the other wrote, and coherent memory is never overwritten by a
\* neighbour's bounce copy: map, unmap and sync of axi_mmio.c, for every interleaving of
\* their callers.
THEOREM DataIntactAlways == Spec => []DataIntact
<1>1. DataInv => DataIntact
  <2>. SUFFICES ASSUME DataInv, NEW c \in Clients
                PROVE  /\ \A i \in Entries : expect[c][i] # Unset =>
                            /\ pc[c] \in {"idle", "cpuowned"} => buf[c][i] = expect[c][i]
                            /\ pc[c] \in {"mapped", "sgmapped"} /\ Owns(c, i) =>
                                 \A p \in PagesHeld(c, i) : pool[p] = expect[c][i]
                       /\ pc[c] = "coherent" /\ ring[c] # Unset =>
                            \A p \in PagesHeld(c, 1) : pool[p] = ring[c]
    BY Zenon DEF DataIntact
  <2>1. ContentOf(c)
    BY Zenon DEF DataInv
  <2>2. ASSUME NEW i \in Entries, expect[c][i] # Unset, pc[c] \in {"idle", "cpuowned"}
        PROVE  buf[c][i] = expect[c][i]
    <3>1. pc[c] = "idle" => ~Owns(c, i)
      BY EntriesInterval DEF DataInv, IndInv, Shape, ShapeOf, Mapped, Owns
    <3>2. KeptInBuf(c, i)
      BY <2>2, <3>1, Zenon DEF KeptInBuf
    <3>. QED
      BY <2>1, <2>2, <3>2, Zenon DEF ContentOf, BufHolds
  <2>3. ASSUME NEW i \in Entries, expect[c][i] # Unset, pc[c] \in {"mapped", "sgmapped"}, Owns(c, i)
        PROVE  \A p \in PagesHeld(c, i) : pool[p] = expect[c][i]
    BY <2>1, <2>3, Zenon DEF ContentOf, KeptInPool, PoolHolds
  <2>4. pc[c] = "coherent" /\ ring[c] # Unset => \A p \in PagesHeld(c, 1) : pool[p] = ring[c]
    BY <2>1, Zenon DEF ContentOf
  <2>. QED
    BY <2>2, <2>3, <2>4, Zenon
<1>. QED
  BY <1>1, DataInvAlways, PTL
=============================================================================

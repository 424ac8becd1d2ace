------------------------------- MODULE AxiPool -------------------------------
(***************************************************************************)
(* Life cycle of the restricted DMA pools of kernel/axi_mmio.c: devices    *)
(* are probed and removed concurrently, and devices with the same aperture *)
(* share one reference counted pool, found through the global list         *)
(* axi_mmio_pools.  A section under axi_mmio_pools_lock is one step; what  *)
(* the code does between two sections is a step of its own.                *)
(***************************************************************************)
EXTENDS Integers, FiniteSets

CONSTANTS
  Devices,   \* platform devices that axi_mmio binds to
  Apertures, \* (dma_base, dma_size) pairs
  Aperture,  \* memory resource 1 of each device
  Pools      \* memory for struct axi_mmio_pool objects

ASSUME ConstantsAssumption ==
  /\ IsFiniteSet(Devices)
  /\ Aperture \in [Devices -> Apertures]
  /\ "none" \notin Pools

VARIABLES
  list,  \* axi_mmio_pools: the pools on the global list
  live,  \* the pools that are allocated, with their mapping and bitmap
  key,   \* (dma_base, dma_size) of each pool
  refs,  \* pool->refs
  pc,    \* where the probe or the removal of each device is
  mine   \* the pool the device refers to: axi->pool, or new_pool

vars == <<list, live, key, refs, pc, mine>>

None == "none"

Init ==
  /\ list = {}
  /\ live = {}
  /\ \E a \in Apertures : key = [p \in Pools |-> a]
  /\ refs = [p \in Pools |-> 0]
  /\ pc = [d \in Devices |-> "absent"]
  /\ mine = [d \in Devices |-> None]

Goto(d, l) == pc' = [pc EXCEPT ![d] = l]

-----------------------------------------------------------------------------
(* axi_mmio_probe.  An error before axi_mmio_pool_get changes nothing.     *)

\* Mutated form: a pool is looked up by nothing, so it is never shared.
Matches_never(d) == {p \in list : FALSE}

\* The lookup of pool_get, done before and again after the allocation.
Matches(d) == {p \in list : key[p] = Aperture[d]}

\* Mutated form: sharing a pool takes no reference.
refcount_inc_lost(p) == refs' = refs

refcount_inc(p) == refs' = [refs EXCEPT ![p] = @ + 1]

probe_lookup(d) ==
  /\ pc[d] = "absent"
  /\ \/ \E p \in Matches(d) :
          /\ refcount_inc(p)
          /\ mine' = [mine EXCEPT ![d] = p]
          /\ Goto(d, "holding")
     \/ /\ Matches(d) = {}
        /\ Goto(d, "allocating")
        /\ UNCHANGED <<refs, mine>>
  /\ UNCHANGED <<list, live, key>>

\* kzalloc, memremap and bitmap_zalloc all succeed.
probe_allocate(d, p) ==
  /\ pc[d] = "allocating"
  /\ p \notin live
  /\ live' = live \cup {p}
  /\ key' = [key EXCEPT ![p] = Aperture[d]]
  /\ refs' = [refs EXCEPT ![p] = 1]
  /\ mine' = [mine EXCEPT ![d] = p]
  /\ Goto(d, "relookup")
  /\ UNCHANGED list

\* One of them fails; the earlier ones are undone and the probe fails.
probe_allocate_fails(d) ==
  /\ pc[d] = "allocating"
  /\ Goto(d, "absent")
  /\ UNCHANGED <<list, live, key, refs, mine>>

\* Mutated form: the losing new_pool is forgotten.
discard_new_pool_leak(d) == live' = live

discard_new_pool(d) == live' = live \ {mine[d]}

\* The second lookup, after another device may have added the same pool.  The
\* new pool is freed after the unlock.
probe_relookup(d) ==
  /\ pc[d] = "relookup"
  /\ \/ \E p \in Matches(d) :
          /\ refcount_inc(p)
          /\ discard_new_pool(d)
          /\ mine' = [mine EXCEPT ![d] = p]
          /\ UNCHANGED list
     \/ /\ Matches(d) = {}
        /\ list' = list \cup {mine[d]}
        /\ UNCHANGED <<live, refs, mine>>
  /\ Goto(d, "holding")
  /\ UNCHANGED key

\* The rest of the probe: the child device is registered with its DMA ops.
probe_done(d) ==
  /\ pc[d] = "holding"
  /\ Goto(d, "bound")
  /\ UNCHANGED <<list, live, key, refs, mine>>

-----------------------------------------------------------------------------
(* axi_mmio_pool_put, through the devm action axi_mmio_pool_release: when  *)
(* a later step of the probe fails, or when the bound device is removed    *)
(* (the child is unregistered first).                                      *)

\* Mutated form: the pool goes away with the second last reference.
dec_and_test_early(p) == refs[p] <= 2

\* refcount_dec_and_test: is the reference that is dropped the last one?
dec_and_test(p) == refs[p] = 1

pool_put(d) ==
  LET p == mine[d] IN
  /\ pc[d] \in {"holding", "bound"}
  /\ refs' = [refs EXCEPT ![p] = @ - 1]
  /\ IF dec_and_test(p)
       THEN /\ list' = list \ {p}
            /\ Goto(d, "destroying")
            /\ UNCHANGED mine
       ELSE /\ Goto(d, "absent")
            /\ mine' = [mine EXCEPT ![d] = None]
            /\ UNCHANGED list
  /\ UNCHANGED <<live, key>>

\* bitmap_free, memunmap and kfree, after the unlock.
pool_destroy(d) ==
  /\ pc[d] = "destroying"
  /\ live' = live \ {mine[d]}
  /\ mine' = [mine EXCEPT ![d] = None]
  /\ Goto(d, "absent")
  /\ UNCHANGED <<list, key, refs>>

Next ==
  \E d \in Devices :
    \/ probe_lookup(d)
    \/ \E p \in Pools : probe_allocate(d, p)
    \/ probe_allocate_fails(d)
    \/ probe_relookup(d)
    \/ probe_done(d)
    \/ pool_put(d)
    \/ pool_destroy(d)

Spec == Init /\ [][Next]_vars

-----------------------------------------------------------------------------
(* Properties.                                                             *)

\* Type invariant.
TypeOK ==
  /\ list \subseteq Pools
  /\ live \subseteq Pools
  /\ key \in [Pools -> Apertures]
  /\ refs \in [Pools -> Nat]
  /\ pc \in [Devices -> {"absent", "allocating", "relookup", "holding", "bound",
                          "destroying"}]
  /\ mine \in [Devices -> Pools \cup {None}]

Holders(p) == {d \in Devices : mine[d] = p /\ pc[d] \in {"holding", "bound"}}

\* The reference count of a listed pool is the number of devices using it,
\* through every interleaving of probes and removals.
RefsExact == \A p \in list : refs[p] = Cardinality(Holders(p))

\* A device that has a pool has it on the list, allocated and for its own
\* aperture: the DMA operations never run on a pool that another device's
\* removal freed, and the lookup never returns one about to be freed.
HeldAlive ==
  \A d \in Devices : pc[d] \in {"holding", "bound"} =>
    mine[d] \in list \cap live /\ key[mine[d]] = Aperture[d]

\* Devices with the same aperture use the same pool, hence the same bitmap,
\* however their probes interleave; two bitmaps for one aperture would hand
\* out the same page twice.
OnePoolPerAperture ==
  \A d, e \in Devices :
    pc[d] = "bound" /\ pc[e] = "bound" /\ Aperture[d] = Aperture[e] =>
      mine[d] = mine[e]

\* Every allocated pool is in use, or some call is about to list or free it:
\* the pool that loses the race of two probes, and the last reference, are
\* not leaked.
NoPoolLeaked ==
  \A p \in live :
    IF p \in list THEN Holders(p) # {}
                  ELSE \E d \in Devices : mine[d] = p /\ pc[d] \in {"relookup", "destroying"}

-----------------------------------------------------------------------------
(* The inductive invariant behind these properties.                        *)

MineShape ==
  \A d \in Devices :
    IF pc[d] \in {"absent", "allocating"} THEN mine[d] = None ELSE mine[d] \in Pools

ListUnique == \A p, q \in list : key[p] = key[q] => p = q

\* A pool not yet listed, or listed no more, belongs to one call alone.
Private ==
  \A d \in Devices : pc[d] \in {"relookup", "destroying"} =>
    /\ mine[d] \in live \ list
    /\ pc[d] = "relookup" => key[mine[d]] = Aperture[d] /\ refs[mine[d]] = 1
    /\ \A e \in Devices : mine[e] = mine[d] => e = d

\* Inductive invariant: at most one listed pool per aperture, listed pools are
\* allocated, and pools outside the list are private to the call that adds or
\* destroys them.
IndInv ==
  /\ TypeOK
  /\ MineShape
  /\ list \subseteq live
  /\ ListUnique
  /\ Private
  /\ HeldAlive
  /\ RefsExact
  /\ NoPoolLeaked
=============================================================================

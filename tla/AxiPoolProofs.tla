---------------------------- MODULE AxiPoolProofs ----------------------------
(***************************************************************************)
(* Proofs about the pool life cycle, for any devices, apertures and pools. *)
(***************************************************************************)
EXTENDS AxiPool, TLAPS, FiniteSetTheorems

USE ConstantsAssumption

\* The devices that hold a pool can be counted.
LEMMA HoldersFinite ==
  ASSUME NEW p
  PROVE  IsFiniteSet(Holders(p)) /\ Cardinality(Holders(p)) \in Nat
<1>1. Holders(p) \subseteq Devices
  BY DEF Holders
<1>2. IsFiniteSet(Holders(p))
  BY <1>1, FS_Subset
<1>. QED
  BY <1>2, FS_CardinalityType

\* The initial state, without devices and pools, satisfies the invariant.
LEMMA IndInvInit == Init => IndInv
<1>. SUFFICES ASSUME Init PROVE IndInv
  OBVIOUS
<1>1. TypeOK
  BY DEF Init, TypeOK
<1>. QED
  BY <1>1 DEF Init, IndInv, MineShape, ListUnique, Private, HeldAlive, RefsExact,
              NoPoolLeaked

\* A device gets the pool p, found on the list by a lookup: the count stays exact.
LEMMA RefsAfterInc ==
  ASSUME IndInv, NEW d \in Devices, NEW p \in list,
         pc[d] \in {"absent", "relookup"},
         refcount_inc(p),
         list' = list,
         mine' = [mine EXCEPT ![d] = p], Goto(d, "holding")
  PROVE  RefsExact'
<1>. USE DEF IndInv
<1>1. p \in Pools /\ d \notin Holders(p)
  BY DEF TypeOK, Holders
<1>2. Holders(p)' = Holders(p) \cup {d}
  BY DEF Holders, Goto, TypeOK
<1>3. Cardinality(Holders(p))' = Cardinality(Holders(p)) + 1
  <2>1. Cardinality(Holders(p) \cup {d}) = Cardinality(Holders(p)) + 1
    BY <1>1, HoldersFinite, FS_AddElement, Zenon
  <2>. QED
    BY <2>1, <1>2
<1>4. refs'[p] = Cardinality(Holders(p))'
  BY <1>1, <1>3 DEF refcount_inc, RefsExact, TypeOK
<1>5. ASSUME NEW q \in list, q # p
      PROVE  refs'[q] = Cardinality(Holders(q))'
  <2>1. mine[d] # q \/ pc[d] \notin {"holding", "bound"}
    BY DEF TypeOK
  <2>2. Holders(q)' = Holders(q)
    BY <1>5 DEF Holders, Goto, TypeOK
  <2>3. refs'[q] = refs[q]
    BY <1>5 DEF refcount_inc, TypeOK
  <2>. QED
    BY <2>2, <2>3 DEF RefsExact
<1>. QED
  BY <1>4, <1>5 DEF RefsExact

\* Steps that leave the counts and the holders of the listed pools as they are.
LEMMA RefsUnchanged ==
  ASSUME IndInv,
         list' \subseteq list,
         \A p \in list' : refs'[p] = refs[p] /\ Holders(p)' = Holders(p)
  PROVE  RefsExact'
BY DEF IndInv, RefsExact

\* First lookup of pool_get: share a listed pool, or go and allocate one.
LEMMA probe_lookup_Ind ==
  ASSUME IndInv, NEW d \in Devices, probe_lookup(d)
  PROVE  IndInv'
<1>. USE DEF IndInv
<1>1. CASE Matches(d) = {}
  <2>1. pc' = [pc EXCEPT ![d] = "allocating"] /\ UNCHANGED <<list, live, key, refs, mine>>
    BY <1>1 DEF probe_lookup, Goto
  <2>2. \A p : Holders(p)' = Holders(p)
    BY <2>1 DEF Holders, TypeOK, probe_lookup
  <2>3. RefsExact'
    BY <2>1, <2>2, RefsUnchanged
  <2>4. TypeOK'
    BY <2>1 DEF TypeOK
  <2>5. MineShape' /\ ListUnique' /\ Private' /\ HeldAlive'
    BY <2>1 DEF probe_lookup, TypeOK, MineShape, ListUnique, Private, HeldAlive
  <2>6. NoPoolLeaked'
    BY <2>1, <2>2 DEF probe_lookup, TypeOK, NoPoolLeaked, MineShape
  <2>. QED
    BY <2>1, <2>3, <2>4, <2>5, <2>6
<1>2. CASE Matches(d) # {}
  <2>1. PICK p \in Matches(d) : /\ refcount_inc(p)
                                /\ mine' = [mine EXCEPT ![d] = p]
                                /\ Goto(d, "holding")
    BY <1>2 DEF probe_lookup
  <2>2. p \in list /\ p \in Pools /\ key[p] = Aperture[d] /\ UNCHANGED <<list, live, key>>
        /\ pc[d] = "absent"
    BY DEF Matches, probe_lookup, TypeOK
  <2>3. RefsExact'
    BY <2>1, <2>2, RefsAfterInc, Zenon
  <2>4. TypeOK'
    BY <2>1, <2>2 DEF TypeOK, Goto, refcount_inc
  <2>5. MineShape' /\ ListUnique' /\ HeldAlive'
    BY <2>1, <2>2 DEF TypeOK, MineShape, ListUnique, HeldAlive, Goto
  <2>6. Private'
    BY <2>1, <2>2 DEF TypeOK, Private, Goto, MineShape, refcount_inc
  <2>7. NoPoolLeaked'
    BY <2>1, <2>2 DEF TypeOK, NoPoolLeaked, Holders, Goto
  <2>. QED
    BY <2>2, <2>3, <2>4, <2>5, <2>6, <2>7
<1>. QED
  BY <1>1, <1>2

\* Allocation of a new pool: it is private to the probe.
LEMMA probe_allocate_Ind ==
  ASSUME IndInv, NEW d \in Devices, NEW p \in Pools, probe_allocate(d, p)
  PROVE  IndInv'
<1>. USE DEF IndInv, probe_allocate
<1>1. p \notin list /\ \A e \in Devices : mine[e] # p
  BY DEF TypeOK, MineShape, Private, HeldAlive, None, ConstantsAssumption
<1>2. \A q \in list : Holders(q)' = Holders(q)
  BY <1>1 DEF Holders, Goto, TypeOK
<1>3. RefsExact'
  <2>1. \A q \in list : refs'[q] = refs[q]
    BY <1>1 DEF TypeOK
  <2>. QED
    BY <1>2, <2>1, RefsUnchanged
<1>4. TypeOK'
  BY DEF TypeOK, Goto
<1>5. MineShape' /\ ListUnique' /\ HeldAlive' /\ list' \subseteq live'
  BY <1>1 DEF TypeOK, MineShape, ListUnique, HeldAlive, Goto
<1>6. Private'
  BY <1>1 DEF TypeOK, Private, Goto
<1>7. NoPoolLeaked'
  BY <1>1, <1>2 DEF TypeOK, NoPoolLeaked, Goto, MineShape
<1>. QED
  BY <1>3, <1>4, <1>5, <1>6, <1>7

\* A failed allocation leaves nothing behind.
LEMMA probe_allocate_fails_Ind ==
  ASSUME IndInv, NEW d \in Devices, probe_allocate_fails(d)
  PROVE  IndInv'
<1>. USE DEF IndInv, probe_allocate_fails
<1>1. \A q : Holders(q)' = Holders(q)
  BY DEF Holders, Goto, TypeOK
<1>2. RefsExact'
  BY <1>1, RefsUnchanged
<1>3. TypeOK'
  BY DEF TypeOK, Goto
<1>4. MineShape' /\ ListUnique' /\ HeldAlive' /\ Private'
  BY DEF TypeOK, MineShape, ListUnique, HeldAlive, Private, Goto
<1>5. NoPoolLeaked'
  BY <1>1 DEF TypeOK, NoPoolLeaked, Goto, MineShape
<1>. QED
  BY <1>2, <1>3, <1>4, <1>5

\* Second lookup: the new pool is discarded for a listed one, or gets listed, in
\* which case no listed pool has its aperture.
LEMMA probe_relookup_Ind ==
  ASSUME IndInv, NEW d \in Devices, probe_relookup(d)
  PROVE  IndInv'
<1>. USE DEF IndInv
<1>1. CASE Matches(d) = {}
  <2>1. /\ pc[d] = "relookup" /\ pc' = [pc EXCEPT ![d] = "holding"]
        /\ list' = list \cup {mine[d]} /\ UNCHANGED <<live, refs, mine, key>>
    BY <1>1 DEF probe_relookup, Goto
  <2>2. /\ mine[d] \in Pools /\ mine[d] \in live /\ mine[d] \notin list
        /\ key[mine[d]] = Aperture[d] /\ refs[mine[d]] = 1
        /\ \A e \in Devices : mine[e] = mine[d] => e = d
    BY <2>1 DEF MineShape, Private
  <2>3. RefsExact'
    <3>1. Holders(mine[d])' = {d}
      BY <2>1, <2>2 DEF Holders, TypeOK
    <3>2. Cardinality({d}) = 1
      BY FS_Singleton
    <3>3. \A q \in list : Holders(q)' = Holders(q)
      BY <2>1, <2>2 DEF Holders, TypeOK
    <3>4. \A q \in list : refs[q] = Cardinality(Holders(q)')
      BY <3>3 DEF RefsExact
    <3>5. refs[mine[d]] = Cardinality(Holders(mine[d])')
      BY <2>2, <3>1, <3>2
    <3>6. \A q \in list' : refs'[q] = Cardinality(Holders(q)')
      BY <2>1, <3>4, <3>5
    <3>. QED
      BY <3>6 DEF RefsExact
  <2>4. TypeOK'
    BY <2>1, <2>2 DEF TypeOK
  <2>5. MineShape' /\ HeldAlive' /\ list' \subseteq live'
    BY <2>1, <2>2 DEF TypeOK, MineShape, HeldAlive
  <2>6. ListUnique'
    BY <1>1, <2>1, <2>2 DEF ListUnique, Matches
  <2>7. Private'
    BY <2>1, <2>2 DEF TypeOK, Private
  <2>8. NoPoolLeaked'
    BY <2>1, <2>2 DEF TypeOK, NoPoolLeaked, Holders
  <2>. QED
    BY <2>3, <2>4, <2>5, <2>6, <2>7, <2>8
<1>2. CASE Matches(d) # {}
  <2>1. PICK p \in Matches(d) : /\ refcount_inc(p)
                                /\ discard_new_pool(d)
                                /\ mine' = [mine EXCEPT ![d] = p]
                                /\ UNCHANGED list
    BY <1>2 DEF probe_relookup
  <2>2. /\ p \in list /\ p \in Pools /\ key[p] = Aperture[d] /\ UNCHANGED <<list, key>>
        /\ pc[d] = "relookup" /\ Goto(d, "holding")
    BY <2>1 DEF Matches, probe_relookup, TypeOK
  <2>3. /\ mine[d] \in live \ list /\ live' = live \ {mine[d]}
        /\ \A e \in Devices : mine[e] = mine[d] => e = d
    BY <2>1, <2>2 DEF Private, discard_new_pool
  <2>4. RefsExact'
    BY <2>1, <2>2, RefsAfterInc, Zenon
  <2>5. TypeOK'
    BY <2>1, <2>2, <2>3 DEF TypeOK, Goto, refcount_inc
  <2>6. MineShape' /\ ListUnique' /\ HeldAlive' /\ list' \subseteq live'
    BY <2>1, <2>2, <2>3 DEF TypeOK, MineShape, ListUnique, HeldAlive, Goto
  <2>7. Private'
    BY <2>1, <2>2, <2>3 DEF TypeOK, Private, Goto, MineShape, refcount_inc
  <2>8. NoPoolLeaked'
    BY <2>1, <2>2, <2>3 DEF TypeOK, NoPoolLeaked, Holders, Goto
  <2>. QED
    BY <2>4, <2>5, <2>6, <2>7, <2>8
<1>. QED
  BY <1>1, <1>2

\* The end of the probe changes no pool.
LEMMA probe_done_Ind ==
  ASSUME IndInv, NEW d \in Devices, probe_done(d)
  PROVE  IndInv'
<1>. USE DEF IndInv, probe_done
<1>1. \A q : Holders(q)' = Holders(q)
  BY DEF Holders, Goto, TypeOK
<1>2. RefsExact'
  BY <1>1, RefsUnchanged
<1>3. TypeOK'
  BY DEF TypeOK, Goto
<1>4. MineShape' /\ ListUnique' /\ HeldAlive' /\ Private'
  BY DEF TypeOK, MineShape, ListUnique, HeldAlive, Private, Goto
<1>5. NoPoolLeaked'
  BY <1>1 DEF TypeOK, NoPoolLeaked, Goto, MineShape
<1>. QED
  BY <1>2, <1>3, <1>4, <1>5

\* A reference is dropped.  With the last one the pool leaves the list, and is
\* private to the call that will destroy it.
LEMMA pool_put_Ind ==
  ASSUME IndInv, NEW d \in Devices, pool_put(d)
  PROVE  IndInv'
<1>0. PICK p : p = mine[d]
  OBVIOUS
<1>. USE <1>0 DEF IndInv
<1>1. /\ pc[d] \in {"holding", "bound"} /\ refs' = [refs EXCEPT ![p] = @ - 1]
      /\ UNCHANGED <<live, key>>
  BY DEF pool_put
<1>2. p \in Pools /\ p \in list /\ p \in live /\ d \in Holders(p)
  BY <1>1 DEF HeldAlive, TypeOK, Holders
<1>3. Cardinality(Holders(p) \ {d}) = refs[p] - 1 /\ IsFiniteSet(Holders(p) \ {d})
  BY <1>2, HoldersFinite, FS_RemoveElement DEF RefsExact
<1>4. refs[p] - 1 \in Nat
  BY <1>3, FS_CardinalityType
<1>5. \A e \in Devices : mine[e] = p => pc[e] \in {"holding", "bound"}
  BY <1>2 DEF Private, MineShape, TypeOK, None, ConstantsAssumption
<1>6. CASE dec_and_test(p)
  <2>1. list' = list \ {p} /\ pc' = [pc EXCEPT ![d] = "destroying"] /\ mine' = mine
    BY <1>6 DEF pool_put, Goto
  <2>2. Holders(p) = {d}
    BY <1>2, <1>3, <1>6, FS_EmptySet DEF dec_and_test
  <2>3. \A e \in Devices : mine[e] = p => e = d
    BY <1>5, <2>2 DEF Holders
  <2>4. \A q \in list' : refs'[q] = refs[q] /\ Holders(q)' = Holders(q)
    BY <1>1, <2>1 DEF Holders, TypeOK
  <2>5. RefsExact'
    BY <2>1, <2>4, RefsUnchanged
  <2>6. TypeOK'
    BY <1>1, <1>4, <2>1, Zenon DEF TypeOK
  <2>7. MineShape' /\ ListUnique' /\ list' \subseteq live'
    BY <1>1, <1>2, <2>1 DEF TypeOK, MineShape, ListUnique
  <2>8. HeldAlive'
    BY <1>1, <2>1, <2>3 DEF HeldAlive, TypeOK
  <2>9. Private'
    BY <1>1, <1>2, <2>1, <2>3 DEF Private, TypeOK
  <2>10. NoPoolLeaked'
    <3>1. ASSUME NEW q \in live', q \in list'  PROVE Holders(q)' # {}
      BY <1>1, <2>1, <2>4, <3>1 DEF NoPoolLeaked
    <3>2. ASSUME NEW q \in live', q \notin list'
          PROVE  \E e \in Devices : mine'[e] = q /\ pc'[e] \in {"relookup", "destroying"}
      BY <1>1, <1>2, <2>1, <3>2 DEF NoPoolLeaked, TypeOK
    <3>. QED
      BY <3>1, <3>2 DEF NoPoolLeaked
  <2>. QED
    BY <2>5, <2>6, <2>7, <2>8, <2>9, <2>10
<1>7. CASE ~dec_and_test(p)
  <2>1. /\ list' = list /\ pc' = [pc EXCEPT ![d] = "absent"]
        /\ mine' = [mine EXCEPT ![d] = None]
    BY <1>7 DEF pool_put, Goto
  <2>2. Holders(p)' = Holders(p) \ {d}
    BY <1>2, <2>1 DEF Holders, TypeOK
  <2>3. \A q \in list : q # p => refs'[q] = refs[q] /\ Holders(q)' = Holders(q)
    BY <1>1, <2>1 DEF Holders, TypeOK
  <2>4. RefsExact'
    <3>1. refs'[p] = Cardinality(Holders(p)')
      BY <1>1, <1>2, <1>3, <2>2 DEF TypeOK
    <3>2. \A q \in list : q # p => refs'[q] = Cardinality(Holders(q)')
      BY <2>3 DEF RefsExact
    <3>. QED
      BY <2>1, <3>1, <3>2 DEF RefsExact
  <2>5. Holders(p) \ {d} # {}
    BY <1>2, <1>3, <1>7, FS_EmptySet DEF dec_and_test, TypeOK
  <2>6. TypeOK'
    BY <1>1, <1>4, <2>1, Zenon DEF TypeOK
  <2>7. MineShape' /\ ListUnique' /\ HeldAlive' /\ list' \subseteq live'
    BY <1>1, <1>2, <2>1 DEF TypeOK, MineShape, ListUnique, HeldAlive
  <2>8. Private'
    BY <1>1, <1>2, <2>1 DEF Private, TypeOK, MineShape, None, ConstantsAssumption
  <2>9. NoPoolLeaked'
    <3>1. ASSUME NEW q \in live', q \in list'  PROVE Holders(q)' # {}
      BY <1>1, <2>1, <2>2, <2>3, <2>5, <3>1 DEF NoPoolLeaked
    <3>2. ASSUME NEW q \in live', q \notin list'
          PROVE  \E e \in Devices : mine'[e] = q /\ pc'[e] \in {"relookup", "destroying"}
      BY <1>1, <1>2, <2>1, <3>2 DEF NoPoolLeaked, TypeOK
    <3>. QED
      BY <3>1, <3>2 DEF NoPoolLeaked
  <2>. QED
    BY <2>4, <2>6, <2>7, <2>8, <2>9
<1>. QED
  BY <1>6, <1>7

\* The unlisted pool is freed; nobody else knows it.
LEMMA pool_destroy_Ind ==
  ASSUME IndInv, NEW d \in Devices, pool_destroy(d)
  PROVE  IndInv'
<1>. USE DEF IndInv, pool_destroy
<1>1. /\ mine[d] \in live \ list
      /\ \A e \in Devices : mine[e] = mine[d] => e = d
  BY DEF Private
<1>2. \A q \in list : Holders(q)' = Holders(q)
  BY <1>1 DEF Holders, Goto, TypeOK
<1>3. RefsExact'
  BY <1>2, RefsUnchanged
<1>4. TypeOK'
  BY DEF TypeOK, Goto
<1>5. MineShape' /\ ListUnique' /\ HeldAlive' /\ list' \subseteq live'
  BY <1>1 DEF TypeOK, MineShape, ListUnique, HeldAlive, Goto
<1>6. Private'
  BY <1>1 DEF TypeOK, Private, Goto, MineShape, None, ConstantsAssumption
<1>7. NoPoolLeaked'
  BY <1>1, <1>2 DEF TypeOK, NoPoolLeaked, Goto
<1>. QED
  BY <1>3, <1>4, <1>5, <1>6, <1>7

\* The invariant is inductive: it holds in every reachable state.
THEOREM IndInvAlways == Spec => []IndInv
<1>1. IndInv /\ [Next]_vars => IndInv'
  <2>1. ASSUME IndInv, NEW d \in Devices,
               \/ probe_lookup(d)
               \/ \E p \in Pools : probe_allocate(d, p)
               \/ probe_allocate_fails(d)
               \/ probe_relookup(d)
               \/ probe_done(d)
               \/ pool_put(d)
               \/ pool_destroy(d)
        PROVE  IndInv'
    BY <2>1, probe_lookup_Ind, probe_allocate_Ind, probe_allocate_fails_Ind,
       probe_relookup_Ind, probe_done_Ind, pool_put_Ind, pool_destroy_Ind
  <2>2. ASSUME IndInv, UNCHANGED vars  PROVE IndInv'
    BY <2>2 DEF vars, IndInv, TypeOK, MineShape, ListUnique, Private, HeldAlive,
                RefsExact, NoPoolLeaked, Holders
  <2>. QED
    BY <2>1, <2>2 DEF Next
<1>. QED
  BY <1>1, IndInvInit, PTL DEF Spec

\* The reference count of a listed pool is the number of devices that use it,
\* whatever probes and removals run concurrently (axi_mmio_pool_get and _put).
THEOREM RefsExactAlways == Spec => []RefsExact
BY IndInvAlways, PTL DEF IndInv

\* No device ever uses a pool that was freed or that is for another aperture.
THEOREM HeldAliveAlways == Spec => []HeldAlive
BY IndInvAlways, PTL DEF IndInv

\* Devices with the same aperture always share one pool, hence one bitmap.
THEOREM OnePoolPerApertureAlways == Spec => []OnePoolPerAperture
<1>1. IndInv => OnePoolPerAperture
  BY DEF IndInv, OnePoolPerAperture, HeldAlive, ListUnique
<1>. QED
  BY <1>1, IndInvAlways, PTL

\* No pool is leaked by a lost probe race, a failed probe or a removal.
THEOREM NoPoolLeakedAlways == Spec => []NoPoolLeaked
BY IndInvAlways, PTL DEF IndInv
=============================================================================

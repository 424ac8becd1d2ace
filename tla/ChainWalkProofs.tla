--------------------------- MODULE ChainWalkProofs ---------------------------
(***************************************************************************)
(* Proofs about ChainWalk: what TLC checks for some chains and some        *)
(* patterns of failure holds for every table of descriptors, every queue,  *)
(* sector and image size and every width of the counters.                  *)
(*                                                                         *)
(* The reference definitions are recursive functions, so the module begins *)
(* with induction over the natural numbers and with what it gives: how     *)
(* Nth and Before go on, that a chain with an end visits no descriptor     *)
(* twice, that sums grow.  The invariant is built in layers.  ControlInv,  *)
(* StoreInv and WalkInv say where the walk is and that there is room;      *)
(* StatusInv, that as long as the status is good every segment passed was  *)
(* valid, which is why no offset has wrapped; BufferInv, MemInv and        *)
(* ImageInv follow the bytes; DoneInv and TruthInv say what a good status  *)
(* means.                                                                  *)
(***************************************************************************)
EXTENDS ChainWalk, WellFoundedInduction, TLAPS

\* Induction over the natural numbers, for a set.
LEMMA SetInduction ==
  ASSUME NEW S, 0 \in S, \A n \in Nat : n \in S => n + 1 \in S
  PROVE  Nat \subseteq S
<1>. DEFINE T == Nat \ S
<1>. SUFFICES ASSUME T # {} PROVE FALSE
  BY Zenon
<1>1. PICK m \in T : \A y \in T : ~(<<y, m>> \in OpToRel(<, Nat))
  <2>. HIDE DEF T
  <2>1. T \subseteq Nat
    BY Zenon DEF T
  <2>. QED
    BY <2>1, NatLessThanWellFounded, WFMin, Zenon
<1>2. \A y \in Nat : y < m => y \in S
  BY <1>1, Zenon DEF OpToRel
<1>3. m # 0 /\ m \in Nat
  BY Zenon
<1>4. m - 1 \in Nat /\ m - 1 < m
  BY <1>3
<1>5. m - 1 \in S
  BY <1>2, <1>4, Zenon
<1>6. (m - 1) + 1 \in S
  BY <1>4, <1>5, Zenon
<1>7. (m - 1) + 1 = m
  BY <1>3
<1>8. m \notin S
  BY Zenon
<1>. QED
  BY <1>6, <1>7, <1>8, Zenon

\* f starts at a and goes on by the steps of G.
Follows(f, a, G) == f[0] = a /\ \A n \in Nat : f[n + 1] = G[n][f[n]]

\* A first value and steps define a function on the natural numbers.
LEMMA Recursion ==
  ASSUME NEW T, NEW a \in T, NEW G \in [Nat -> [T -> T]]
  PROVE  \E f \in [Nat -> T] : Follows(f, a, G)
<1>. DEFINE Prefix(n) == {g \in [0 .. n -> T] :
                            g[0] = a /\ \A i \in 0 .. n - 1 : g[i + 1] = G[i][g[i]]}
<1>1. \A n \in Nat : Prefix(n) # {}
  <2>. DEFINE S == {n \in Nat : Prefix(n) # {}}
  <2>1. 0 \in S
    <3>1. [i \in 0 .. 0 |-> a] \in Prefix(0)
      OBVIOUS
    <3>. QED
      BY <3>1, Zenon
  <2>2. ASSUME NEW n \in Nat, n \in S PROVE n + 1 \in S
    <3>1. PICK g \in [0 .. n -> T] : g[0] = a /\ \A i \in 0 .. n - 1 : g[i + 1] = G[i][g[i]]
      BY <2>2, Zenon
    <3>. DEFINE h == [i \in 0 .. n + 1 |-> IF i = n + 1 THEN G[n][g[n]] ELSE g[i]]
    <3>2. G[n] \in [T -> T] /\ g[n] \in T
      BY <3>1
    <3>3. h \in [0 .. n + 1 -> T]
      BY <3>1, <3>2
    <3>4. h[0] = a
      BY <3>1
    <3>5. ASSUME NEW i \in 0 .. (n + 1) - 1 PROVE h[i + 1] = G[i][h[i]]
      <4>1. h[i] = g[i]
        OBVIOUS
      <4>2. CASE i = n
        BY <4>1, <4>2
      <4>3. CASE i \in 0 .. n - 1
        <5>1. h[i + 1] = g[i + 1]
          BY <4>3
        <5>. QED
          BY <3>1, <4>1, <4>3, <5>1, Zenon
      <4>. QED
        BY <4>2, <4>3
    <3>6. h \in Prefix(n + 1)
      BY <3>3, <3>4, <3>5, Zenon
    <3>7. n + 1 \in Nat
      OBVIOUS
    <3>. HIDE DEF h, Prefix
    <3>. QED
      BY <3>6, <3>7, Zenon
  <2>3. Nat \subseteq S
    <3>. HIDE DEF S
    <3>. QED
      BY <2>1, <2>2, SetInduction, Zenon
  <2>. QED
    BY <2>3, Zenon
<1>2. \A n \in Nat : \A m, p \in Nat : n <= m /\ n <= p =>
        \A g \in Prefix(m), h \in Prefix(p) : g[n] = h[n]
  <2>. DEFINE S == {n \in Nat : \A m, p \in Nat : n <= m /\ n <= p =>
                      \A g \in Prefix(m), h \in Prefix(p) : g[n] = h[n]}
  <2>1. 0 \in S
    BY Zenon
  <2>2. ASSUME NEW n \in Nat, n \in S PROVE n + 1 \in S
    <3>1. ASSUME NEW m \in Nat, NEW p \in Nat, n + 1 <= m, n + 1 <= p,
                 NEW g \in Prefix(m), NEW h \in Prefix(p)
          PROVE  g[n + 1] = h[n + 1]
      <4>1. g[n] = h[n]
        <5>1. n <= m /\ n <= p
          BY <3>1
        <5>. HIDE DEF Prefix
        <5>. QED
          BY <2>2, <3>1, <5>1
      <4>2. n \in 0 .. m - 1 /\ n \in 0 .. p - 1
        BY <3>1
      <4>. QED
        BY <4>1, <4>2, Zenon
    <3>2. n + 1 \in Nat
      OBVIOUS
    <3>. HIDE DEF Prefix
    <3>. QED
      BY <3>1, <3>2, Zenon
  <2>3. Nat \subseteq S
    <3>. HIDE DEF S
    <3>. QED
      BY <2>1, <2>2, SetInduction, Zenon
  <2>. QED
    BY <2>3, Zenon
<1>. DEFINE c(n) == CHOOSE g \in Prefix(n) : TRUE
            f == [n \in Nat |-> c(n)[n]]
<1>3. ASSUME NEW n \in Nat PROVE c(n) \in Prefix(n)
  <2>. HIDE DEF Prefix
  <2>. QED
    BY <1>1, Zenon
<1>4. ASSUME NEW n \in Nat PROVE c(n) \in [0 .. n -> T] /\ c(n)[0] = a
  <2>. HIDE DEF c
  <2>. QED
    BY <1>3, Zenon
<1>5. f \in [Nat -> T] /\ f[0] = a
  <2>. HIDE DEF c
  <2>. QED
    BY <1>4
<1>6. ASSUME NEW n \in Nat PROVE f[n + 1] = G[n][f[n]]
  <2>. HIDE DEF c
  <2>1. c(n + 1)[n] = c(n)[n]
    <3>. HIDE DEF Prefix
    <3>. QED
      BY <1>2, <1>3
  <2>2. c(n + 1)[n + 1] = G[n][c(n + 1)[n]]
    <3>1. c(n + 1) \in Prefix(n + 1)
      BY <1>3
    <3>2. n \in 0 .. (n + 1) - 1
      OBVIOUS
    <3>. QED
      BY <3>1, <3>2, Zenon
  <2>. QED
    BY <2>1, <2>2
<1>. HIDE DEF f
<1>. QED
  BY <1>5, <1>6, Zenon DEF Follows

\* A descriptor's fields have values the code can give them.
LEMMA DescFacts ==
  ASSUME NEW r \in Requests, NEW d \in Descs
  PROVE  /\ r.table[d].len \in Nat
         /\ r.table[d].write \in BOOLEAN
         /\ r.table[d].next \in Descs \cup {End}
<1>1. r.table[d] \in Descriptors
  BY ChainAssumption, Zenon DEF ChainAssumption
<1>. QED
  BY <1>1, Zenon DEF Descriptors

\* The head of a chain is a descriptor.
LEMMA Zero == 0 \in Descs /\ 0 # End /\ End \notin Descs
BY ChainAssumption, Zenon DEF ChainAssumption

\* The chain from one descriptor to the next.
LEMMA ChainFacts ==
  ASSUME NEW r \in Requests
  PROVE  /\ Nth(r, 0) = 0
         /\ \A k \in Nat : Nth(r, k) \in Descs \cup {End}
         /\ \A k \in Nat : Nth(r, k + 1) = IF Nth(r, k) = End THEN End
                                           ELSE r.table[Nth(r, k)].next
<1>. DEFINE T == Descs \cup {End}
            step == [d \in T |-> IF d = End THEN End ELSE r.table[d].next]
            nth == CHOOSE f : f = [i \in Nat |->
                     IF i = 0 THEN 0
                     ELSE LET d == f[i - 1] IN IF d = End THEN End ELSE r.table[d].next]
<1>1. step \in [T -> T] /\ 0 \in T
  BY DescFacts, Zero, Zenon
<1>2. \E f : f = [i \in Nat |->
                    IF i = 0 THEN 0
                    ELSE LET d == f[i - 1] IN IF d = End THEN End ELSE r.table[d].next]
  <2>. DEFINE G == [n \in Nat |-> step]
  <2>1. G \in [Nat -> [T -> T]]
    BY <1>1, Zenon
  <2>2. PICK f \in [Nat -> T] : Follows(f, 0, G)
    <3>. HIDE DEF G, T, step
    <3>. QED
      BY <1>1, <2>1, Recursion, Zenon
  <2>3. ASSUME NEW i \in Nat, i # 0
        PROVE  f[i] = IF f[i - 1] = End THEN End ELSE r.table[f[i - 1]].next
    <3>1. i - 1 \in Nat /\ (i - 1) + 1 = i
      BY <2>3
    <3>2. f[i] = step[f[i - 1]] /\ f[i - 1] \in T
      BY <2>2, <3>1, Zenon DEF Follows
    <3>. QED
      BY <3>2, Zenon
  <2>4. f = [i \in Nat |->
               IF i = 0 THEN 0
               ELSE LET d == f[i - 1] IN IF d = End THEN End ELSE r.table[d].next]
    BY <2>2, <2>3, Zenon DEF Follows
  <2>. QED
    BY <2>4, Zenon
<1>3. nth = [i \in Nat |->
               IF i = 0 THEN 0
               ELSE LET d == nth[i - 1] IN IF d = End THEN End ELSE r.table[d].next]
  BY <1>2, Zenon
<1>4. \A k : Nth(r, k) = nth[k]
  BY Zenon DEF Nth
<1>. HIDE DEF nth
<1>5. nth[0] = 0
  BY <1>3, Zenon
<1>6. ASSUME NEW k \in Nat
      PROVE  nth[k + 1] = IF nth[k] = End THEN End ELSE r.table[nth[k]].next
  <2>1. k + 1 \in Nat /\ k + 1 # 0 /\ (k + 1) - 1 = k
    OBVIOUS
  <2>. QED
    BY <1>3, <2>1, Zenon
<1>7. \A k \in Nat : nth[k] \in T
  <2>. DEFINE S == {k \in Nat : nth[k] \in T}
  <2>1. 0 \in S
    BY <1>1, <1>5, Zenon
  <2>2. \A k \in Nat : k \in S => k + 1 \in S
    BY <1>6, DescFacts
  <2>3. Nat \subseteq S
    <3>. HIDE DEF S
    <3>. QED
      BY <2>1, <2>2, SetInduction, Zenon
  <2>. QED
    BY <2>3, Zenon
<1>. QED
  BY <1>4, <1>5, <1>6, <1>7, Zenon

\* Whether a descriptor is a segment, and its length.
LEMMA SegmentFacts ==
  ASSUME NEW r \in Requests, NEW k \in Nat
  PROVE  /\ SegmentLen(r, k) \in Nat
         /\ k \in Segments(r) <=> IsSegment(r, k)
         /\ IsSegment(r, k) =>
              /\ k \in 0 .. QueueNum /\ Nth(r, k) \in Descs
              /\ SegmentLen(r, k) = r.table[Nth(r, k)].len
<1>1. IsSegment(r, k) => Nth(r, k) \in Descs
  BY ChainFacts, Zenon DEF IsSegment
<1>2. IsSegment(r, k) => k \in 0 .. QueueNum
  BY Zenon DEF IsSegment
<1>. QED
  BY <1>1, <1>2, DescFacts, Zenon DEF SegmentLen, Segments

\* The sum from one descriptor to the next.
LEMMA SumFacts ==
  ASSUME NEW r \in Requests
  PROVE  /\ Before(r, 0) = 0
         /\ \A k \in Nat : Before(r, k) \in Nat
         /\ \A k \in Nat : Before(r, k + 1) = Before(r, k) + SegmentLen(r, k)
<1>. DEFINE sum == CHOOSE f : f = [i \in Nat |->
                     IF i = 0 THEN 0 ELSE f[i - 1] + SegmentLen(r, i - 1)]
<1>1. \A k \in Nat : SegmentLen(r, k) \in Nat
  BY SegmentFacts, Zenon
<1>2. \E f : f = [i \in Nat |-> IF i = 0 THEN 0 ELSE f[i - 1] + SegmentLen(r, i - 1)]
  <2>. DEFINE G == [n \in Nat |-> [s \in Nat |-> s + SegmentLen(r, n)]]
  <2>1. G \in [Nat -> [Nat -> Nat]]
    BY <1>1
  <2>2. PICK f \in [Nat -> Nat] : Follows(f, 0, G)
    <3>1. 0 \in Nat
      BY Zenon
    <3>. HIDE DEF G
    <3>. QED
      BY <2>1, <3>1, Recursion, Zenon
  <2>3. ASSUME NEW i \in Nat, i # 0 PROVE f[i] = f[i - 1] + SegmentLen(r, i - 1)
    <3>1. i - 1 \in Nat /\ (i - 1) + 1 = i
      BY <2>3
    <3>2. f[i] = G[i - 1][f[i - 1]] /\ f[i - 1] \in Nat
      BY <2>2, <3>1, Zenon DEF Follows
    <3>. QED
      BY <3>1, <3>2, Zenon
  <2>4. f = [i \in Nat |-> IF i = 0 THEN 0 ELSE f[i - 1] + SegmentLen(r, i - 1)]
    BY <2>2, <2>3, Zenon DEF Follows
  <2>. QED
    BY <2>4, Zenon
<1>3. sum = [i \in Nat |-> IF i = 0 THEN 0 ELSE sum[i - 1] + SegmentLen(r, i - 1)]
  BY <1>2, Zenon
<1>4. \A k : Before(r, k) = sum[k]
  BY Zenon DEF Before
<1>. HIDE DEF sum
<1>5. sum[0] = 0
  BY <1>3, Zenon
<1>6. ASSUME NEW k \in Nat PROVE sum[k + 1] = sum[k] + SegmentLen(r, k)
  <2>1. k + 1 \in Nat /\ k + 1 # 0 /\ (k + 1) - 1 = k
    OBVIOUS
  <2>. QED
    BY <1>3, <2>1, Zenon
<1>7. \A k \in Nat : sum[k] \in Nat
  <2>. DEFINE S == {k \in Nat : sum[k] \in Nat}
  <2>1. 0 \in S
    BY <1>5
  <2>2. \A k \in Nat : k \in S => k + 1 \in S
    BY <1>1, <1>6
  <2>3. Nat \subseteq S
    <3>. HIDE DEF S
    <3>. QED
      BY <2>1, <2>2, SetInduction, Zenon
  <2>. QED
    BY <2>3, Zenon
<1>. QED
  BY <1>4, <1>5, <1>6, <1>7, Zenon

\* Past its end a chain has no descriptors.
LEMMA EndStays ==
  ASSUME NEW r \in Requests, NEW k \in Nat, NEW j \in Nat, k <= j, Nth(r, k) = End
  PROVE  Nth(r, j) = End
<1>. DEFINE S == {i \in Nat : Nth(r, k + i) = End}
<1>1. 0 \in S
  <2>1. k + 0 = k
    OBVIOUS
  <2>. QED
    BY <2>1, Zenon
<1>2. ASSUME NEW i \in Nat, i \in S PROVE i + 1 \in S
  <2>1. k + i \in Nat /\ k + (i + 1) = (k + i) + 1 /\ i + 1 \in Nat
    OBVIOUS
  <2>. QED
    BY <1>2, <2>1, ChainFacts, Zenon
<1>3. Nat \subseteq S
  <2>. HIDE DEF S
  <2>. QED
    BY <1>1, <1>2, SetInduction, Zenon
<1>4. j - k \in Nat /\ k + (j - k) = j
  OBVIOUS
<1>. QED
  BY <1>3, <1>4

\* The sums do not decrease.
LEMMA SumGrows ==
  ASSUME NEW r \in Requests, NEW k \in Nat, NEW j \in Nat, k <= j
  PROVE  Before(r, k) <= Before(r, j)
<1>. DEFINE S == {i \in Nat : Before(r, k) <= Before(r, k + i)}
<1>1. 0 \in S
  <2>1. k + 0 = k
    OBVIOUS
  <2>. QED
    BY <2>1, SumFacts
<1>2. ASSUME NEW i \in Nat, i \in S PROVE i + 1 \in S
  <2>1. k + i \in Nat /\ k + (i + 1) = (k + i) + 1 /\ i + 1 \in Nat
    OBVIOUS
  <2>2. /\ Before(r, k) \in Nat /\ Before(r, k + i) \in Nat
        /\ Before(r, (k + i) + 1) = Before(r, k + i) + SegmentLen(r, k + i)
        /\ SegmentLen(r, k + i) \in Nat
    BY <2>1, SumFacts, SegmentFacts, Zenon
  <2>3. Before(r, k) <= Before(r, (k + i) + 1)
    BY <1>2, <2>2
  <2>. QED
    BY <2>1, <2>3, Zenon
<1>3. Nat \subseteq S
  <2>. HIDE DEF S
  <2>. QED
    BY <1>1, <1>2, SetInduction, Zenon
<1>4. j - k \in Nat /\ k + (j - k) = j
  OBVIOUS
<1>. QED
  BY <1>3, <1>4, Zenon

\* After the last segment the sum is the total.
LEMMA SumEnds ==
  ASSUME NEW r \in Requests, NEW k \in 0 .. QueueNum + 1,
         \A j \in Nat : k <= j => ~IsSegment(r, j)
  PROVE  Before(r, k) = Total(r)
<1>. DEFINE S == {i \in Nat : Before(r, k + i) = Before(r, k)}
<1>0. k \in Nat /\ QueueNum \in Nat
  BY ChainAssumption DEF ChainAssumption
<1>1. 0 \in S
  <2>1. k + 0 = k
    BY <1>0
  <2>. QED
    BY <2>1, Zenon
<1>2. ASSUME NEW i \in Nat, i \in S PROVE i + 1 \in S
  <2>1. k + i \in Nat /\ k + (i + 1) = (k + i) + 1 /\ i + 1 \in Nat /\ k <= k + i
    BY <1>0
  <2>2. SegmentLen(r, k + i) = 0
    BY <2>1, Zenon DEF SegmentLen
  <2>3. Before(r, (k + i) + 1) = Before(r, k + i) + 0 /\ Before(r, k + i) \in Nat
    BY <2>1, <2>2, SumFacts, Zenon
  <2>4. Before(r, (k + i) + 1) = Before(r, k)
    BY <1>2, <2>3
  <2>. QED
    BY <2>1, <2>4, Zenon
<1>3. Nat \subseteq S
  <2>. HIDE DEF S
  <2>. QED
    BY <1>1, <1>2, SetInduction, Zenon
<1>4. (QueueNum + 1) - k \in Nat /\ k + ((QueueNum + 1) - k) = QueueNum + 1
  BY <1>0
<1>5. Before(r, k + ((QueueNum + 1) - k)) = Before(r, k)
  BY <1>3, <1>4, Zenon
<1>. QED
  BY <1>4, <1>5, Zenon DEF Total

\* Past the last descriptor of a chain there are no more bytes to come.
LEMMA BlkEnds ==
  ASSUME NEW r \in Requests, r.dev = "blk", NEW k \in 0 .. QueueNum + 1, Nth(r, k + 1) = End
  PROVE  Before(r, k) = Total(r)
<1>1. ASSUME NEW j \in Nat, k <= j PROVE ~IsSegment(r, j)
  <2>1. k + 1 \in Nat /\ j + 1 \in Nat /\ k + 1 <= j + 1
    BY <1>1
  <2>2. Nth(r, j + 1) = End
    BY <2>1, EndStays, Zenon
  <2>. QED
    BY <2>2, Zenon DEF IsSegment
<1>. QED
  BY <1>1, SumEnds, Zenon

\* The same for a console chain.
LEMMA TxEnds ==
  ASSUME NEW r \in Requests, r.dev = "console", NEW k \in 0 .. QueueNum + 1, Nth(r, k) = End
  PROVE  Before(r, k) = Total(r)
<1>1. ASSUME NEW j \in Nat, k <= j PROVE ~IsSegment(r, j)
  <2>1. k \in Nat
    OBVIOUS
  <2>2. Nth(r, j) = End
    BY <1>1, <2>1, EndStays, Zenon
  <2>. QED
    BY <2>2, Zenon DEF IsSegment
<1>. QED
  BY <1>1, SumEnds, Zenon

\* A chain that ends meets no descriptor twice.
LEMMA ChainInjective ==
  ASSUME NEW r \in Requests, Ends(r), NEW a \in Nat, NEW b \in Nat, a < b,
         Nth(r, b) # End
  PROVE  Nth(r, a) # Nth(r, b)
<1>. SUFFICES ASSUME Nth(r, a) = Nth(r, b) PROVE FALSE
  BY Zenon
<1>1. \A i \in Nat : Nth(r, a + i) = Nth(r, b + i)
  <2>. DEFINE S == {i \in Nat : Nth(r, a + i) = Nth(r, b + i)}
  <2>1. 0 \in S
    <3>1. a + 0 = a /\ b + 0 = b
      OBVIOUS
    <3>. QED
      BY <3>1, Zenon
  <2>2. ASSUME NEW i \in Nat, i \in S PROVE i + 1 \in S
    <3>1. /\ a + i \in Nat /\ a + (i + 1) = (a + i) + 1
          /\ b + i \in Nat /\ b + (i + 1) = (b + i) + 1 /\ i + 1 \in Nat
      OBVIOUS
    <3>2. Nth(r, (a + i) + 1) = Nth(r, (b + i) + 1)
      BY <2>2, <3>1, ChainFacts
    <3>. QED
      BY <3>1, <3>2, Zenon
  <2>3. Nat \subseteq S
    <3>. HIDE DEF S
    <3>. QED
      BY <2>1, <2>2, SetInduction, Zenon
  <2>. QED
    BY <2>3, Zenon
<1>2. \A m \in Nat : Nth(r, m) # End
  <2>. DEFINE S == {m \in Nat : \A j \in 0 .. m : Nth(r, j) # End}
  <2>1. ASSUME NEW j \in Nat, j <= b PROVE Nth(r, j) # End
    BY <2>1, EndStays, Zenon
  <2>2. 0 \in S
    BY <2>1
  <2>3. ASSUME NEW m \in Nat, m \in S PROVE m + 1 \in S
    <3>1. Nth(r, m + 1) # End
      <4>1. CASE m + 1 <= b
        BY <2>1, <4>1
      <4>2. CASE m + 1 > b
        <5>1. /\ (m + 1) - b \in Nat /\ b + ((m + 1) - b) = m + 1
              /\ a + ((m + 1) - b) \in 0 .. m
          BY <4>2
        <5>2. Nth(r, a + ((m + 1) - b)) = Nth(r, m + 1)
          BY <1>1, <5>1, Zenon
        <5>. QED
          BY <2>3, <5>1, <5>2, Zenon
      <4>. QED
        BY <4>1, <4>2
    <3>2. \A j \in 0 .. m + 1 : j = m + 1 \/ j \in 0 .. m
      OBVIOUS
    <3>3. m + 1 \in Nat
      OBVIOUS
    <3>. QED
      BY <2>3, <3>1, <3>2, <3>3, Zenon
  <2>4. Nat \subseteq S
    <3>. HIDE DEF S
    <3>. QED
      BY <2>2, <2>3, SetInduction, Zenon
  <2>. QED
    BY <2>4
<1>3. QueueNum + 1 \in Nat
  BY ChainAssumption DEF ChainAssumption
<1>. QED
  BY <1>2, <1>3, Zenon DEF Ends

\* What a byte can be.
Bytes ==
  {Stale} \cup {MemByte(d, k) : d \in Descs, k \in Nat} \cup {ImageByte(i) : i \in Nat}

\* Where process_chain can be: in a segment, past the last one, anywhere in the walk.
SegmentPcs == {"buffer", "block", "dma_read", "pread", "dma_write", "pwrite"}
EndPcs == {"answer", "flushed", "done"}
WalkPcs == {"walk"} \cup SegmentPcs \cup EndPcs
\* Where process_tx_chain can be before it returns.
TxPcs == {"tx", "tx_read", "tx_write"}

\* Buffers and files keep their sizes.
ContentInv ==
  /\ mem \in [Descs -> Seq(Bytes)] /\ image \in [0 .. ImageLen - 1 -> Bytes]
  /\ io_buf \in Seq(Bytes) /\ output \in Seq(Bytes)
  /\ \A d \in Descs : Len(mem[d]) = req.table[d].len

\* Which variables mean what at each place of the two functions.
ControlInv ==
  /\ req \in Requests
  /\ index \in Descs /\ chain_seen \in Nat /\ data_len \in Nat /\ pos \in Nat
  /\ dma_data \in BOOLEAN /\ faulty \in BOOLEAN
  /\ req.dev = "blk" => pc \in {"header", "walk", "aborted"} \cup SegmentPcs \cup EndPcs
  /\ req.dev = "console" => pc \in {"done", "aborted"} \cup TxPcs
  /\ pc \in {"dma_read", "pwrite"} => req.type = "OUT"
  /\ pc \in {"pread", "dma_write"} => req.type = "IN"
  /\ pc = "flushed" => req.type = "FLUSH"
  /\ dma_data => req.type = "IN"
  /\ pc \in {"buffer", "dma_read", "dma_write"} => ~dma_data
  /\ pc \in {"header", "walk", "buffer", "block", "dma_read", "tx", "tx_read"} => pos = 0
  /\ pc \in {"pread", "pwrite", "tx_write"} => pos <= desc.len
  /\ pc \in SegmentPcs => /\ desc.next # End /\ status = "OK"
                          /\ req.type \in {"IN", "OUT"} /\ ~WrongDirection
  /\ pc \in EndPcs => desc.next = End
  /\ pc \in {"tx_read", "tx_write"} => Transmits

\* The walk is at descriptor k, and data_len counts the segments before it.
Position(k) ==
  /\ index = Nth(req, k)
  /\ req.type \in {"IN", "OUT"} => data_len = Before(req, k) % LenMod

\* The number of the descriptor the walk is at: at the top of the loop, the next one.
Current == IF pc = "walk" THEN chain_seen + 1 ELSE chain_seen

\* chain_seen numbers the descriptors of the chain.
WalkInv ==
  req.dev = "blk" =>
    /\ pc = "header" => index = 0 /\ chain_seen = 0 /\ data_len = 0
    /\ pc = "walk" => chain_seen \in 0 .. QueueNum
    /\ pc \in SegmentPcs \cup EndPcs => chain_seen \in 1 .. QueueNum
    /\ pc \in WalkPcs => Position(Current)
    /\ pc = "done" => used_len = UsedLen

\* TransferInBounds, and what the steps before a transfer contribute to it.
RoomInv ==
  /\ TransferInBounds
  /\ pc = "block" /\ ~dma_data => desc.len <= Len(io_buf)
  /\ pc = "dma_write" => At + desc.len <= ImageLen
  /\ pc = "tx_write" => io_buf = mem[index]

\* What the status says of the segments passed so far: a good one, that each was valid;
\* a bad one, that something failed or that the request does not deserve better.
StatusInv ==
  req.dev = "blk" /\ Countable(req) /\ pc \in WalkPcs =>
    /\ req.type = "OTHER" => status = "UNSUPP"
    /\ req.type # "OTHER" =>
         /\ status \in {"OK", "IOERR"}
         /\ status = "OK" => Start(req) < OffMod
         /\ status = "OK" /\ req.type # "FLUSH" =>
              \A k \in Segments(req) : k < Current => Valid(req, k)
         /\ status = "IOERR" => faulty \/ Verdict(req) = "IOERR"
    /\ pc \in {"pread", "dma_write", "pwrite"} => Valid(req, chain_seen)

\* Only a read request changes guest memory, and only a write request the image.
KeptInv ==
  /\ ~(req.dev = "blk" /\ req.type = "IN") =>
       \A d \in Descs : \A j \in 1 .. req.table[d].len : mem[d][j] = MemByte(d, j)
  /\ ~(req.dev = "blk" /\ req.type = "OUT") =>
       \A i \in 0 .. ImageLen - 1 : image[i] = ImageByte(i)

\* What the buffers hold while a segment is under way, and how far it has been
\* transferred.
BufferInv ==
  /\ pc = "pread" => \A j \in 1 .. pos :
       (IF dma_data THEN mem[index] ELSE io_buf)[j] = ImageByte(At + j - 1)
  /\ pc = "dma_write" => \A j \in 1 .. desc.len : io_buf[j] = ImageByte(At + j - 1)
  /\ req.type = "OUT" /\ pc \in {"block", "pwrite"} =>
       \A j \in 1 .. desc.len : io_buf[j] = MemByte(index, j)
  /\ pc = "pwrite" => \A j \in 1 .. pos : image[At + j - 1] = MemByte(index, j)

\* While the status is good, every segment passed has been transferred.
DoneInv ==
  (/\ req.dev = "blk" /\ Countable(req) /\ Ends(req) /\ status = "OK"
   /\ req.type \in {"IN", "OUT"} /\ pc \in WalkPcs) =>
    \A k \in Segments(req) : k < Current => SegmentDone(k)

\* The status byte is written last.
AnswerInv == pc \notin {"done", "aborted"} => answer = None

\* The console is at descriptor k and has written all that comes before it.
Sent(k) ==
  /\ index = Nth(req, k)
  /\ data_len = Before(req, k) % LenMod
  /\ Len(output) = Before(req, k) + pos

\* The console's part of DataInPlace.
OutputInv ==
  \A i \in 1 .. Len(output) :
    \E k \in Segments(req) : \E j \in 1 .. SegmentLen(req, k) :
      i = Before(req, k) + j /\ output[i] = MemByte(Nth(req, k), j)

\* A console chain with an end is sent in order, and in full when it is completed.
TxInv ==
  (req.dev = "console" /\ Ends(req)) =>
    /\ pc \in TxPcs => \E k \in 0 .. QueueNum : Sent(k)
    /\ pc = "done" => Len(output) = Total(req) /\ used_len = Total(req) % LenMod
    /\ OutputInv

\* The constants that count something.
LEMMA Numbers ==
  /\ QueueNum \in Nat \ {0} /\ SectorSize \in Nat \ {0} /\ ImageLen \in Nat \ {0}
  /\ OffMod \in Nat \ {0} /\ LenMod \in Nat \ {0} /\ ImageLen < OffMod
BY ChainAssumption, Zenon DEF ChainAssumption

\* The fields of a request.
LEMMA RequestFacts ==
  ASSUME NEW r \in Requests
  PROVE  /\ r.dev \in {"blk", "console"} /\ r.type \in {"IN", "OUT", "FLUSH", "OTHER"}
         /\ r.sector \in 0 .. OffMod - 1
         /\ r.direct \in BOOLEAN /\ r.readonly \in BOOLEAN /\ r.io_buf_size \in Nat
BY ChainAssumption, Zenon DEF ChainAssumption

\* The descriptor under way.
LEMMA DescNow ==
  ASSUME ControlInv
  PROVE  desc.len \in Nat /\ desc.write \in BOOLEAN /\ desc.next \in Descs \cup {End}
BY DescFacts, Zenon DEF desc, ControlInv

\* A length taken modulo the width of its counter.
LEMMA LenType == ASSUME NEW a \in Nat, NEW b \in Nat PROVE (a + b) % LenMod \in Nat
BY Numbers

\* The control invariant holds at first.
LEMMA ControlInit == ASSUME Init PROVE ControlInv
<1>1. req \in Requests /\ index = 0 /\ chain_seen = 0 /\ data_len = 0 /\ pos = 0
  BY Zenon DEF Init
<1>2. pc = IF req.dev = "blk" THEN "header" ELSE "tx"
  BY Zenon DEF Init
<1>3. dma_data = FALSE /\ faulty = FALSE
  BY Zenon DEF Init
<1>. QED
  BY <1>1, <1>2, <1>3, Zero, Zenon DEF ControlInv, SegmentPcs, EndPcs, TxPcs

\* The end of a segment.
LEMMA ControlEndSegment ==
  ASSUME ControlInv, NEW s, EndSegment(s), req' = req, req.dev = "blk", desc.next # End,
         chain_seen' \in Nat, dma_data' = dma_data, faulty' \in BOOLEAN
  PROVE  ControlInv'
<1>1. index' \in Descs /\ pos' = 0 /\ pc' = "walk"
  BY DescNow, Zenon DEF EndSegment
<1>2. data_len' \in Nat
  BY DescNow, LenType, Zenon DEF EndSegment, ControlInv, Advance
<1>3. req' \in Requests /\ dma_data' \in BOOLEAN /\ (dma_data' => req'.type = "IN")
  BY Zenon DEF ControlInv
<1>4. 0 \in Nat
  BY Zenon
<1>. QED
  BY <1>1, <1>2, <1>3, <1>4, Zenon DEF ControlInv, SegmentPcs, EndPcs, TxPcs

\* A request given up or carried out.
LEMMA ControlReturn ==
  ASSUME ControlInv, UNCHANGED <<req, index, pos, dma_data>>, data_len' \in Nat,
         chain_seen' \in Nat, faulty' \in BOOLEAN,
         pc' = "aborted" \/ (pc' = "done" /\ desc.next = End)
  PROVE  ControlInv'
BY Zenon DEF ControlInv, SegmentPcs, EndPcs, TxPcs, desc

\* The history of failures stays a Boolean.
LEMMA FaultyType ==
  ASSUME ControlInv, DmaOk \/ DmaFails \/ HostOk \/ HostFails PROVE faulty' \in BOOLEAN
BY Zenon DEF ControlInv, DmaOk, DmaFails, HostOk, HostFails

\* ControlInv and each action: the header.
LEMMA ControlHeader == ASSUME ControlInv, read_request_header PROVE ControlInv'
<1>1. faulty' \in BOOLEAN
  BY FaultyType, Zenon DEF read_request_header
<1>2. CASE pc' = "walk"
  <2>1. /\ index' = desc.next /\ desc.next # End /\ pos' = pos /\ pos = 0 /\ req' = req
        /\ data_len' = data_len /\ chain_seen' = chain_seen /\ dma_data' = dma_data
        /\ req.dev = "blk"
    BY <1>2, RequestFacts, Zenon DEF read_request_header, Return, ControlInv, TxPcs
  <2>2. index' \in Descs
    BY <2>1, DescNow, Zenon
  <2>. QED
    BY <1>1, <1>2, <2>1, <2>2, Zenon DEF ControlInv, SegmentPcs, EndPcs, TxPcs
<1>3. CASE pc' = "aborted"
  <2>1. UNCHANGED <<req, index, pos, dma_data, data_len, chain_seen>>
    BY <1>3, Zenon DEF read_request_header
  <2>. QED
    BY <1>1, <1>3, <2>1, ControlReturn, Zenon DEF ControlInv
<1>. QED
  BY <1>2, <1>3, Zenon DEF read_request_header, Return

\* The next descriptor.
LEMMA ControlNext == ASSUME ControlInv, read_next_desc PROVE ControlInv'
<1>1. faulty' \in BOOLEAN
  BY FaultyType, Zenon DEF read_next_desc
<1>2. chain_seen' \in Nat
  BY DEF read_next_desc, Seen, ControlInv
<1>3. req' = req /\ req.dev = "blk" /\ pos = 0 /\ pc = "walk"
  BY RequestFacts, Zenon DEF read_next_desc, ControlInv, TxPcs
<1>4. CASE pc' = "aborted" /\ UNCHANGED <<place, dma_data>>
  BY <1>1, <1>2, <1>3, <1>4, ControlReturn, Zenon DEF place, ControlInv
<1>5. CASE desc.next = End /\ pc' = "answer" /\ UNCHANGED <<place, dma_data>>
  BY <1>1, <1>2, <1>3, <1>5, Zenon DEF ControlInv, place, SegmentPcs, EndPcs, TxPcs, desc
<1>6. CASE desc.next # End /\ EndSegment(SkipStatus) /\ UNCHANGED dma_data
  BY <1>1, <1>2, <1>3, <1>6, ControlEndSegment, Zenon
<1>7. CASE /\ desc.next # End /\ ~Skipped /\ UNCHANGED place
           /\ dma_data' \in {FALSE, req.type = "IN" /\ req.direct}
           /\ pc' = IF dma_data' THEN "block" ELSE "buffer"
  <2>1. req.type \in {"IN", "OUT"} /\ ~WrongDirection /\ status = "OK"
    BY <1>7, Zenon DEF Skipped
  <2>2. dma_data' \in BOOLEAN /\ (dma_data' => req.type = "IN")
    BY <1>7, RequestFacts, Zenon DEF ControlInv
  <2>3. /\ desc' = desc /\ WrongDirection' = WrongDirection /\ status' = status
        /\ index' = index /\ pos' = pos /\ data_len' = data_len
    BY <1>3, <1>7, Zenon DEF place, desc, WrongDirection
  <2>. QED
    BY <1>1, <1>2, <1>3, <1>7, <2>1, <2>2, <2>3, Zenon
    DEF ControlInv, SegmentPcs, EndPcs, TxPcs
<1>. QED
  BY <1>4, <1>5, <1>6, <1>7, Zenon DEF read_next_desc, Return

\* The growth of the buffer.
LEMMA ControlBuffer == ASSUME ControlInv, ensure_io_buf PROVE ControlInv'
<1>1. faulty' \in BOOLEAN
  BY FaultyType, Zenon DEF ensure_io_buf
<1>2. /\ req' = req /\ req.dev = "blk" /\ pc = "buffer" /\ desc.next # End
      /\ chain_seen' = chain_seen /\ dma_data' = dma_data /\ chain_seen \in Nat
  BY RequestFacts, Zenon DEF ensure_io_buf, ControlInv, TxPcs, SegmentPcs
<1>3. CASE pc' = (IF req.type = "IN" THEN "block" ELSE "dma_read") /\ UNCHANGED place
  <2>1. /\ desc' = desc /\ WrongDirection' = WrongDirection /\ status' = status
        /\ index' = index /\ pos' = pos /\ data_len' = data_len
    BY <1>2, <1>3, Zenon DEF place, desc, WrongDirection
  <2>. QED
    BY <1>1, <1>2, <1>3, <2>1, Zenon DEF ControlInv, SegmentPcs, EndPcs, TxPcs
<1>4. CASE EndSegment("IOERR")
  BY <1>1, <1>2, <1>4, ControlEndSegment, Zenon
<1>5. CASE Return(FALSE) /\ UNCHANGED place
  BY <1>1, <1>2, <1>5, ControlReturn, Zenon DEF Return, place, ControlInv
<1>. QED
  BY <1>3, <1>4, <1>5, Zenon DEF ensure_io_buf

\* The DMA of a segment that is to be written.
LEMMA ControlDmaRead == ASSUME ControlInv, dma_read_segment PROVE ControlInv'
<1>1. faulty' \in BOOLEAN
  BY FaultyType, Zenon DEF dma_read_segment
<1>2. /\ req' = req /\ req.dev = "blk" /\ pc = "dma_read" /\ UNCHANGED place
      /\ chain_seen' = chain_seen /\ dma_data' = dma_data /\ chain_seen \in Nat
  BY RequestFacts, Zenon DEF dma_read_segment, ControlInv, TxPcs
<1>3. CASE pc' = "block"
  <2>1. /\ desc' = desc /\ WrongDirection' = WrongDirection /\ status' = status
        /\ index' = index /\ pos' = pos /\ data_len' = data_len
    BY <1>2, Zenon DEF place, desc, WrongDirection
  <2>. QED
    BY <1>1, <1>2, <1>3, <2>1, Zenon DEF ControlInv, SegmentPcs, EndPcs, TxPcs
<1>4. CASE pc' = "aborted"
  BY <1>1, <1>2, <1>4, ControlReturn, Zenon DEF place, ControlInv
<1>. QED
  BY <1>3, <1>4, Zenon DEF dma_read_segment, Return

\* The backend's checks.
LEMMA ControlCheck == ASSUME ControlInv, block_check PROVE ControlInv'
<1>1. /\ req' = req /\ req.dev = "blk" /\ pc = "block" /\ desc.next # End
      /\ chain_seen' = chain_seen /\ dma_data' = dma_data /\ chain_seen \in Nat
      /\ faulty' \in BOOLEAN
  BY RequestFacts, Zenon DEF block_check, ControlInv, TxPcs, SegmentPcs
<1>2. CASE pc' = (IF req.type = "IN" THEN "pread" ELSE "pwrite") /\ UNCHANGED place
  <2>1. /\ desc' = desc /\ WrongDirection' = WrongDirection /\ status' = status
        /\ index' = index /\ pos' = pos /\ data_len' = data_len
    BY <1>1, <1>2, Zenon DEF place, desc, WrongDirection
  <2>2. pos = 0 /\ 0 <= desc.len /\ pos <= desc.len
    BY <1>1, DescNow DEF ControlInv
  <2>. QED
    BY <1>1, <1>2, <2>1, <2>2, Zenon DEF ControlInv, SegmentPcs, EndPcs, TxPcs
<1>3. CASE EndSegment("IOERR")
  BY <1>1, <1>3, ControlEndSegment, Zenon
<1>. QED
  BY <1>2, <1>3, Zenon DEF block_check

\* The place in a segment after a transfer.
LEMMA ControlTransferred ==
  ASSUME ControlInv, NEW n \in 1 .. desc.len - pos, pos' = Transferred(n),
         UNCHANGED <<req, pc, index, status, data_len, chain_seen, dma_data>>,
         faulty' \in BOOLEAN, pc \in {"pread", "pwrite", "tx_write"}
  PROVE  ControlInv'
<1>1. desc' = desc /\ WrongDirection' = WrongDirection /\ Transmits' = Transmits
  BY Zenon DEF desc, WrongDirection, Transmits
<1>2. pos' \in Nat /\ pos' <= desc.len
  BY DescNow DEF Transferred, ControlInv
<1>. QED
  BY <1>1, <1>2, Zenon DEF ControlInv, SegmentPcs, EndPcs, TxPcs

\* The transfers to and from the image.
LEMMA ControlTransfers == ASSUME ControlInv, pread \/ pwrite PROVE ControlInv'
<1>1. faulty' \in BOOLEAN
  BY FaultyType, Zenon DEF pread, pwrite
<1>2. /\ req' = req /\ req.dev = "blk" /\ pc \in {"pread", "pwrite"} /\ desc.next # End
      /\ chain_seen' = chain_seen /\ dma_data' = dma_data /\ chain_seen \in Nat
  BY RequestFacts, Zenon DEF pread, pwrite, ControlInv, TxPcs, SegmentPcs
<1>3. CASE EndSegment("IOERR")
  BY <1>1, <1>2, <1>3, ControlEndSegment, Zenon
<1>4. CASE /\ UNCHANGED <<pc, index, status, data_len>>
           /\ \E n \in 1 .. desc.len - pos : pos' = Transferred(n)
  BY <1>1, <1>2, <1>4, ControlTransferred, Zenon
<1>. QED
  BY <1>3, <1>4, Zenon DEF pread, pwrite

\* The ends of a segment.
LEMMA ControlDone ==
  ASSUME ControlInv, block_read_done \/ dma_write_segment \/ block_write_done PROVE ControlInv'
<1>1. faulty' \in BOOLEAN
  BY FaultyType, Zenon DEF block_read_done, dma_write_segment, block_write_done, HostOk
<1>2. /\ req' = req /\ req.dev = "blk" /\ pc \in {"pread", "dma_write", "pwrite"}
      /\ desc.next # End
      /\ chain_seen' = chain_seen /\ dma_data' = dma_data /\ chain_seen \in Nat
  BY RequestFacts, Zenon
  DEF block_read_done, dma_write_segment, block_write_done, ControlInv, TxPcs, SegmentPcs
<1>3. CASE \E s \in {status, "IOERR"} : EndSegment(s)
  BY <1>1, <1>2, <1>3, ControlEndSegment, Zenon
<1>4. CASE pc = "pread" /\ ~dma_data /\ pc' = "dma_write" /\ UNCHANGED place
  <2>1. /\ desc' = desc /\ WrongDirection' = WrongDirection /\ status' = status
        /\ index' = index /\ pos' = pos /\ data_len' = data_len
    BY <1>2, <1>4, Zenon DEF place, desc, WrongDirection
  <2>. QED
    BY <1>1, <1>2, <1>4, <2>1, Zenon DEF ControlInv, SegmentPcs, EndPcs, TxPcs
<1>. QED
  BY <1>3, <1>4, Zenon DEF block_read_done, dma_write_segment, block_write_done

\* The end of the request.
LEMMA ControlAnswer == ASSUME ControlInv, block_flush \/ write_status PROVE ControlInv'
<1>1. faulty' \in BOOLEAN
  BY FaultyType, Zenon DEF block_flush, write_status
<1>2. /\ req' = req /\ req.dev = "blk" /\ pc \in {"answer", "flushed"} /\ desc.next = End
      /\ UNCHANGED <<index, data_len, pos, chain_seen, dma_data>>
  BY RequestFacts, Zenon DEF block_flush, write_status, ControlInv, TxPcs, EndPcs, place
<1>3. CASE pc' \in {"done", "aborted"}
  BY <1>1, <1>2, <1>3, ControlReturn, Zenon DEF ControlInv
<1>4. CASE pc' = "flushed" /\ req.type = "FLUSH"
  BY <1>1, <1>2, <1>4, Zenon DEF ControlInv, SegmentPcs, EndPcs, TxPcs, desc
<1>. QED
  BY <1>3, <1>4, Zenon DEF block_flush, write_status, Return

\* The console.
LEMMA ControlTx == ASSUME ControlInv, Console PROVE ControlInv'
<1>1. faulty' \in BOOLEAN
  BY FaultyType, Zenon DEF Console, read_tx_desc, read_tx_data, write_tx_data, tx_written, HostOk
<1>2. /\ req' = req /\ req.dev = "console" /\ pc \in TxPcs
      /\ UNCHANGED <<chain_seen, dma_data>>
  BY RequestFacts, Zenon DEF Console, read_tx_desc, read_tx_data, write_tx_data, tx_written,
     ControlInv, TxPcs, SegmentPcs, EndPcs
<1>3. data_len' \in Nat
  BY DescNow, LenType, Zenon
  DEF Console, read_tx_desc, read_tx_data, write_tx_data, tx_written, ControlInv, place
<1>4. CASE NextTx /\ pos' = 0 /\ pc \in {"tx", "tx_write"}
  <2>1. CASE desc.next = End
    <3>1. pc' = "done" /\ index' = index
      BY <1>4, <2>1, Zenon DEF NextTx, Return
    <3>2. 0 \in Nat
      BY Zenon
    <3>. QED
      BY <1>1, <1>2, <1>3, <1>4, <2>1, <3>1, <3>2, Zenon
      DEF ControlInv, SegmentPcs, EndPcs, TxPcs, desc
  <2>2. CASE desc.next # End
    <3>1. pc' = "tx" /\ index' \in Descs
      BY <1>4, <2>2, DescNow, Zenon DEF NextTx
    <3>2. 0 \in Nat
      BY Zenon
    <3>. QED
      BY <1>1, <1>2, <1>3, <1>4, <3>1, <3>2, Zenon DEF ControlInv, SegmentPcs, EndPcs, TxPcs
  <2>. QED
    BY <2>1, <2>2, Zenon
<1>5. CASE pc' = "aborted" /\ UNCHANGED <<index, pos>>
  BY <1>1, <1>2, <1>3, <1>5, ControlReturn, Zenon DEF ControlInv
<1>6. CASE pc' \in {"tx_read", "tx_write"} /\ UNCHANGED <<index, pos>> /\ Transmits /\ pos = 0
  <2>1. desc' = desc /\ Transmits' = Transmits
    BY <1>2, <1>6, Zenon DEF desc, Transmits
  <2>2. 0 <= desc.len
    BY DescNow
  <2>. QED
    BY <1>1, <1>2, <1>3, <1>6, <2>1, <2>2, Zenon DEF ControlInv, SegmentPcs, EndPcs, TxPcs
<1>7. CASE /\ UNCHANGED <<pc, index, status, data_len>> /\ pc = "tx_write"
           /\ \E n \in 1 .. desc.len - pos : pos' = Transferred(n)
  BY <1>1, <1>2, <1>7, ControlTransferred, Zenon
<1>8. CASE read_tx_desc
  BY <1>4, <1>5, <1>6, <1>8, Zenon DEF read_tx_desc, Return, ControlInv
<1>9. CASE read_tx_data
  BY <1>5, <1>6, <1>9, Zenon DEF read_tx_data, Return, ControlInv, place
<1>10. CASE write_tx_data
  BY <1>5, <1>7, <1>10, Zenon DEF write_tx_data, Return
<1>11. CASE tx_written
  BY <1>4, <1>11, Zenon DEF tx_written
<1>. QED
  BY <1>8, <1>9, <1>10, <1>11, Zenon DEF Console

\* ControlInv is inductive.
LEMMA ControlStep == ControlInv /\ [Next]_vars => ControlInv'
<1>. SUFFICES ASSUME ControlInv, [Next]_vars PROVE ControlInv'
  BY Zenon
<1>1. CASE UNCHANGED vars
  BY <1>1, ZenonT(40) DEF vars, place, ControlInv, SegmentPcs, EndPcs, TxPcs, desc, WrongDirection,
     Transmits
<1>. QED
  BY <1>1, ControlHeader, ControlNext, ControlBuffer, ControlDmaRead, ControlCheck,
     ControlTransfers, ControlDone, ControlAnswer, ControlTx, Zenon DEF Next, Blk

-----------------------------------------------------------------------------
(* Sequences.                                                              *)

\* A function on an initial interval is a sequence.
LEMMA FunctionSeq ==
  ASSUME NEW S, NEW n \in Nat, NEW f \in [1 .. n -> S]
  PROVE  f \in Seq(S) /\ Len(f) = n
OBVIOUS

\* The elements of a concatenation.
LEMMA ConcatFacts ==
  ASSUME NEW S, NEW s \in Seq(S), NEW t \in Seq(S)
  PROVE  /\ s \o t \in Seq(S) /\ Len(s \o t) = Len(s) + Len(t)
         /\ \A i \in 1 .. Len(s) : (s \o t)[i] = s[i]
         /\ \A i \in 1 .. Len(t) : (s \o t)[Len(s) + i] = t[i]
OBVIOUS

\* The elements of a subsequence.
LEMMA SubSeqFacts ==
  ASSUME NEW S, NEW s \in Seq(S), NEW m \in Nat, NEW n \in Nat, m <= n, n <= Len(s)
  PROVE  /\ SubSeq(s, m + 1, n) \in Seq(S) /\ Len(SubSeq(s, m + 1, n)) = n - m
         /\ \A i \in 1 .. n - m : SubSeq(s, m + 1, n)[i] = s[m + i]
<1>1. SubSeq(s, m + 1, n) \in Seq(S)
  OBVIOUS
<1>2. Len(SubSeq(s, m + 1, n)) = n - m
  OBVIOUS
<1>3. \A i \in 1 .. n - m : SubSeq(s, m + 1, n)[i] = s[m + i]
  OBVIOUS
<1>. QED
  BY <1>1, <1>2, <1>3, Zenon

\* The buffer after ensure_io_buf.
LEMMA GrownFacts ==
  ASSUME ControlInv, ContentInv
  PROVE  Grown \in Seq(Bytes) /\ Len(Grown) >= desc.len /\ Len(Grown) >= Len(io_buf)
<1>1. Stale \in Bytes
  BY DEF Bytes
<1>. DEFINE n == desc.len - Len(io_buf)
            f == [k \in 1 .. n |-> Stale]
<1>2. io_buf \in Seq(Bytes) /\ Len(io_buf) \in Nat /\ desc.len \in Nat
  BY DescNow DEF ContentInv
<1>3. CASE n <= 0
  <2>1. f = <<>>
    BY <1>2, <1>3
  <2>2. <<>> \in Seq(Bytes) /\ Len(<<>>) = 0
    OBVIOUS
  <2>3. f \in Seq(Bytes) /\ Len(f) = 0
    BY <2>1, <2>2, Zenon
  <2>. HIDE DEF f
  <2>4. io_buf \o f \in Seq(Bytes) /\ Len(io_buf \o f) = Len(io_buf) + Len(f)
    BY <1>2, <2>3, ConcatFacts, Zenon
  <2>5. Grown = io_buf \o f
    BY Zenon DEF Grown, f
  <2>6. Len(Grown) = Len(io_buf)
    BY <1>2, <2>3, <2>4, <2>5
  <2>. QED
    BY <1>2, <1>3, <2>4, <2>5, <2>6
<1>4. CASE n > 0
  <2>1. n \in Nat
    BY <1>2, <1>4
  <2>2. f \in [1 .. n -> Bytes]
    BY <1>1, Zenon
  <2>. HIDE DEF f, n
  <2>3. f \in Seq(Bytes) /\ Len(f) = n
    BY <2>1, <2>2, FunctionSeq, Zenon
  <2>4. io_buf \o f \in Seq(Bytes) /\ Len(io_buf \o f) = Len(io_buf) + n
    BY <1>2, <2>3, ConcatFacts, Zenon
  <2>5. Len(io_buf) + n >= desc.len /\ Len(io_buf) + n >= Len(io_buf)
    BY <1>2, <1>4 DEF n
  <2>6. Grown = io_buf \o f
    BY Zenon DEF Grown, f, n
  <2>. QED
    BY <2>4, <2>5, <2>6, Zenon
<1>. QED
  BY <1>2, <1>3, <1>4

\* Where a segment lies is a byte offset.
LEMMA AtType == ASSUME ControlInv PROVE At \in Nat /\ At < OffMod
<1>1. OffMod \in Nat \ {0} /\ SectorSize \in Nat /\ req.sector \in Nat /\ data_len \in Nat
  BY Numbers, RequestFacts DEF ControlInv
<1>2. offset \in Nat
  BY <1>1 DEF offset
<1>. QED
  BY <1>1, <1>2 DEF At

\* A buffer with bytes of the image put into it.
LEMMA FilledFacts ==
  ASSUME ControlInv, ContentInv, NEW b \in Seq(Bytes), desc.len <= Len(b),
         NEW n \in 1 .. desc.len - pos, At + desc.len <= ImageLen
  PROVE  /\ Filled(b, n) \in Seq(Bytes) /\ Len(Filled(b, n)) = Len(b)
         /\ \A k \in 1 .. Len(b) :
              Filled(b, n)[k] = IF k \in pos + 1 .. pos + n THEN image[At + k - 1] ELSE b[k]
<1>1. /\ desc.len \in Nat /\ pos \in Nat /\ Len(b) \in Nat /\ DOMAIN b = 1 .. Len(b)
      /\ \A k \in 1 .. Len(b) : b[k] \in Bytes
  BY DescNow DEF ControlInv
<1>2. At \in Nat
  BY AtType, Zenon
<1>3. ASSUME NEW k \in pos + 1 .. pos + n PROVE image[At + k - 1] \in Bytes
  <2>1. At + k - 1 \in 0 .. ImageLen - 1
    BY <1>1, <1>2, Numbers
  <2>. QED
    BY <2>1, Zenon DEF ContentInv
<1>4. Filled(b, n) \in [1 .. Len(b) -> Bytes]
  BY <1>1, <1>3, Zenon DEF Filled
<1>5. \A k \in 1 .. Len(b) :
        Filled(b, n)[k] = IF k \in pos + 1 .. pos + n THEN image[At + k - 1] ELSE b[k]
  BY <1>1, Zenon DEF Filled
<1>. QED
  BY <1>1, <1>4, <1>5, FunctionSeq, Zenon

\* The contents, and the room for them.
StoreInv == ContentInv /\ RoomInv

\* Contents that nothing has touched.
LEMMA ContentKept ==
  ASSUME ContentInv, UNCHANGED <<req, mem, image, output, io_buf>> PROVE ContentInv'
BY Zenon DEF ContentInv

\* Between transfers nothing is asked of the buffers.
LEMMA RoomElsewhere ==
  ASSUME pc' \notin {"block", "pread", "pwrite", "dma_read", "dma_write", "tx_write"}
  PROVE  RoomInv'
BY Zenon DEF RoomInv, TransferInBounds

\* The store invariant holds at first.
LEMMA StoreInit == ASSUME Init PROVE StoreInv
<1>1. req \in Requests /\ \A d \in Descs : req.table[d].len \in Nat
  BY DescFacts, Zenon DEF Init
<1>2. ASSUME NEW d \in Descs PROVE mem[d] \in Seq(Bytes) /\ Len(mem[d]) = req.table[d].len
  <2>1. mem[d] \in [1 .. req.table[d].len -> Bytes]
    <3>1. mem[d] = [k \in 1 .. req.table[d].len |-> MemByte(d, k)]
      BY Zenon DEF Init
    <3>2. \A k \in Nat : MemByte(d, k) \in Bytes
      BY DEF Bytes
    <3>. HIDE DEF MemByte
    <3>. QED
      BY <1>1, <3>1, <3>2
  <2>. QED
    BY <1>1, <2>1, FunctionSeq, ZenonT(40)
<1>3. mem \in [Descs -> Seq(Bytes)]
  <2>1. mem = [d \in Descs |-> mem[d]]
    BY Zenon DEF Init
  <2>. QED
    BY <1>2, <2>1, Zenon
<1>4. image \in [0 .. ImageLen - 1 -> Bytes]
  <2>1. image = [i \in 0 .. ImageLen - 1 |-> ImageByte(i)]
    BY Zenon DEF Init
  <2>2. \A i \in Nat : ImageByte(i) \in Bytes
    BY DEF Bytes
  <2>3. \A i \in 0 .. ImageLen - 1 : i \in Nat
    BY Numbers
  <2>. QED
    BY <2>1, <2>2, <2>3, Zenon
<1>5. io_buf \in Seq(Bytes)
  <2>1. io_buf = [k \in 1 .. req.io_buf_size |-> Stale] /\ req.io_buf_size \in Nat
    BY <1>1, RequestFacts, Zenon DEF Init
  <2>2. Stale \in Bytes
    BY DEF Bytes
  <2>3. io_buf \in [1 .. req.io_buf_size -> Bytes]
    BY <2>1, <2>2, Zenon
  <2>. QED
    BY <2>1, <2>3, FunctionSeq, Zenon
<1>6. output \in Seq(Bytes)
  BY DEF Init
<1>7. RoomInv
  BY Zenon DEF Init, RoomInv, TransferInBounds
<1>. QED
  BY <1>2, <1>3, <1>4, <1>5, <1>6, <1>7, Zenon DEF StoreInv, ContentInv

\* The steps that move no data.
LEMMA StoreQuiet ==
  ASSUME StoreInv, ControlInv,
         \/ read_request_header \/ read_next_desc \/ block_flush \/ write_status
         \/ read_tx_desc \/ tx_written
  PROVE  StoreInv'
<1>1. UNCHANGED <<req, mem, image, output, io_buf>>
  BY Zenon DEF read_request_header, read_next_desc, block_flush, write_status, read_tx_desc,
     tx_written, stores
<1>2. \/ pc' \notin {"block", "pread", "pwrite", "dma_read", "dma_write", "tx_write"}
      \/ pc' = "block" /\ dma_data'
  BY Zenon DEF read_request_header, read_next_desc, block_flush, write_status, read_tx_desc,
     tx_written, NextTx, Return, EndSegment
<1>3. RoomInv'
  BY <1>2, RoomElsewhere, Zenon DEF RoomInv, TransferInBounds
<1>. QED
  BY <1>1, <1>3, ContentKept, Zenon DEF StoreInv

\* The growth of the buffer.
LEMMA StoreBuffer == ASSUME StoreInv, ControlInv, ensure_io_buf PROVE StoreInv'
<1>1. UNCHANGED <<req, mem, image, output, dma_data>>
  BY Zenon DEF ensure_io_buf, stores
<1>2. CASE /\ io_buf' = Grown /\ UNCHANGED place
           /\ pc' = IF req.type = "IN" THEN "block" ELSE "dma_read"
  <2>1. io_buf' \in Seq(Bytes) /\ Len(io_buf') >= desc.len
    BY <1>2, GrownFacts, Zenon DEF StoreInv
  <2>2. desc' = desc
    BY <1>1, <1>2, Zenon DEF desc, place
  <2>3. ContentInv'
    BY <1>1, <2>1, Zenon DEF StoreInv, ContentInv
  <2>4. desc.len <= Len(io_buf')
    BY <2>1, DescNow, Zenon
  <2>5. ~dma_data
    BY Zenon DEF ControlInv, ensure_io_buf
  <2>6. RoomInv'
    BY <1>1, <1>2, <2>2, <2>4, <2>5, Zenon DEF RoomInv, TransferInBounds
  <2>. QED
    BY <2>3, <2>6, Zenon DEF StoreInv
<1>3. CASE io_buf' = io_buf /\ pc' \in {"walk", "aborted"}
  <2>1. RoomInv'
    BY <1>3, RoomElsewhere, Zenon
  <2>. QED
    BY <1>1, <1>3, <2>1, ContentKept, Zenon DEF StoreInv
<1>. QED
  BY <1>2, <1>3, Zenon DEF ensure_io_buf, EndSegment, Return

\* The DMA of a segment that is to be written.
LEMMA StoreDmaRead == ASSUME StoreInv, ControlInv, dma_read_segment PROVE StoreInv'
<1>1. UNCHANGED <<req, mem, image, output, dma_data, index>>
  BY Zenon DEF dma_read_segment, stores, place
<1>2. CASE io_buf' = mem[index] \o SubSeq(io_buf, desc.len + 1, Len(io_buf)) /\ pc' = "block"
  <2>1. /\ desc.len \in Nat /\ desc.len <= Len(io_buf) /\ Len(io_buf) \in Nat
        /\ mem[index] \in Seq(Bytes) /\ Len(mem[index]) = desc.len /\ io_buf \in Seq(Bytes)
    <3>1. pc = "dma_read" /\ ~dma_data
      BY Zenon DEF ControlInv, dma_read_segment
    <3>2. /\ desc.len \in Nat /\ io_buf \in Seq(Bytes)
          /\ mem[index] \in Seq(Bytes) /\ Len(mem[index]) = desc.len
      BY DescNow, Zenon DEF StoreInv, ContentInv, ControlInv, desc
    <3>3. desc.len <= Len(io_buf)
      BY <3>1, Zenon DEF StoreInv, RoomInv, TransferInBounds
    <3>4. Len(io_buf) \in Nat
      BY <3>2
    <3>. QED
      BY <3>2, <3>3, <3>4, Zenon
  <2>. DEFINE rest == SubSeq(io_buf, desc.len + 1, Len(io_buf))
  <2>2. rest \in Seq(Bytes) /\ Len(rest) = Len(io_buf) - desc.len
    BY <2>1, SubSeqFacts
  <2>. HIDE DEF rest
  <2>3. mem[index] \o rest \in Seq(Bytes) /\ Len(mem[index] \o rest) = desc.len + Len(rest)
    <3>. DEFINE data == mem[index]
    <3>1. data \in Seq(Bytes) /\ Len(data) = desc.len
      BY <2>1, Zenon
    <3>. HIDE DEF data
    <3>2. data \o rest \in Seq(Bytes) /\ Len(data \o rest) = Len(data) + Len(rest)
      BY <2>2, <3>1, ConcatFacts, Zenon
    <3>. QED
      BY <3>1, <3>2, Zenon DEF data
  <2>4. io_buf' \in Seq(Bytes) /\ desc.len <= Len(io_buf')
    BY <1>2, <2>1, <2>2, <2>3 DEF rest
  <2>5. desc' = desc
    BY <1>1, Zenon DEF desc
  <2>6. ContentInv'
    BY <1>1, <2>4, Zenon DEF StoreInv, ContentInv
  <2>7. RoomInv'
    BY <1>2, <2>4, <2>5, Zenon DEF RoomInv, TransferInBounds
  <2>. QED
    BY <2>6, <2>7, Zenon DEF StoreInv
<1>3. CASE io_buf' = io_buf /\ pc' = "aborted"
  <2>1. RoomInv'
    BY <1>3, RoomElsewhere, Zenon
  <2>. QED
    BY <1>1, <1>3, <2>1, ContentKept, Zenon DEF StoreInv
<1>. QED
  BY <1>2, <1>3, Zenon DEF dma_read_segment, Return

\* The backend's checks make the room that the transfers need.
LEMMA StoreCheck == ASSUME StoreInv, ControlInv, block_check PROVE StoreInv'
<1>1. UNCHANGED <<req, mem, image, output, dma_data, io_buf>> /\ pc = "block"
  BY Zenon DEF block_check, stores
<1>2. ContentInv'
  BY <1>1, ContentKept, Zenon DEF StoreInv
<1>3. CASE /\ InImage(At, desc.len) /\ UNCHANGED place
           /\ pc' = IF req.type = "IN" THEN "pread" ELSE "pwrite"
  <2>1. desc' = desc /\ At' = At /\ pos' = pos /\ index' = index
    BY <1>1, <1>3, Zenon DEF desc, At, offset, SectorFits, place
  <2>2. At + desc.len <= ImageLen
    BY <1>3, AtType, DescNow, Numbers DEF InImage
  <2>3. pos <= desc.len
    BY <1>1, DescNow DEF ControlInv
  <2>4. IF dma_data THEN desc.len = Len(mem[index]) ELSE desc.len <= Len(io_buf)
    BY <1>1, Zenon DEF StoreInv, RoomInv, ContentInv, ControlInv, desc
  <2>5. RoomInv'
    BY <1>1, <1>3, <2>1, <2>2, <2>3, <2>4, Zenon DEF RoomInv, TransferInBounds
  <2>. QED
    BY <1>2, <2>5, Zenon DEF StoreInv
<1>4. CASE pc' = "walk"
  BY <1>2, <1>4, RoomElsewhere, Zenon DEF StoreInv
<1>. QED
  BY <1>3, <1>4, Zenon DEF block_check, EndSegment

\* The transfer from the image.
LEMMA StorePread == ASSUME StoreInv, ControlInv, ControlInv', pread PROVE StoreInv'
<1>1. UNCHANGED <<req, image, output, dma_data>> /\ pc = "pread"
  BY Zenon DEF pread
<1>2. /\ At + desc.len <= ImageLen
      /\ IF dma_data THEN desc.len = Len(mem[index]) ELSE desc.len <= Len(io_buf)
      /\ mem[index] \in Seq(Bytes) /\ io_buf \in Seq(Bytes) /\ desc.len \in Nat
  BY <1>1, DescNow, Zenon DEF StoreInv, RoomInv, TransferInBounds, ContentInv, ControlInv
<1>3. CASE HostFails /\ EndSegment("IOERR") /\ UNCHANGED <<mem, io_buf>>
  <2>1. pc' = "walk"
    BY <1>3, Zenon DEF EndSegment
  <2>. QED
    BY <1>1, <1>3, <2>1, ContentKept, RoomElsewhere, Zenon DEF StoreInv
<1>4. ASSUME NEW n \in 1 .. desc.len - pos, UNCHANGED <<pc, index, status, data_len>>,
             IF dma_data
               THEN mem' = [mem EXCEPT ![index] = Filled(@, n)] /\ UNCHANGED io_buf
               ELSE io_buf' = Filled(io_buf, n) /\ UNCHANGED mem
      PROVE  StoreInv'
  <2>1. desc' = desc /\ At' = At /\ index' = index /\ pc' = "pread"
    BY <1>1, <1>4, Zenon DEF desc, At, offset, SectorFits
  <2>2. pos' <= desc.len
    BY <2>1, Zenon DEF ControlInv
  <2>3. CASE dma_data
    <3>1. /\ Filled(mem[index], n) \in Seq(Bytes)
          /\ Len(Filled(mem[index], n)) = Len(mem[index])
      <4>1. desc.len <= Len(mem[index])
        BY <1>2, <2>3
      <4>. QED
        BY <1>2, <4>1, FilledFacts, Zenon DEF StoreInv
    <3>2. mem' = [mem EXCEPT ![index] = Filled(mem[index], n)] /\ io_buf' = io_buf
      BY <1>4, <2>3, Zenon
    <3>3. ContentInv'
      BY <1>1, <3>1, <3>2, Zenon DEF StoreInv, ContentInv
    <3>4. desc.len = Len(mem'[index])
      BY <1>2, <2>3, <3>1, <3>2, Zenon DEF StoreInv, ContentInv, ControlInv
    <3>5. RoomInv'
      BY <1>1, <1>2, <2>1, <2>2, <2>3, <3>4, Zenon DEF RoomInv, TransferInBounds
    <3>. QED
      BY <3>3, <3>5, Zenon DEF StoreInv
  <2>4. CASE ~dma_data
    <3>1. Filled(io_buf, n) \in Seq(Bytes) /\ Len(Filled(io_buf, n)) = Len(io_buf)
      BY <1>2, <2>4, FilledFacts, Zenon DEF StoreInv
    <3>2. io_buf' = Filled(io_buf, n) /\ mem' = mem
      BY <1>4, <2>4, Zenon
    <3>3. ContentInv'
      BY <1>1, <3>1, <3>2, Zenon DEF StoreInv, ContentInv
    <3>4. desc.len <= Len(io_buf')
      BY <1>2, <2>4, <3>1, <3>2, Zenon
    <3>5. RoomInv'
      BY <1>1, <1>2, <2>1, <2>2, <2>4, <3>4, Zenon DEF RoomInv, TransferInBounds
    <3>. QED
      BY <3>3, <3>5, Zenon DEF StoreInv
  <2>. QED
    BY <2>3, <2>4, Zenon
<1>. QED
  BY <1>3, <1>4, Zenon DEF pread

\* The end of that transfer.
LEMMA StoreReadDone ==
  ASSUME StoreInv, ControlInv, block_read_done \/ block_write_done PROVE StoreInv'
<1>1. UNCHANGED <<req, mem, image, output, dma_data, io_buf>>
  BY Zenon DEF block_read_done, block_write_done, stores
<1>2. ContentInv'
  BY <1>1, ContentKept, Zenon DEF StoreInv
<1>3. CASE pc = "pread" /\ ~dma_data /\ pc' = "dma_write" /\ UNCHANGED place
  <2>1. desc' = desc /\ At' = At
    BY <1>1, <1>3, Zenon DEF desc, At, offset, SectorFits, place
  <2>2. At + desc.len <= ImageLen /\ desc.len <= Len(io_buf)
    BY <1>3, Zenon DEF StoreInv, RoomInv, TransferInBounds
  <2>3. RoomInv'
    BY <1>1, <1>3, <2>1, <2>2, Zenon DEF RoomInv, TransferInBounds
  <2>. QED
    BY <1>2, <2>3, Zenon DEF StoreInv
<1>4. CASE pc' = "walk"
  BY <1>2, <1>4, RoomElsewhere, Zenon DEF StoreInv
<1>. QED
  BY <1>3, <1>4, Zenon DEF block_read_done, block_write_done, EndSegment

\* The DMA into guest memory.
LEMMA StoreDmaWrite == ASSUME StoreInv, ControlInv, dma_write_segment PROVE StoreInv'
<1>1. UNCHANGED <<req, image, output, io_buf>> /\ pc = "dma_write" /\ pc' = "walk"
  BY Zenon DEF dma_write_segment, EndSegment
<1>2. RoomInv'
  BY <1>1, RoomElsewhere, Zenon
<1>3. /\ io_buf \in Seq(Bytes) /\ desc.len \in Nat /\ desc.len <= Len(io_buf)
      /\ index \in Descs /\ desc.len = req.table[index].len
  BY <1>1, DescNow, Zenon DEF StoreInv, RoomInv, TransferInBounds, ContentInv, ControlInv, desc
<1>4. SubSeq(io_buf, 1, desc.len) \in Seq(Bytes) /\ Len(SubSeq(io_buf, 1, desc.len)) = desc.len
  <2>1. /\ SubSeq(io_buf, 0 + 1, desc.len) \in Seq(Bytes)
        /\ Len(SubSeq(io_buf, 0 + 1, desc.len)) = desc.len - 0
    BY <1>3, SubSeqFacts
  <2>. QED
    BY <1>3, <2>1
<1>5. CASE mem' = mem
  BY <1>1, <1>2, <1>5, ContentKept, Zenon DEF StoreInv
<1>6. CASE mem' = [mem EXCEPT ![index] = SubSeq(io_buf, 1, desc.len)]
  <2>1. ContentInv'
    BY <1>1, <1>3, <1>4, <1>6, Zenon DEF StoreInv, ContentInv
  <2>. QED
    BY <1>2, <2>1, Zenon DEF StoreInv
<1>. QED
  BY <1>5, <1>6, Zenon DEF dma_write_segment

\* The transfer to the image.
LEMMA StorePwrite == ASSUME StoreInv, ControlInv, ControlInv', pwrite PROVE StoreInv'
<1>1. UNCHANGED <<req, mem, output, dma_data, io_buf>> /\ pc = "pwrite"
  BY Zenon DEF pwrite
<1>2. CASE HostFails /\ EndSegment("IOERR") /\ UNCHANGED image
  <2>1. pc' = "walk"
    BY <1>2, Zenon DEF EndSegment
  <2>. QED
    BY <1>1, <1>2, <2>1, ContentKept, RoomElsewhere, Zenon DEF StoreInv
<1>3. ASSUME NEW n \in 1 .. desc.len - pos, UNCHANGED <<pc, index, status, data_len>>,
             image' = [i \in DOMAIN image |->
                         IF i \in At + pos .. At + pos + n - 1 THEN io_buf[i - At + 1]
                                                               ELSE image[i]]
      PROVE  StoreInv'
  <2>1. desc' = desc /\ At' = At /\ index' = index /\ pc' = "pwrite"
    BY <1>1, <1>3, Zenon DEF desc, At, offset, SectorFits
  <2>2. pos' <= desc.len
    BY <2>1, Zenon DEF ControlInv
  <2>3. /\ At + desc.len <= ImageLen /\ At \in Nat /\ pos \in Nat /\ desc.len \in Nat
        /\ IF dma_data THEN desc.len = Len(mem[index]) ELSE desc.len <= Len(io_buf)
    BY <1>1, AtType, DescNow, Zenon DEF StoreInv, RoomInv, TransferInBounds, ControlInv
  <2>4. ~dma_data
    BY <1>1, Zenon DEF ControlInv
  <2>5. ASSUME NEW i \in At + pos .. At + pos + n - 1 PROVE io_buf[i - At + 1] \in Bytes
    <3>1. i - At + 1 \in 1 .. Len(io_buf)
      BY <2>3, <2>4
    <3>. QED
      BY <3>1 DEF StoreInv, ContentInv
  <2>6. image' \in [0 .. ImageLen - 1 -> Bytes]
    BY <1>3, <2>5, Zenon DEF StoreInv, ContentInv
  <2>7. ContentInv'
    BY <1>1, <2>6, Zenon DEF StoreInv, ContentInv
  <2>8. RoomInv'
    BY <1>1, <2>1, <2>2, <2>3, <2>4, Zenon DEF RoomInv, TransferInBounds
  <2>. QED
    BY <2>7, <2>8, Zenon DEF StoreInv
<1>. QED
  BY <1>2, <1>3, Zenon DEF pwrite

\* The DMA of the console's data.
LEMMA StoreTxRead == ASSUME StoreInv, ControlInv, read_tx_data PROVE StoreInv'
<1>1. UNCHANGED <<req, mem, image, output, index>>
  BY Zenon DEF read_tx_data, stores, place
<1>2. io_buf' \in Seq(Bytes)
  BY Zenon DEF read_tx_data, StoreInv, ContentInv, ControlInv
<1>3. ContentInv'
  BY <1>1, <1>2, Zenon DEF StoreInv, ContentInv
<1>4. RoomInv'
  BY <1>1, Zenon DEF read_tx_data, Return, RoomInv, TransferInBounds
<1>. QED
  BY <1>3, <1>4, Zenon DEF StoreInv

\* The output of that data.
LEMMA StoreTxWrite == ASSUME StoreInv, ControlInv, write_tx_data PROVE StoreInv'
<1>1. UNCHANGED <<req, mem, image, io_buf, index>> /\ pc = "tx_write"
  BY Zenon DEF write_tx_data
<1>2. RoomInv'
  BY <1>1, Zenon DEF write_tx_data, Return, StoreInv, RoomInv, TransferInBounds
<1>3. CASE output' = output
  BY <1>1, <1>2, <1>3, ContentKept, Zenon DEF StoreInv
<1>4. ASSUME NEW n \in 1 .. desc.len - pos, output' = output \o SubSeq(io_buf, pos + 1, pos + n)
      PROVE  StoreInv'
  <2>1. /\ io_buf \in Seq(Bytes) /\ output \in Seq(Bytes) /\ Len(io_buf) = desc.len
        /\ desc.len \in Nat /\ pos \in Nat /\ n \in Nat
    BY <1>1, DescNow DEF StoreInv, RoomInv, ContentInv, ControlInv, desc
  <2>2. pos + n \in Nat /\ pos <= pos + n /\ pos + n <= Len(io_buf)
    BY <2>1
  <2>3. SubSeq(io_buf, pos + 1, pos + n) \in Seq(Bytes)
    BY <2>1, <2>2, SubSeqFacts, Zenon
  <2>4. output' \in Seq(Bytes)
    BY <1>4, <2>1, <2>3
  <2>5. ContentInv'
    BY <1>1, <2>4, Zenon DEF StoreInv, ContentInv
  <2>. QED
    BY <1>2, <2>5, Zenon DEF StoreInv
<1>. QED
  BY <1>3, <1>4, Zenon DEF write_tx_data

\* StoreInv is inductive with ControlInv.
LEMMA StoreStep == ControlInv /\ ControlInv' /\ StoreInv /\ [Next]_vars => StoreInv'
<1>. SUFFICES ASSUME ControlInv, ControlInv', StoreInv, [Next]_vars PROVE StoreInv'
  BY Zenon
<1>1. CASE UNCHANGED vars
  <2>1. UNCHANGED <<req, mem, image, output, io_buf, pc, pos, index, data_len, dma_data>>
    BY <1>1, Zenon DEF vars, stores, place
  <2>2. ContentInv'
    BY <2>1, ContentKept, Zenon DEF StoreInv
  <2>3. desc' = desc /\ At' = At
    BY <2>1, Zenon DEF desc, At, offset, SectorFits
  <2>4. RoomInv'
    BY <2>1, <2>3, Zenon DEF StoreInv, RoomInv, TransferInBounds
  <2>. QED
    BY <2>2, <2>4, Zenon DEF StoreInv
<1>. QED
  BY <1>1, StoreQuiet, StoreBuffer, StoreDmaRead, StoreCheck, StorePread, StoreReadDone,
     StoreDmaWrite, StorePwrite, StoreTxRead, StoreTxWrite, Zenon DEF Next, Blk, Console

\* The program keeps to its own rules about where it is in a request and in a segment.
LEMMA StoreAlways == Spec => [](ControlInv /\ StoreInv)
<1>1. Init => ControlInv /\ StoreInv
  BY ControlInit, StoreInit, Zenon
<1>2. ControlInv /\ StoreInv /\ [Next]_vars => (ControlInv /\ StoreInv)'
  BY ControlStep, StoreStep, Zenon
<1>. QED
  BY <1>1, <1>2, PTL DEF Spec

\* Every transfer stays within the image and the buffer (blkd_block_read,
\* blkd_block_write, ensure_io_buf), whatever the chain says and whatever fails.
THEOREM TransferInBoundsAlways == Spec => []TransferInBounds
<1>1. StoreInv => TransferInBounds
  BY Zenon DEF StoreInv, RoomInv
<1>. QED
  BY <1>1, StoreAlways, PTL

-----------------------------------------------------------------------------
(* Arithmetic.                                                             *)

\* A remainder is what is left over after a multiple.
LEMMA ModUnique ==
  ASSUME NEW n \in Nat \ {0}, NEW q \in Int, NEW r \in 0 .. n - 1
  PROVE  (n * q + r) % n = r
OBVIOUS

\* Quotient and remainder.
LEMMA DivMod ==
  ASSUME NEW n \in Nat \ {0}, NEW a \in Nat
  PROVE  /\ a \div n \in Nat
         /\ a % n \in 0 .. n - 1
         /\ a = n * (a \div n) + (a % n)
<1>1. a \div n \in Nat
  OBVIOUS
<1>2. a % n \in 0 .. n - 1
  OBVIOUS
<1>3. a = n * (a \div n) + (a % n)
  OBVIOUS
<1>. QED
  BY <1>1, <1>2, <1>3, Zenon

\* Remainders may be taken before or after an addition.
LEMMA ModAdd ==
  ASSUME NEW n \in Nat \ {0}, NEW a \in Nat, NEW b \in Nat
  PROVE  ((a % n) + b) % n = (a + b) % n
<1>1. PICK q \in Nat, s \in 0 .. n - 1 : a = n * q + s /\ s = a % n
  BY DivMod, Zenon
<1>2. s + b \in Nat
  OBVIOUS
<1>3. PICK p \in Nat, r \in 0 .. n - 1 : s + b = n * p + r /\ r = (s + b) % n
  BY <1>2, DivMod, Zenon
<1>4. n * (q + p) = n * q + n * p /\ n * q \in Nat /\ n * p \in Nat
  OBVIOUS
<1>5. a + b = n * (q + p) + r
  <2>1. a = n * q + s
    BY <1>1, Zenon
  <2>2. s + b = n * p + r
    BY <1>3, Zenon
  <2>. QED
    BY <1>4, <2>1, <2>2
<1>6. (n * (q + p) + r) % n = r
  BY ModUnique
<1>. QED
  BY <1>1, <1>3, <1>5, <1>6, Zenon

-----------------------------------------------------------------------------
(* Where a block request is in its chain.                                  *)

\* The segment under way counts as one.
LEMMA HereSegment ==
  ASSUME ControlInv, req.dev = "blk", NEW c \in 1 .. QueueNum, index = Nth(req, c),
         desc.next # End
  PROVE  /\ IsSegment(req, c) /\ c \in Segments(req) /\ SegmentLen(req, c) = desc.len
         /\ Nth(req, c + 1) = desc.next
         /\ Before(req, c + 1) = Before(req, c) + desc.len /\ Before(req, c) \in Nat
<1>1. req \in Requests /\ index \in Descs /\ index # End
  BY Zero, Zenon DEF ControlInv
<1>2. c \in Nat /\ c \in 0 .. QueueNum /\ c > 0
  BY Numbers
<1>3. Nth(req, c + 1) = desc.next
  BY <1>1, <1>2, ChainFacts, Zenon DEF desc
<1>4. IsSegment(req, c)
  BY <1>2, <1>3, Zenon DEF IsSegment
<1>5. c \in Segments(req) /\ SegmentLen(req, c) = desc.len
  BY <1>1, <1>2, <1>4, SegmentFacts, Zenon DEF desc
<1>. QED
  BY <1>1, <1>2, <1>3, <1>4, <1>5, SumFacts, Zenon

\* The end of a segment leads to the next position.
LEMMA WalkEndSegment ==
  ASSUME ControlInv, req.dev = "blk", req' = req, NEW c \in 1 .. QueueNum, Position(c),
         desc.next # End, NEW s, EndSegment(s), chain_seen' = c
  PROVE  WalkInv'
<1>1. index = Nth(req, c)
  BY Zenon DEF Position
<1>2. /\ Nth(req, c + 1) = desc.next /\ SegmentLen(req, c) = desc.len
      /\ Before(req, c + 1) = Before(req, c) + desc.len /\ Before(req, c) \in Nat
  BY <1>1, HereSegment, Zenon
<1>3. pc' = "walk" /\ index' = desc.next
  BY Zenon DEF EndSegment
<1>4. ASSUME req.type \in {"IN", "OUT"} PROVE data_len' = Before(req, c + 1) % LenMod
  <2>1. data_len' = (data_len + desc.len) % LenMod /\ data_len = Before(req, c) % LenMod
    BY <1>4, Zenon DEF EndSegment, Advance, Position
  <2>2. ((Before(req, c) % LenMod) + desc.len) % LenMod = (Before(req, c) + desc.len) % LenMod
    BY <1>2, ModAdd, Numbers, DescNow, Zenon
  <2>. QED
    BY <1>2, <2>1, <2>2, Zenon
<1>5. Position(c + 1)'
  BY <1>2, <1>3, <1>4, Zenon DEF Position
<1>6. Current' = c + 1 /\ chain_seen' \in 0 .. QueueNum
  BY <1>3, Numbers DEF Current
<1>. QED
  BY <1>3, <1>5, <1>6, Zenon DEF WalkInv, WalkPcs, SegmentPcs, EndPcs

\* The walk starts at the head.
LEMMA WalkInit == ASSUME Init PROVE WalkInv
BY Zenon DEF Init, WalkInv, WalkPcs, SegmentPcs, EndPcs

\* The header is descriptor 0.
LEMMA WalkHeader == ASSUME ControlInv, WalkInv, read_request_header PROVE WalkInv'
<1>1. /\ req' = req /\ req \in Requests /\ pc = "header"
      /\ chain_seen' = chain_seen /\ data_len' = data_len
  BY Zenon DEF read_request_header, ControlInv
<1>2. CASE pc' = "aborted"
  BY <1>2, Zenon DEF WalkInv, WalkPcs, SegmentPcs, EndPcs
<1>3. CASE pc' = "walk" /\ index' = desc.next /\ req.dev = "blk"
  <2>1. index = 0 /\ chain_seen = 0 /\ data_len = 0
    BY <1>1, <1>3, Zenon DEF WalkInv
  <2>2. Nth(req, 0 + 1) = desc.next
    BY <1>1, <2>1, ChainFacts, Zero, Zenon DEF desc
  <2>3. Before(req, 0 + 1) = 0
    <3>1. ~IsSegment(req, 0)
      BY <1>3 DEF IsSegment
    <3>2. SegmentLen(req, 0) = 0
      BY <3>1, Zenon DEF SegmentLen
    <3>. QED
      BY <1>1, <3>2, SumFacts
  <2>4. 0 % LenMod = 0 /\ 0 \in 0 .. QueueNum
    BY Numbers
  <2>5. Position(0 + 1)'
    BY <1>1, <1>3, <2>1, <2>2, <2>3, <2>4, Zenon DEF Position
  <2>6. Current' = 0 + 1
    BY <1>1, <1>3, <2>1, Zenon DEF Current
  <2>. QED
    BY <1>1, <1>3, <2>1, <2>4, <2>5, <2>6, Zenon DEF WalkInv, WalkPcs, SegmentPcs, EndPcs
<1>. QED
  BY <1>1, <1>2, <1>3, Zenon DEF read_request_header, Return, WalkInv

\* The next descriptor, or the limit of chain_seen.
LEMMA WalkNext == ASSUME ControlInv, WalkInv, read_next_desc PROVE WalkInv'
<1>1. /\ req' = req /\ pc = "walk" /\ chain_seen' = chain_seen + 1 /\ used_len' = used_len
      /\ req.dev = "blk"
  BY RequestFacts, Zenon DEF read_next_desc, Seen, ControlInv, TxPcs
<1>2. CASE pc' = "aborted"
  BY <1>2, Zenon DEF WalkInv, WalkPcs, SegmentPcs, EndPcs
<1>3. CASE ~TooLong /\ pc' # "aborted"
  <2>1. PICK c \in 1 .. QueueNum : chain_seen' = c
    <3>1. chain_seen' \in 1 .. QueueNum
      BY <1>1, <1>3, Numbers DEF TooLong, Seen, WalkInv
    <3>. QED
      BY <3>1, Zenon
  <2>2. Current = c /\ Position(c)
    BY <1>1, <2>1, Zenon DEF Current, WalkInv, WalkPcs
  <2>3. CASE EndSegment(SkipStatus) /\ desc.next # End
    BY <1>1, <2>1, <2>2, <2>3, WalkEndSegment, Zenon
  <2>4. CASE pc' \in {"answer", "block", "buffer"} /\ UNCHANGED place
    <3>1. Position(c)'
      BY <1>1, <2>2, <2>4, Zenon DEF Position, place
    <3>2. Current' = c
      BY <2>1, <2>4, Zenon DEF Current
    <3>. QED
      BY <2>1, <2>4, <3>1, <3>2, Zenon DEF WalkInv, WalkPcs, SegmentPcs, EndPcs
  <2>. QED
    BY <1>3, <2>3, <2>4, Zenon DEF read_next_desc, Return
<1>. QED
  BY <1>2, <1>3, Zenon DEF read_next_desc, Return

\* The steps within a segment, and its end.
LEMMA WalkSegment ==
  ASSUME ControlInv, WalkInv, pc \in SegmentPcs, UNCHANGED <<req, chain_seen>>,
         \/ \E s : EndSegment(s)
         \/ pc' = "aborted"
         \/ pc' \in SegmentPcs /\ UNCHANGED <<index, data_len>>
  PROVE  WalkInv'
<1>1. req.dev = "blk" /\ desc.next # End
  BY RequestFacts, Zenon DEF ControlInv, SegmentPcs, TxPcs
<1>2. chain_seen \in 1 .. QueueNum /\ Current = chain_seen /\ Position(chain_seen)
  BY <1>1, Zenon DEF WalkInv, WalkPcs, Current, SegmentPcs
<1>3. CASE pc' = "aborted"
  BY <1>3, Zenon DEF WalkInv, WalkPcs, SegmentPcs, EndPcs
<1>4. ASSUME NEW s, EndSegment(s) PROVE WalkInv'
  BY <1>1, <1>2, <1>4, WalkEndSegment, Zenon
<1>5. CASE pc' \in SegmentPcs /\ UNCHANGED <<index, data_len>>
  <2>1. Position(chain_seen)' /\ Current' = chain_seen
    BY <1>2, <1>5, Zenon DEF Position, Current, SegmentPcs
  <2>. QED
    BY <1>2, <1>5, <2>1, Zenon DEF WalkInv, WalkPcs, SegmentPcs, EndPcs
<1>. QED
  BY <1>3, <1>4, <1>5, Zenon

\* The end of the request.
LEMMA WalkAnswer == ASSUME ControlInv, WalkInv, block_flush \/ write_status PROVE WalkInv'
<1>1. /\ UNCHANGED <<req, chain_seen, index, data_len>> /\ pc \in {"answer", "flushed"}
      /\ pc' \in {"flushed", "done", "aborted"} /\ req.dev = "blk"
  BY RequestFacts, Zenon DEF block_flush, write_status, Return, place, ControlInv, TxPcs
<1>2. /\ chain_seen \in 1 .. QueueNum /\ Current = chain_seen /\ Position(chain_seen)
      /\ Current' = chain_seen
  BY <1>1, Zenon DEF WalkInv, WalkPcs, Current, EndPcs
<1>3. Position(chain_seen)' /\ UsedLen' = UsedLen
  BY <1>1, <1>2, Zenon DEF Position, UsedLen
<1>4. pc' = "done" => used_len' = UsedLen
  BY Zenon DEF block_flush, write_status
<1>. QED
  BY <1>1, <1>2, <1>3, <1>4, Zenon DEF WalkInv, WalkPcs, SegmentPcs, EndPcs

\* WalkInv is inductive with ControlInv.
LEMMA WalkStep == ControlInv /\ WalkInv /\ [Next]_vars => WalkInv'
<1>. SUFFICES ASSUME ControlInv, WalkInv, [Next]_vars PROVE WalkInv'
  BY Zenon
<1>1. CASE UNCHANGED vars
  BY <1>1, Zenon DEF vars, place, WalkInv, Position, Current, UsedLen, WalkPcs, SegmentPcs, EndPcs
<1>2. CASE Console
  <2>1. req' = req /\ req.dev # "blk"
    BY <1>2, RequestFacts, Zenon DEF Console, read_tx_desc, read_tx_data, write_tx_data, tx_written,
       ControlInv, TxPcs, SegmentPcs, EndPcs
  <2>. QED
    BY <2>1, Zenon DEF WalkInv
<1>3. CASE ensure_io_buf
  BY <1>3, WalkSegment, Zenon DEF ensure_io_buf, SegmentPcs, Return, place
<1>4. CASE dma_read_segment
  BY <1>4, WalkSegment, Zenon DEF dma_read_segment, SegmentPcs, Return, place
<1>5. CASE block_check
  BY <1>5, WalkSegment, Zenon DEF block_check, SegmentPcs, place
<1>6. CASE pread
  BY <1>6, WalkSegment, Zenon DEF pread, SegmentPcs
<1>7. CASE block_read_done
  BY <1>7, WalkSegment, Zenon DEF block_read_done, SegmentPcs, place
<1>8. CASE dma_write_segment
  BY <1>8, WalkSegment, Zenon DEF dma_write_segment, SegmentPcs
<1>9. CASE pwrite
  BY <1>9, WalkSegment, Zenon DEF pwrite, SegmentPcs
<1>10. CASE block_write_done
  BY <1>10, WalkSegment, Zenon DEF block_write_done, SegmentPcs
<1>. QED
  BY <1>1, <1>2, <1>3, <1>4, <1>5, <1>6, <1>7, <1>8, <1>9, <1>10, WalkHeader, WalkNext,
     WalkAnswer, Zenon DEF Next, Blk

\* Nothing has changed at first.
LEMMA KeptInit == ASSUME Init PROVE KeptInv
<1>1. \A d \in Descs : \A j \in 1 .. req.table[d].len : mem[d][j] = MemByte(d, j)
  BY Zenon DEF Init
<1>2. \A i \in 0 .. ImageLen - 1 : image[i] = ImageByte(i)
  BY Zenon DEF Init
<1>. QED
  BY <1>1, <1>2, Zenon DEF KeptInv

\* Only a read request changes guest memory, and only a write request the image.
LEMMA KeptStep == ControlInv /\ KeptInv /\ [Next]_vars => KeptInv'
<1>. SUFFICES ASSUME ControlInv, KeptInv, [Next]_vars PROVE KeptInv'
  BY Zenon
<1>1. req' = req
  BY Zenon DEF Next, Blk, Console, vars, read_request_header, read_next_desc, ensure_io_buf,
     dma_read_segment, block_check, pread, block_read_done, dma_write_segment, pwrite,
     block_write_done, block_flush, write_status, read_tx_desc, read_tx_data, write_tx_data,
     tx_written
<1>2. mem' = mem \/ (req.dev = "blk" /\ req.type = "IN")
  <2>1. CASE pread \/ dma_write_segment
    BY <2>1, RequestFacts, Zenon DEF pread, dma_write_segment, ControlInv, TxPcs
  <2>2. CASE ~(pread \/ dma_write_segment)
    BY <2>2, Zenon DEF Next, Blk, Console, vars, stores, read_request_header, read_next_desc,
       ensure_io_buf, dma_read_segment, block_check, block_read_done, pwrite,
       block_write_done, block_flush, write_status, read_tx_desc, read_tx_data,
       write_tx_data, tx_written
  <2>. QED
    BY <2>1, <2>2, Zenon
<1>3. image' = image \/ (req.dev = "blk" /\ req.type = "OUT")
  <2>1. CASE pwrite
    BY <2>1, RequestFacts, Zenon DEF pwrite, ControlInv, TxPcs
  <2>2. CASE ~pwrite
    BY <2>2, Zenon DEF Next, Blk, Console, vars, stores, read_request_header, read_next_desc,
       ensure_io_buf, dma_read_segment, block_check, pread, block_read_done,
       dma_write_segment, block_write_done, block_flush, write_status, read_tx_desc,
       read_tx_data, write_tx_data, tx_written
  <2>. QED
    BY <2>1, <2>2, Zenon
<1>. QED
  BY <1>1, <1>2, <1>3, Zenon DEF KeptInv

-----------------------------------------------------------------------------
(* The console.                                                            *)

\* The console starts at the head with no output.
LEMMA TxInit == ASSUME Init PROVE TxInv
<1>1. req \in Requests /\ index = 0 /\ data_len = 0 /\ pos = 0 /\ output = <<>>
  BY Zenon DEF Init
<1>2. Nth(req, 0) = 0 /\ Before(req, 0) = 0
  BY <1>1, ChainFacts, SumFacts, Zenon
<1>3. 0 % LenMod = 0 /\ 0 \in 0 .. QueueNum /\ Len(<<>>) = 0 + 0 /\ 1 .. 0 = {}
  BY Numbers
<1>4. Sent(0)
  BY <1>1, <1>2, <1>3, Zenon DEF Sent
<1>5. OutputInv
  BY <1>1, <1>3, Zenon DEF OutputInv
<1>6. pc # "done"
  BY Zenon DEF Init
<1>. QED
  BY <1>3, <1>4, <1>5, <1>6, Zenon DEF TxInv

\* What the descriptor under way adds.
LEMMA HereTx ==
  ASSUME ControlInv, req.dev = "console", NEW k \in 0 .. QueueNum, index = Nth(req, k)
  PROVE  /\ Nth(req, k + 1) = desc.next
         /\ Before(req, k) \in Nat
         /\ ~desc.write => k \in Segments(req) /\ SegmentLen(req, k) = desc.len
         /\ Before(req, k + 1) = Before(req, k) + (IF Transmits THEN desc.len ELSE 0)
<1>1. req \in Requests /\ index \in Descs /\ index # End
  BY Zero, Zenon DEF ControlInv
<1>2. k \in Nat
  BY Numbers
<1>3. Nth(req, k + 1) = desc.next
  BY <1>1, <1>2, ChainFacts, Zenon DEF desc
<1>4. ~desc.write <=> IsSegment(req, k)
  BY <1>1, Zenon DEF IsSegment, desc
<1>5. ~desc.write => k \in Segments(req) /\ SegmentLen(req, k) = desc.len
  BY <1>1, <1>2, <1>4, SegmentFacts, Zenon DEF desc
<1>6. SegmentLen(req, k) = IF Transmits THEN desc.len ELSE 0
  <2>1. CASE desc.write
    BY <1>4, <2>1, Zenon DEF SegmentLen, Transmits
  <2>2. CASE ~desc.write
    BY <1>5, <2>2, DescNow DEF Transmits
  <2>. QED
    BY <2>1, <2>2, Zenon
<1>. QED
  BY <1>1, <1>2, <1>3, <1>5, <1>6, SumFacts, Zenon

\* From one descriptor to the next.
LEMMA TxAdvance ==
  ASSUME ControlInv, req.dev = "console", Ends(req), OutputInv,
         UNCHANGED <<req, output>>, NextTx, pos' = 0, NEW k \in 0 .. QueueNum,
         index = Nth(req, k), data_len' = Before(req, k + 1) % LenMod,
         Len(output) = Before(req, k + 1)
  PROVE  TxInv'
<1>1. req \in Requests /\ k \in Nat /\ QueueNum \in Nat
  BY Numbers DEF ControlInv
<1>2. Nth(req, k + 1) = desc.next /\ Before(req, k + 1) \in Nat
  <2>1. k + 1 \in Nat
    BY <1>1
  <2>. QED
    BY <1>1, <2>1, HereTx, SumFacts, Zenon
<1>3. OutputInv'
  BY Zenon DEF OutputInv
<1>4. CASE desc.next = End
  <2>1. pc' = "done" /\ used_len' = data_len'
    BY <1>4, Zenon DEF NextTx, Return
  <2>2. k + 1 \in 0 .. QueueNum + 1
    BY <1>1
  <2>3. Before(req, k + 1) = Total(req)
    BY <1>1, <1>2, <1>4, <2>2, TxEnds, Zenon
  <2>. QED
    BY <1>3, <2>1, <2>3, Zenon DEF TxInv, TxPcs
<1>5. CASE desc.next # End
  <2>1. pc' = "tx" /\ index' = desc.next
    BY <1>5, Zenon DEF NextTx
  <2>2. k # QueueNum
    BY <1>2, <1>5, Zenon DEF Ends
  <2>3. k + 1 \in 0 .. QueueNum
    BY <1>1, <2>2
  <2>4. Before(req, k + 1) = Before(req, k + 1) + 0
    BY <1>2
  <2>5. Sent(k + 1)'
    BY <1>2, <2>1, <2>4, Zenon DEF Sent
  <2>. QED
    BY <1>3, <2>1, <2>3, <2>5, Zenon DEF TxInv
<1>. QED
  BY <1>4, <1>5, Zenon

\* The console reads a descriptor.
LEMMA TxReadDesc ==
  ASSUME ControlInv, TxInv, read_tx_desc, req.dev = "console", Ends(req) PROVE TxInv'
<1>1. UNCHANGED <<req, output, pos>> /\ pc = "tx" /\ pos = 0
  BY Zenon DEF read_tx_desc, stores, ControlInv
<1>2. PICK k \in 0 .. QueueNum : Sent(k)
  BY <1>1, Zenon DEF TxInv, TxPcs
<1>3. OutputInv /\ OutputInv'
  BY <1>1, Zenon DEF OutputInv, TxInv
<1>4. CASE pc' = "aborted"
  BY <1>1, <1>3, <1>4, Zenon DEF TxInv, TxPcs
<1>5. CASE pc' = "tx_read" /\ UNCHANGED <<index, data_len>>
  <2>1. Sent(k)'
    BY <1>1, <1>2, <1>5, Zenon DEF Sent
  <2>. QED
    BY <1>1, <1>3, <1>5, <2>1, Zenon DEF TxInv, TxPcs
<1>6. CASE ~Transmits /\ UNCHANGED data_len /\ NextTx
  <2>1. /\ index = Nth(req, k) /\ data_len = Before(req, k) % LenMod
        /\ Len(output) = Before(req, k) + 0
    BY <1>1, <1>2, Zenon DEF Sent
  <2>2. Before(req, k) \in Nat /\ Before(req, k + 1) = Before(req, k) + 0
    BY <1>6, <2>1, HereTx, Zenon
  <2>3. Before(req, k + 1) = Before(req, k)
    BY <2>2
  <2>. QED
    BY <1>1, <1>3, <1>6, <2>1, <2>2, <2>3, TxAdvance, Zenon
<1>. QED
  BY <1>4, <1>5, <1>6, Zenon DEF read_tx_desc, Return

\* The console reads its data.
LEMMA TxReadData ==
  ASSUME ControlInv, TxInv, read_tx_data, req.dev = "console", Ends(req) PROVE TxInv'
<1>1. UNCHANGED <<req, output, pos, index, data_len>> /\ pc = "tx_read"
  BY Zenon DEF read_tx_data, stores, place
<1>2. PICK k \in 0 .. QueueNum : Sent(k)
  BY <1>1, Zenon DEF TxInv, TxPcs
<1>3. OutputInv'
  BY <1>1, Zenon DEF OutputInv, TxInv
<1>4. Sent(k)'
  BY <1>1, <1>2, Zenon DEF Sent
<1>. QED
  BY <1>1, <1>3, <1>4, Zenon DEF TxInv, TxPcs, read_tx_data, Return

\* The console is done with a descriptor.
LEMMA TxWritten ==
  ASSUME ControlInv, TxInv, tx_written, req.dev = "console", Ends(req) PROVE TxInv'
<1>1. /\ UNCHANGED <<req, output>> /\ pc = "tx_write" /\ pos = desc.len /\ Transmits
      /\ data_len' = (data_len + desc.len) % LenMod /\ pos' = 0 /\ NextTx
  BY Zenon DEF tx_written, stores, ControlInv
<1>2. PICK k \in 0 .. QueueNum : Sent(k)
  BY <1>1, Zenon DEF TxInv, TxPcs
<1>3. /\ index = Nth(req, k) /\ data_len = Before(req, k) % LenMod
      /\ Len(output) = Before(req, k) + desc.len
  BY <1>1, <1>2, Zenon DEF Sent
<1>4. Before(req, k) \in Nat /\ Before(req, k + 1) = Before(req, k) + desc.len
  BY <1>1, <1>3, HereTx, Zenon
<1>5. ((Before(req, k) % LenMod) + desc.len) % LenMod = (Before(req, k) + desc.len) % LenMod
  BY <1>4, ModAdd, Numbers, DescNow, Zenon
<1>6. OutputInv
  BY Zenon DEF TxInv
<1>. QED
  BY <1>1, <1>3, <1>4, <1>5, <1>6, TxAdvance, Zenon

\* The console writes some of the bytes of a descriptor.
LEMMA TxWrite ==
  ASSUME ControlInv, StoreInv, KeptInv, TxInv, write_tx_data, req.dev = "console", Ends(req)
  PROVE  TxInv'
<1>1. /\ UNCHANGED <<req, io_buf, mem, index, data_len>> /\ pc = "tx_write" /\ Transmits
  BY Zenon DEF write_tx_data, ControlInv
<1>2. PICK k \in 0 .. QueueNum : Sent(k)
  BY <1>1, Zenon DEF TxInv, TxPcs
<1>3. CASE pc' = "aborted" /\ UNCHANGED output
  <2>1. OutputInv'
    BY <1>1, <1>3, Zenon DEF OutputInv, TxInv
  <2>. QED
    BY <1>1, <1>3, <2>1, Zenon DEF TxInv, TxPcs
<1>4. ASSUME NEW n \in 1 .. desc.len - pos, pc' = pc, pos' = Transferred(n),
             output' = output \o SubSeq(io_buf, pos + 1, pos + n)
      PROVE  TxInv'
  <2>1. /\ io_buf \in Seq(Bytes) /\ output \in Seq(Bytes) /\ Len(io_buf) = desc.len
        /\ io_buf = mem[index] /\ desc.len \in Nat /\ pos \in Nat /\ n \in Nat
        /\ index \in Descs /\ desc.len = req.table[index].len /\ Len(output) \in Nat
    BY <1>1, DescNow DEF StoreInv, RoomInv, ContentInv, ControlInv, desc
  <2>2. pos + n \in Nat /\ pos <= pos + n /\ pos + n <= Len(io_buf) /\ (pos + n) - pos = n
    BY <2>1
  <2>. DEFINE new == SubSeq(io_buf, pos + 1, pos + n)
  <2>3. /\ new \in Seq(Bytes) /\ Len(new) = n
        /\ \A i \in 1 .. n : new[i] = io_buf[pos + i]
    <3>. DEFINE S == Bytes
                s == io_buf
                p == pos
                q == pos + n
    <3>1. s \in Seq(S) /\ p \in Nat /\ q \in Nat /\ p <= q /\ q <= Len(s)
      BY <2>1, <2>2, Zenon
    <3>2. q - p = n
      BY <2>2, Zenon
    <3>. HIDE DEF S, s, p, q
    <3>3. /\ SubSeq(s, p + 1, q) \in Seq(S) /\ Len(SubSeq(s, p + 1, q)) = q - p
          /\ \A i \in 1 .. q - p : SubSeq(s, p + 1, q)[i] = s[p + i]
      BY ONLY <3>1, SubSeqFacts, Zenon
    <3>. QED
      BY <3>2, <3>3, Zenon DEF S, s, p, q
  <2>. HIDE DEF new
  <2>4. /\ Len(output \o new) = Len(output) + n
        /\ \A i \in 1 .. Len(output) : (output \o new)[i] = output[i]
        /\ \A i \in 1 .. n : (output \o new)[Len(output) + i] = new[i]
    <3>1. output \in Seq(Bytes) /\ new \in Seq(Bytes) /\ Len(new) = n
      BY <2>1, <2>3, Zenon
    <3>2. /\ Len(output \o new) = Len(output) + Len(new)
          /\ \A i \in 1 .. Len(output) : (output \o new)[i] = output[i]
          /\ \A i \in 1 .. Len(new) : (output \o new)[Len(output) + i] = new[i]
      <4>. DEFINE S == Bytes
                  s == output
      <4>1. s \in Seq(S) /\ new \in Seq(S)
        BY <3>1, Zenon
      <4>. HIDE DEF S, s
      <4>2. /\ Len(s \o new) = Len(s) + Len(new)
            /\ \A i \in 1 .. Len(s) : (s \o new)[i] = s[i]
            /\ \A i \in 1 .. Len(new) : (s \o new)[Len(s) + i] = new[i]
        BY ONLY <4>1, ConcatFacts
      <4>. QED
        BY <4>2, Zenon DEF s
    <3>. QED
      BY <3>1, <3>2, Zenon
  <2>5. output' = output \o new
    BY <1>4, Zenon DEF new
  <2>6. /\ k \in Segments(req) /\ SegmentLen(req, k) = desc.len /\ Before(req, k) \in Nat
        /\ index = Nth(req, k) /\ Len(output) = Before(req, k) + pos
    BY <1>1, <1>2, HereTx, Zenon DEF Transmits, Sent
  <2>7. Sent(k)'
    <3>1. (Before(req, k) + pos) + n = Before(req, k) + (pos + n)
      BY <2>1, <2>6
    <3>2. Len(output') = Before(req, k) + pos'
      BY <1>4, <2>4, <2>5, <2>6, <3>1, Zenon DEF Transferred
    <3>. QED
      BY <1>1, <1>2, <3>2, Zenon DEF Sent
  <2>8. OutputInv'
    <3>1. ASSUME NEW i \in 1 .. Len(output')
          PROVE  \E m \in Segments(req) : \E j \in 1 .. SegmentLen(req, m) :
                   i = Before(req, m) + j /\ output'[i] = MemByte(Nth(req, m), j)
      <4>1. CASE i \in 1 .. Len(output)
        <5>1. output'[i] = output[i]
          BY <2>4, <2>5, <4>1, Zenon
        <5>2. OutputInv
          BY Zenon DEF TxInv
        <5>. QED
          BY <4>1, <5>1, <5>2, Zenon DEF OutputInv
      <4>2. CASE i \notin 1 .. Len(output)
        <5>1. PICK j \in 1 .. n : i = Len(output) + j
          <6>1. i - Len(output) \in 1 .. n /\ i = Len(output) + (i - Len(output))
            BY <2>1, <2>4, <2>5, <4>2
          <6>. QED
            BY <6>1, Zenon
        <5>2. output'[i] = io_buf[pos + j]
          BY <2>3, <2>4, <2>5, <5>1, Zenon
        <5>3. pos + j \in 1 .. desc.len /\ i = Before(req, k) + (pos + j)
          <6>0. pos \in Nat /\ desc.len \in Nat /\ Before(req, k) \in Nat
            BY <2>1, <2>6, Zenon
          <6>1. pos + j \in 1 .. desc.len
            BY ONLY <6>0, n \in 1 .. desc.len - pos, j \in 1 .. n
          <6>2. (Before(req, k) + pos) + j = Before(req, k) + (pos + j)
            BY ONLY <6>0, n \in 1 .. desc.len - pos, j \in 1 .. n
          <6>. QED
            BY <2>6, <5>1, <6>1, <6>2, Zenon
        <5>4. mem[index][pos + j] = MemByte(index, pos + j)
          BY <2>1, <5>3, Zenon DEF KeptInv
        <5>. QED
          BY <2>1, <2>6, <5>2, <5>3, <5>4, Zenon
      <4>. QED
        BY <4>1, <4>2, Zenon
    <3>. QED
      BY <1>1, <3>1, Zenon DEF OutputInv
  <2>. QED
    BY <1>1, <1>4, <2>7, <2>8, Zenon DEF TxInv, TxPcs
<1>. QED
  BY <1>3, <1>4, Zenon DEF write_tx_data, Return

\* TxInv is inductive with the others.
LEMMA TxStep == ControlInv /\ StoreInv /\ KeptInv /\ TxInv /\ [Next]_vars => TxInv'
<1>. SUFFICES ASSUME ControlInv, StoreInv, KeptInv, TxInv, [Next]_vars PROVE TxInv'
  BY Zenon
<1>1. CASE UNCHANGED vars
  BY <1>1, Zenon DEF vars, stores, place, TxInv, Sent, OutputInv
<1>2. CASE Blk
  <2>1. req' = req
    BY <1>2, Zenon DEF Blk, read_request_header, read_next_desc, ensure_io_buf,
       dma_read_segment, block_check, pread, block_read_done, dma_write_segment, pwrite,
       block_write_done, block_flush, write_status
  <2>2. req.dev # "console"
    BY <1>2, RequestFacts, Zenon DEF Blk, read_request_header, read_next_desc, ensure_io_buf,
       dma_read_segment, block_check, pread, block_read_done, dma_write_segment, pwrite,
       block_write_done, block_flush, write_status, ControlInv, TxPcs
  <2>. QED
    BY <2>1, <2>2, Zenon DEF TxInv
<1>3. CASE Console
  <2>1. req' = req
    BY <1>3, Zenon DEF Console, read_tx_desc, read_tx_data, write_tx_data, tx_written
  <2>2. CASE req.dev = "console" /\ Ends(req)
    BY <1>3, <2>2, TxReadDesc, TxReadData, TxWritten, TxWrite, Zenon DEF Console
  <2>3. CASE ~(req.dev = "console" /\ Ends(req))
    BY <2>1, <2>3, Zenon DEF TxInv
  <2>. QED
    BY <2>2, <2>3, Zenon
<1>. QED
  BY <1>1, <1>2, <1>3, Zenon DEF Next

\* The control, the contents and the walk, together.
LEMMA ChainInvAlways == Spec => [](ControlInv /\ StoreInv /\ WalkInv /\ KeptInv /\ TxInv)
<1>. DEFINE I == ControlInv /\ StoreInv /\ WalkInv /\ KeptInv /\ TxInv
<1>1. Init => I
  BY ControlInit, StoreInit, WalkInit, KeptInit, TxInit, Zenon
<1>2. I /\ [Next]_vars => I'
  BY ControlStep, StoreStep, WalkStep, KeptStep, TxStep, Zenon
<1>. QED
  BY <1>1, <1>2, PTL DEF Spec

\* The length that process_chain reports for a read request is the sum of the lengths
\* of the data descriptors (modulo 2^32) and the status byte, and otherwise 1.
LEMMA UsedLenSum ==
  ASSUME ControlInv, WalkInv, pc = "done", req.dev = "blk"
  PROVE  used_len = IF req.type = "IN" THEN (Total(req) + 1) % LenMod ELSE 1
<1>1. /\ chain_seen \in 1 .. QueueNum /\ Current = chain_seen /\ Position(chain_seen)
      /\ used_len = UsedLen /\ desc.next = End /\ req \in Requests /\ index \in Descs
  BY Zenon DEF WalkInv, ControlInv, Current, WalkPcs, EndPcs
<1>2. Nth(req, chain_seen + 1) = End /\ chain_seen \in 0 .. QueueNum + 1
  BY <1>1, ChainFacts, Numbers DEF Position, desc
<1>3. Before(req, chain_seen) = Total(req)
  BY <1>1, <1>2, BlkEnds, Zenon
<1>4. CASE req.type = "IN"
  <2>1. data_len = Total(req) % LenMod /\ used_len = (data_len + 1) % LenMod
    BY <1>1, <1>3, <1>4, Zenon DEF Position, UsedLen
  <2>2. Total(req) \in Nat
    <3>1. QueueNum + 1 \in Nat
      BY Numbers
    <3>. QED
      BY <1>1, <3>1, SumFacts, Zenon DEF Total
  <2>3. 1 \in Nat
    BY Zenon
  <2>4. ((Total(req) % LenMod) + 1) % LenMod = (Total(req) + 1) % LenMod
    BY <2>2, <2>3, ModAdd, Numbers, Zenon
  <2>. QED
    BY <1>4, <2>1, <2>4, Zenon
<1>5. CASE req.type # "IN"
  BY <1>1, <1>5, Zenon DEF UsedLen
<1>. QED
  BY <1>4, <1>5, Zenon

-----------------------------------------------------------------------------
(* The status of a block request.                                          *)

\* Multiplication is monotone.
LEMMA Times == ASSUME NEW a \in Nat, NEW b \in Nat, NEW n \in Nat, a <= b PROVE a * n <= b * n
OBVIOUS

\* The test of the sector number decides whether the offset can be represented.
LEMMA SectorTest ==
  ASSUME NEW x \in Nat, NEW n \in Nat \ {0}, NEW m \in Nat \ {0}
  PROVE  x <= (m - 1) \div n <=> x * n < m
<1>1. m - 1 \in Nat
  OBVIOUS
<1>2. PICK q \in Nat, s \in 0 .. n - 1 : q = (m - 1) \div n /\ m - 1 = n * q + s
  <2>. DEFINE a == m - 1
  <2>1. a \in Nat
    BY <1>1, Zenon
  <2>. HIDE DEF a
  <2>2. a \div n \in Nat /\ a % n \in 0 .. n - 1 /\ a = n * (a \div n) + (a % n)
    BY <2>1, DivMod, Zenon
  <2>3. \E q \in Nat, s \in 0 .. n - 1 : q = a \div n /\ a = n * q + s
    BY <2>2, Zenon
  <2>. QED
    BY <2>3, Zenon DEF a
<1>3. n * q = q * n /\ q * n \in Nat /\ x * n \in Nat
  OBVIOUS
<1>4. ASSUME x <= q PROVE x * n < m
  <2>1. x * n <= q * n
    BY <1>4, Times, Zenon
  <2>2. m - 1 = n * q + s
    BY <1>2, Zenon
  <2>. QED
    BY <1>3, <2>1, <2>2
<1>5. ASSUME ~(x <= q) PROVE ~(x * n < m)
  <2>1. q + 1 \in Nat /\ q + 1 <= x
    BY <1>5
  <2>2. (q + 1) * n <= x * n
    BY <2>1, Times, Zenon
  <2>3. (q + 1) * n = q * n + n
    OBVIOUS
  <2>4. m - 1 = n * q + s
    BY <1>2, Zenon
  <2>. QED
    BY <1>3, <2>2, <2>3, <2>4
<1>. QED
  BY <1>2, <1>4, <1>5, Zenon

\* The offset of the request can be represented exactly when SectorFits says so.
LEMMA SectorFact ==
  ASSUME ControlInv PROVE Start(req) \in Nat /\ (SectorFits <=> Start(req) < OffMod)
<1>1. req.sector \in Nat /\ SectorSize \in Nat \ {0} /\ OffMod \in Nat \ {0}
  BY RequestFacts, Numbers DEF ControlInv
<1>2. req.sector * SectorSize \in Nat
  BY <1>1
<1>. QED
  BY <1>1, <1>2, SectorTest, Zenon DEF SectorFits, Start

\* As long as the status is good, a segment is where it belongs: no counter has wrapped.
LEMMA AtPlace ==
  ASSUME ControlInv, WalkInv, StatusInv, req.dev = "blk", Countable(req), pc \in SegmentPcs
  PROVE  /\ At = Place(req, chain_seen) /\ chain_seen \in 1 .. QueueNum
         /\ index = Nth(req, chain_seen) /\ IsSegment(req, chain_seen)
         /\ chain_seen \in Segments(req) /\ SegmentLen(req, chain_seen) = desc.len
         /\ Place(req, chain_seen + 1) = Place(req, chain_seen) + desc.len
         /\ Place(req, chain_seen) \in Nat /\ Current = chain_seen
<1>1. /\ req \in Requests /\ desc.next # End /\ status = "OK" /\ req.type \in {"IN", "OUT"}
  BY Zenon DEF ControlInv
<1>2. /\ chain_seen \in 1 .. QueueNum /\ Current = chain_seen /\ Position(chain_seen)
  BY Zenon DEF WalkInv, WalkPcs, Current, SegmentPcs
<1>3. index = Nth(req, chain_seen) /\ data_len = Before(req, chain_seen) % LenMod
  BY <1>1, <1>2, Zenon DEF Position
<1>4. /\ IsSegment(req, chain_seen) /\ chain_seen \in Segments(req)
      /\ SegmentLen(req, chain_seen) = desc.len
      /\ Before(req, chain_seen + 1) = Before(req, chain_seen) + desc.len
      /\ Before(req, chain_seen) \in Nat
  BY <1>1, <1>2, <1>3, HereSegment, Zenon
<1>5. /\ chain_seen \in Nat /\ QueueNum + 1 \in Nat /\ chain_seen <= QueueNum + 1
      /\ LenMod \in Nat \ {0}
  BY <1>2, Numbers
<1>6. data_len = Before(req, chain_seen)
  <2>1. Before(req, chain_seen) <= Total(req)
    BY <1>1, <1>5, SumGrows, Zenon DEF Total
  <2>2. Total(req) \in Nat /\ Total(req) < LenMod
    BY <1>1, <1>5, SumFacts, Zenon DEF Total, Countable
  <2>3. Before(req, chain_seen) % LenMod = Before(req, chain_seen)
    BY <1>4, <1>5, <2>1, <2>2
  <2>. QED
    BY <1>3, <2>3, Zenon
<1>7. Start(req) \in Nat /\ Start(req) < OffMod /\ SectorFits
  BY <1>1, SectorFact, Zenon DEF StatusInv, WalkPcs
<1>8. offset = Start(req)
  <2>1. offset = Start(req) % OffMod
    BY <1>7, Zenon DEF offset, Start
  <2>. QED
    BY <1>7, <2>1, Numbers
<1>9. Place(req, chain_seen) \in Nat
  BY <1>4, <1>7 DEF Place
<1>10. Place(req, chain_seen) < OffMod
  <2>1. CASE chain_seen = 1
    <3>1. ~IsSegment(req, 0)
      BY DEF IsSegment
    <3>2. Before(req, 0 + 1) = 0
      BY <1>1, <3>1, SumFacts DEF SegmentLen
    <3>3. Before(req, chain_seen) = 0
      BY <2>1, <3>2
    <3>. QED
      BY <1>7, <3>3 DEF Place
  <2>2. CASE chain_seen # 1
    <3>1. PICK p \in 1 .. QueueNum : chain_seen = p + 1
      <4>1. chain_seen - 1 \in 1 .. QueueNum /\ chain_seen = (chain_seen - 1) + 1
        BY <1>2, <2>2, Numbers
      <4>. QED
        BY <4>1, Zenon
    <3>2. p \in Nat /\ p \in 0 .. QueueNum /\ p > 0 /\ p < chain_seen
      BY <3>1, Numbers
    <3>3. IsSegment(req, p)
      <4>1. index # End
        BY Zero, Zenon DEF ControlInv
      <4>. QED
        BY <1>3, <3>1, <3>2, <4>1, Zenon DEF IsSegment
    <3>4. p \in Segments(req)
      BY <1>1, <3>2, <3>3, SegmentFacts, Zenon
    <3>5. Valid(req, p)
      BY <1>1, <1>2, <3>2, <3>4, Zenon DEF StatusInv, WalkPcs
    <3>6. /\ Before(req, chain_seen) = Before(req, p) + SegmentLen(req, p)
          /\ Before(req, p) \in Nat /\ SegmentLen(req, p) \in Nat
      BY <1>1, <3>1, <3>2, SumFacts, SegmentFacts, Zenon
    <3>7. (Start(req) + Before(req, p)) + SegmentLen(req, p) <= ImageLen
      BY <3>5, Zenon DEF Valid, Place
    <3>. QED
      BY <1>7, <3>6, <3>7, Numbers DEF Place
  <2>. QED
    BY <2>1, <2>2, Zenon
<1>11. At = Place(req, chain_seen)
  <2>1. At = Place(req, chain_seen) % OffMod
    BY <1>6, <1>8, Zenon DEF At, Place
  <2>. QED
    BY <1>9, <1>10, <2>1, Numbers
<1>12. Place(req, chain_seen + 1) = Place(req, chain_seen) + desc.len
  <2>1. (Start(req) + Before(req, chain_seen)) + desc.len
          = Start(req) + (Before(req, chain_seen) + desc.len)
    BY <1>4, <1>7, DescNow
  <2>. QED
    BY <1>4, <2>1, Zenon DEF Place
<1>. QED
  BY <1>2, <1>3, <1>4, <1>9, <1>11, <1>12, Zenon

\* A failure is not forgotten.
LEMMA FaultyStays ==
  ASSUME DmaOk \/ DmaFails \/ HostOk \/ HostFails, faulty PROVE faulty'
BY Zenon DEF DmaOk, DmaFails, HostOk, HostFails

\* One segment that cannot be transferred makes the request a bad one.
LEMMA VerdictSegment ==
  ASSUME req.type \in {"IN", "OUT"}, NEW k \in Segments(req), ~Valid(req, k)
  PROVE  Verdict(req) = "IOERR"
BY Zenon DEF Verdict

\* The status is of no interest outside the walk.
LEMMA StatusElsewhere == ASSUME pc' \notin WalkPcs PROVE StatusInv'
BY Zenon DEF StatusInv

\* The status invariant holds at first.
LEMMA StatusInit == ASSUME Init PROVE StatusInv
BY Zenon DEF Init, StatusInv, WalkPcs, SegmentPcs, EndPcs

\* The end of a segment, or the passing over of one.
LEMMA StatusEndSegment ==
  ASSUME ControlInv, StatusInv, req.dev = "blk", Countable(req), pc \in WalkPcs,
         req' = req, NEW c \in 1 .. QueueNum, Current = c, chain_seen' = c,
         NEW s, EndSegment(s), faulty => faulty',
         req.type = "OTHER" => s = "UNSUPP",
         req.type # "OTHER" =>
           \/ s = "OK" /\ status = "OK" /\ (req.type # "FLUSH" => Valid(req, c))
           \/ s = "IOERR" /\ (faulty' \/ Verdict(req) = "IOERR")
  PROVE  StatusInv'
<1>1. pc' = "walk" /\ status' = s
  BY Zenon DEF EndSegment
<1>2. Current' = c + 1
  BY <1>1, Zenon DEF Current
<1>3. \A k \in Segments(req) : k < c + 1 => k < c \/ k = c
  BY Numbers DEF Segments
<1>4. pc' \notin {"pread", "dma_write", "pwrite"}
  BY <1>1, Zenon
<1>5. ASSUME req.type # "OTHER", s = "OK", req.type # "FLUSH"
      PROVE  \A k \in Segments(req) : k < c + 1 => Valid(req, k)
  BY <1>3, <1>5, Zenon DEF StatusInv
<1>6. ASSUME req.type # "OTHER", s = "OK" PROVE Start(req) < OffMod
  BY <1>6, Zenon DEF StatusInv
<1>. QED
  BY <1>1, <1>2, <1>4, <1>5, <1>6, Zenon DEF StatusInv

\* A step within a segment.
LEMMA StatusKept ==
  ASSUME StatusInv, pc \in WalkPcs, pc # "walk", pc' # "walk",
         UNCHANGED <<req, chain_seen, status>>,
         faulty => faulty',
         pc' \in {"pread", "dma_write", "pwrite"} /\ req.dev = "blk" /\ Countable(req)
           => Valid(req, chain_seen)
  PROVE  StatusInv'
<1>1. Current' = Current
  BY Zenon DEF Current
<1>. QED
  BY <1>1, Zenon DEF StatusInv

\* The first status is decided by the type and the sector.
LEMMA StatusHeader == ASSUME ControlInv, WalkInv, read_request_header PROVE StatusInv'
<1>1. CASE pc' = "aborted"
  BY <1>1, StatusElsewhere, Zenon DEF WalkPcs, SegmentPcs, EndPcs
<1>2. CASE /\ pc' = "walk"
           /\ status' = IF req.type = "OTHER" THEN "UNSUPP"
                        ELSE IF SectorFits THEN "OK" ELSE "IOERR"
  <2>. SUFFICES ASSUME req'.dev = "blk" PROVE StatusInv'
    BY Zenon DEF StatusInv
  <2>1. req' = req /\ pc = "header" /\ chain_seen' = chain_seen /\ chain_seen = 0
    BY Zenon DEF read_request_header, WalkInv
  <2>2. Current' = 1
    BY <1>2, <2>1 DEF Current
  <2>3. \A k \in Segments(req) : ~(k < 1)
    BY <2>1, Numbers DEF Segments, IsSegment
  <2>4. SectorFits <=> Start(req) < OffMod
    BY SectorFact, Zenon
  <2>5. ~SectorFits /\ req.type # "OTHER" => Verdict(req) = "IOERR"
    BY <2>4, Zenon DEF Verdict
  <2>6. pc' \notin {"pread", "dma_write", "pwrite"}
    BY <1>2, Zenon
  <2>. QED
    BY <1>2, <2>1, <2>2, <2>3, <2>4, <2>5, <2>6, Zenon DEF StatusInv
<1>. QED
  BY <1>1, <1>2, Zenon DEF read_request_header, Return

\* A segment that is passed over.
LEMMA StatusNext == ASSUME ControlInv, WalkInv, StatusInv, read_next_desc PROVE StatusInv'
<1>1. /\ req' = req /\ pc = "walk" /\ chain_seen' = chain_seen + 1 /\ (faulty => faulty')
      /\ req.dev = "blk"
  BY RequestFacts, FaultyStays, Zenon DEF read_next_desc, Seen, ControlInv, TxPcs
<1>. SUFFICES ASSUME Countable(req), pc' # "aborted" PROVE StatusInv'
  BY <1>1, StatusElsewhere, Zenon DEF StatusInv, WalkPcs, SegmentPcs, EndPcs
<1>2. ~TooLong
  BY Zenon DEF read_next_desc, Return
<1>3. PICK c \in 1 .. QueueNum : chain_seen' = c
  <2>1. chain_seen' \in 1 .. QueueNum
    BY <1>1, <1>2, Numbers DEF TooLong, Seen, WalkInv
  <2>. QED
    BY <2>1, Zenon
<1>4. Current = c /\ Position(c) /\ pc \in WalkPcs
  BY <1>1, <1>3, Zenon DEF Current, WalkInv, WalkPcs
<1>5. CASE pc' \in {"answer", "block", "buffer"} /\ UNCHANGED place
  <2>1. Current' = c /\ status' = status
    BY <1>3, <1>5, Zenon DEF Current, place
  <2>2. pc' \notin {"pread", "dma_write", "pwrite"}
    BY <1>5, Zenon
  <2>. QED
    BY <1>1, <1>4, <2>1, <2>2, Zenon DEF StatusInv
<1>6. CASE EndSegment(SkipStatus) /\ desc.next # End /\ Skipped
  <2>1. CASE req.type \notin {"IN", "OUT"}
    <3>1. SkipStatus = status
      BY <2>1, Zenon DEF SkipStatus
    <3>2. req.type \in {"FLUSH", "OTHER"}
      BY <2>1, RequestFacts, Zenon DEF ControlInv
    <3>3. /\ req.type = "OTHER" => status = "UNSUPP"
          /\ req.type # "OTHER" => \/ status = "OK" /\ req.type = "FLUSH"
                                   \/ status = "IOERR" /\ (faulty' \/ Verdict(req) = "IOERR")
      BY <1>1, <1>4, <3>2, Zenon DEF StatusInv
    <3>. QED
      BY <1>1, <1>3, <1>4, <1>6, <3>1, <3>3, StatusEndSegment, Zenon
  <2>2. CASE req.type \in {"IN", "OUT"}
    <3>1. c \in Segments(req)
      BY <1>1, <1>4, <1>6, HereSegment, Zenon DEF Position
    <3>2. WrongDirection => ~Valid(req, c)
      BY <1>4, Zenon DEF WrongDirection, Valid, Position, desc
    <3>3. WrongDirection => Verdict(req) = "IOERR"
      BY <2>2, <3>1, <3>2, VerdictSegment, Zenon
    <3>4. SkipStatus = "IOERR" /\ (faulty' \/ Verdict(req) = "IOERR")
      BY <1>1, <1>4, <1>6, <2>2, <3>3, Zenon DEF SkipStatus, Skipped, StatusInv
    <3>5. req.type # "OTHER"
      BY <2>2, Zenon
    <3>. QED
      BY <1>1, <1>3, <1>4, <1>6, <3>4, <3>5, StatusEndSegment, Zenon
  <2>. QED
    BY <2>1, <2>2, Zenon
<1>. QED
  BY <1>5, <1>6, Zenon DEF read_next_desc, Return

\* A segment that ends badly.
LEMMA StatusFails ==
  ASSUME ControlInv, WalkInv, StatusInv, pc \in SegmentPcs, UNCHANGED <<req, chain_seen>>,
         EndSegment("IOERR"), faulty => faulty',
         req.dev = "blk" /\ Countable(req) => faulty' \/ ~Valid(req, chain_seen)
  PROVE  StatusInv'
<1>1. req.dev = "blk" /\ req.type \in {"IN", "OUT"}
  BY RequestFacts, Zenon DEF ControlInv, SegmentPcs, TxPcs
<1>2. CASE ~Countable(req)
  BY <1>2, Zenon DEF StatusInv
<1>3. CASE Countable(req)
  <2>1. chain_seen \in 1 .. QueueNum /\ chain_seen \in Segments(req) /\ Current = chain_seen
    BY <1>1, <1>3, AtPlace, Zenon
  <2>2. faulty' \/ Verdict(req) = "IOERR"
    BY <1>1, <1>3, <2>1, VerdictSegment, Zenon
  <2>3. req.type # "OTHER" /\ pc \in WalkPcs
    BY <1>1, Zenon DEF WalkPcs
  <2>. QED
    BY <1>1, <1>3, <2>1, <2>2, <2>3, StatusEndSegment, Zenon
<1>. QED
  BY <1>2, <1>3, Zenon

\* A segment that ends well.
LEMMA StatusSucceeds ==
  ASSUME ControlInv, WalkInv, StatusInv, pc \in {"pread", "dma_write", "pwrite"},
         UNCHANGED <<req, chain_seen>>, EndSegment(status), faulty => faulty'
  PROVE  StatusInv'
<1>1. /\ req.dev = "blk" /\ req.type \in {"IN", "OUT"} /\ status = "OK" /\ pc \in SegmentPcs
  BY RequestFacts, Zenon DEF ControlInv, SegmentPcs, TxPcs
<1>2. CASE ~Countable(req)
  BY <1>2, Zenon DEF StatusInv
<1>3. CASE Countable(req)
  <2>1. chain_seen \in 1 .. QueueNum /\ Current = chain_seen
    BY <1>1, <1>3, AtPlace, Zenon
  <2>2. req.type # "OTHER" /\ pc \in WalkPcs
    BY <1>1, Zenon DEF WalkPcs
  <2>3. Valid(req, chain_seen)
    BY <1>1, <1>3, <2>2, Zenon DEF StatusInv
  <2>. QED
    BY <1>1, <1>3, <2>1, <2>2, <2>3, StatusEndSegment, Zenon
<1>. QED
  BY <1>2, <1>3, Zenon

\* The growth of the buffer.
LEMMA StatusBuffer == ASSUME ControlInv, WalkInv, StatusInv, ensure_io_buf PROVE StatusInv'
<1>1. /\ UNCHANGED <<req, chain_seen>> /\ pc = "buffer" /\ pc \in SegmentPcs /\ pc \in WalkPcs
  BY Zenon DEF ensure_io_buf, SegmentPcs, WalkPcs
<1>2. CASE HostOk /\ UNCHANGED place /\ pc' \in {"block", "dma_read"}
  <2>1. /\ pc' \notin {"pread", "dma_write", "pwrite"} /\ pc # "walk" /\ pc' # "walk"
        /\ status' = status /\ (faulty => faulty')
    BY <1>1, <1>2, Zenon DEF HostOk, place
  <2>. QED
    BY <1>1, <2>1, StatusKept, Zenon
<1>3. CASE HostFails /\ EndSegment("IOERR")
  BY <1>1, <1>3, StatusFails, Zenon DEF HostFails
<1>4. CASE pc' = "aborted"
  BY <1>4, StatusElsewhere, Zenon DEF WalkPcs, SegmentPcs, EndPcs
<1>. QED
  BY <1>2, <1>3, <1>4, Zenon DEF ensure_io_buf, Return

\* The DMA of a segment that is to be written.
LEMMA StatusDmaRead == ASSUME StatusInv, dma_read_segment PROVE StatusInv'
<1>1. CASE pc' = "aborted"
  BY <1>1, StatusElsewhere, Zenon DEF WalkPcs, SegmentPcs, EndPcs
<1>2. CASE DmaOk /\ pc' = "block"
  <2>1. /\ UNCHANGED <<req, chain_seen, status>> /\ pc \in WalkPcs /\ pc # "walk" /\ pc' # "walk"
        /\ pc' \notin {"pread", "dma_write", "pwrite"} /\ (faulty => faulty')
    BY <1>2, Zenon DEF dma_read_segment, DmaOk, place, WalkPcs, SegmentPcs
  <2>. QED
    BY <2>1, StatusKept, Zenon
<1>. QED
  BY <1>1, <1>2, Zenon DEF dma_read_segment, Return

\* The checks of the backend are those that make a segment valid.
LEMMA CheckValid ==
  ASSUME ControlInv, WalkInv, StatusInv, req.dev = "blk", Countable(req), pc \in SegmentPcs
  PROVE  Valid(req, chain_seen) <=>
           InImage(At, desc.len) /\ ~(req.type = "OUT" /\ req.readonly)
<1>1. /\ At = Place(req, chain_seen) /\ SegmentLen(req, chain_seen) = desc.len
      /\ index = Nth(req, chain_seen) /\ Place(req, chain_seen) \in Nat
  BY AtPlace, Zenon
<1>2. req.table[Nth(req, chain_seen)].write = (req.type = "IN")
  <2>1. ~WrongDirection /\ desc.write \in BOOLEAN
    BY DescNow, Zenon DEF ControlInv
  <2>. QED
    BY <1>1, <2>1, Zenon DEF WrongDirection, desc
<1>3. InImage(At, desc.len) <=> Place(req, chain_seen) + desc.len <= ImageLen
  BY <1>1, DescNow, Numbers DEF InImage
<1>. QED
  BY <1>1, <1>2, <1>3, Zenon DEF Valid

\* A segment fails the checks only if it is not valid.
LEMMA StatusCheck == ASSUME ControlInv, WalkInv, StatusInv, block_check PROVE StatusInv'
<1>1. /\ UNCHANGED <<req, chain_seen, faulty>> /\ pc = "block"
      /\ pc \in SegmentPcs /\ pc \in WalkPcs
  BY Zenon DEF block_check, SegmentPcs, WalkPcs
<1>2. CASE InImage(At, desc.len) /\ ~(req.type = "OUT" /\ req.readonly)
  <2>1. /\ status' = status /\ pc' # "walk" /\ pc # "walk"
    BY <1>1, <1>2, Zenon DEF block_check, place
  <2>. QED
    BY <1>1, <1>2, <2>1, CheckValid, StatusKept, Zenon
<1>3. CASE ~(InImage(At, desc.len) /\ ~(req.type = "OUT" /\ req.readonly))
  <2>1. EndSegment("IOERR")
    BY <1>3, Zenon DEF block_check
  <2>. QED
    BY <1>1, <1>3, <2>1, CheckValid, StatusFails, Zenon
<1>. QED
  BY <1>2, <1>3, Zenon

\* Transfers and their ends.
LEMMA StatusTransfer ==
  ASSUME ControlInv, WalkInv, StatusInv,
         pread \/ pwrite \/ block_read_done \/ dma_write_segment \/ block_write_done
  PROVE  StatusInv'
<1>1. /\ UNCHANGED <<req, chain_seen>> /\ pc \in {"pread", "dma_write", "pwrite"}
      /\ pc \in SegmentPcs /\ pc \in WalkPcs /\ (faulty => faulty')
  BY FaultyStays DEF pread, pwrite, block_read_done, dma_write_segment, block_write_done,
     SegmentPcs, WalkPcs
<1>2. CASE EndSegment(status)
  BY <1>1, <1>2, StatusSucceeds, Zenon
<1>3. CASE EndSegment("IOERR") /\ faulty'
  BY <1>1, <1>3, StatusFails, Zenon
<1>4. CASE status' = status /\ pc' \in {"pread", "dma_write", "pwrite"}
  <2>1. pc # "walk" /\ pc' # "walk"
    BY <1>1, <1>4, Zenon
  <2>2. req.dev = "blk" /\ Countable(req) => Valid(req, chain_seen)
    BY <1>1, Zenon DEF StatusInv
  <2>. QED
    BY <1>1, <1>4, <2>1, <2>2, StatusKept, Zenon
<1>. QED
  BY <1>1, <1>2, <1>3, <1>4, Zenon
  DEF pread, pwrite, block_read_done, dma_write_segment, block_write_done, HostFails, DmaFails,
      place

\* The end of the request.
LEMMA StatusAnswer == ASSUME ControlInv, StatusInv, block_flush \/ write_status PROVE StatusInv'
<1>1. CASE write_status
  <2>1. CASE pc' = "aborted"
    BY <2>1, StatusElsewhere, Zenon DEF WalkPcs, SegmentPcs, EndPcs
  <2>2. CASE pc' = "done"
    <3>1. /\ UNCHANGED <<req, chain_seen, status>> /\ (faulty => faulty') /\ pc # "walk"
          /\ pc' # "walk" /\ pc' \notin {"pread", "dma_write", "pwrite"} /\ pc \in WalkPcs
      BY <1>1, <2>2, FaultyStays, Zenon DEF write_status, place, WalkPcs, EndPcs
    <3>. QED
      BY <3>1, StatusKept, Zenon
  <2>. QED
    BY <1>1, <2>1, <2>2, Zenon DEF write_status, Return
<1>2. CASE block_flush
  <2>1. /\ UNCHANGED <<req, chain_seen>> /\ (faulty => faulty') /\ pc = "answer"
        /\ pc' = "flushed" /\ req.type = "FLUSH" /\ pc \in WalkPcs
        /\ Current' = Current
    BY <1>2, FaultyStays, Zenon DEF block_flush, WalkPcs, EndPcs, Current
  <2>2. status' = status \/ (status' = "IOERR" /\ faulty')
    BY <1>2, Zenon DEF block_flush, HostFails
  <2>3. req.type # "OTHER" /\ pc' \notin {"pread", "dma_write", "pwrite"}
    BY <2>1, Zenon
  <2>4. status' = "OK" => status = "OK"
    BY <2>2, Zenon
  <2>. QED
    BY <2>1, <2>2, <2>3, <2>4, Zenon DEF StatusInv
<1>. QED
  BY <1>1, <1>2, Zenon

\* StatusInv is inductive with ControlInv and WalkInv.
LEMMA StatusStep == ControlInv /\ WalkInv /\ StatusInv /\ [Next]_vars => StatusInv'
<1>. SUFFICES ASSUME ControlInv, WalkInv, StatusInv, [Next]_vars PROVE StatusInv'
  BY Zenon
<1>1. CASE UNCHANGED vars
  BY <1>1, Zenon DEF vars, place, StatusInv, Current
<1>2. CASE Console
  <2>1. req' = req /\ req.dev # "blk"
    BY <1>2, RequestFacts, Zenon DEF Console, read_tx_desc, read_tx_data, write_tx_data, tx_written,
       ControlInv, TxPcs, SegmentPcs, EndPcs
  <2>. QED
    BY <2>1, Zenon DEF StatusInv
<1>. QED
  BY <1>1, <1>2, StatusHeader, StatusNext, StatusBuffer, StatusDmaRead, StatusCheck,
     StatusTransfer, StatusAnswer, Zenon DEF Next, Blk

-----------------------------------------------------------------------------
(* The data of a block request.                                            *)

\* What pread does to the bytes of the segment, in guest memory or in io_buf.
LEMMA PreadEffect ==
  ASSUME ControlInv, StoreInv, KeptInv, pread
  PROVE  \/ EndSegment("IOERR") /\ UNCHANGED <<mem, io_buf>>
         \/ /\ UNCHANGED <<pc, index, status, data_len>>
            /\ \E n \in 1 .. desc.len - pos :
                 /\ pos' = pos + n
                 /\ dma_data =>
                      /\ \A d \in Descs : d # index => mem'[d] = mem[d]
                      /\ \A j \in 1 .. desc.len :
                           mem'[index][j] = IF j \in pos + 1 .. pos + n
                                              THEN ImageByte(At + j - 1) ELSE mem[index][j]
                 /\ ~dma_data =>
                      /\ mem' = mem
                      /\ \A j \in 1 .. desc.len :
                           io_buf'[j] = IF j \in pos + 1 .. pos + n
                                          THEN ImageByte(At + j - 1) ELSE io_buf[j]
<1>1. /\ pc = "pread" /\ req.type = "IN"
  BY Zenon DEF pread, ControlInv
<1>2. /\ At + desc.len <= ImageLen
      /\ IF dma_data THEN desc.len = Len(mem[index]) ELSE desc.len <= Len(io_buf)
      /\ mem[index] \in Seq(Bytes) /\ io_buf \in Seq(Bytes) /\ desc.len \in Nat
      /\ At \in Nat /\ pos \in Nat /\ index \in Descs /\ Len(io_buf) \in Nat
      /\ mem \in [Descs -> Seq(Bytes)]
  BY <1>1, DescNow, AtType DEF StoreInv, RoomInv, TransferInBounds, ContentInv, ControlInv
<1>3. \A j \in 1 .. desc.len : image[At + j - 1] = ImageByte(At + j - 1)
  <2>1. ASSUME NEW j \in 1 .. desc.len PROVE At + j - 1 \in 0 .. ImageLen - 1
    BY <1>2, Numbers
  <2>. QED
    BY <1>1, <2>1, Zenon DEF KeptInv
<1>4. CASE EndSegment("IOERR") /\ UNCHANGED <<mem, io_buf>>
  BY <1>4, Zenon
<1>5. ASSUME NEW n \in 1 .. desc.len - pos, UNCHANGED <<pc, index, status, data_len>>,
             pos' = Transferred(n),
             IF dma_data
               THEN mem' = [mem EXCEPT ![index] = Filled(@, n)] /\ UNCHANGED io_buf
               ELSE io_buf' = Filled(io_buf, n) /\ UNCHANGED mem
      PROVE  /\ pos' = pos + n
             /\ dma_data =>
                  /\ \A d \in Descs : d # index => mem'[d] = mem[d]
                  /\ \A j \in 1 .. desc.len :
                       mem'[index][j] = IF j \in pos + 1 .. pos + n
                                          THEN ImageByte(At + j - 1) ELSE mem[index][j]
             /\ ~dma_data =>
                  /\ mem' = mem
                  /\ \A j \in 1 .. desc.len :
                       io_buf'[j] = IF j \in pos + 1 .. pos + n
                                      THEN ImageByte(At + j - 1) ELSE io_buf[j]
  <2>1. pos' = pos + n
    BY <1>5, Zenon DEF Transferred
  <2>2. CASE dma_data
    <3>. DEFINE b == mem[index]
    <3>1. b \in Seq(Bytes) /\ desc.len <= Len(b) /\ Len(b) = desc.len
      BY <1>2, <2>2
    <3>. HIDE DEF b
    <3>2. \A j \in 1 .. desc.len :
            Filled(b, n)[j] = IF j \in pos + 1 .. pos + n THEN image[At + j - 1] ELSE b[j]
      BY <1>2, <3>1, FilledFacts, Zenon DEF StoreInv
    <3>3. mem' = [mem EXCEPT ![index] = Filled(b, n)]
      BY <1>5, <2>2, Zenon DEF b
    <3>4. mem'[index] = Filled(b, n) /\ \A d \in Descs : d # index => mem'[d] = mem[d]
      BY <1>2, <3>3, Zenon
    <3>. QED
      BY <1>3, <2>1, <2>2, <3>2, <3>4, Zenon DEF b
  <2>3. CASE ~dma_data
    <3>1. desc.len <= Len(io_buf) /\ io_buf' = Filled(io_buf, n) /\ mem' = mem
      BY <1>2, <1>5, <2>3, Zenon
    <3>2. \A j \in 1 .. Len(io_buf) :
            io_buf'[j] = IF j \in pos + 1 .. pos + n THEN image[At + j - 1] ELSE io_buf[j]
      BY <1>2, <3>1, FilledFacts, Zenon DEF StoreInv
    <3>3. \A j \in 1 .. desc.len : j \in 1 .. Len(io_buf)
      BY <1>2, <3>1
    <3>. QED
      BY <1>3, <2>1, <2>3, <3>1, <3>2, <3>3, Zenon
  <2>. QED
    BY <2>2, <2>3, Zenon
<1>. QED
  BY <1>4, <1>5, Zenon DEF pread

\* What the DMA of a segment does to guest memory, failed or not.
LEMMA DmaWriteEffect ==
  ASSUME ControlInv, StoreInv, BufferInv, dma_write_segment
  PROVE  \/ EndSegment("IOERR") /\ UNCHANGED mem
         \/ /\ EndSegment("IOERR") \/ EndSegment(status)
            /\ \A d \in Descs : d # index => mem'[d] = mem[d]
            /\ \A j \in 1 .. desc.len : mem'[index][j] = ImageByte(At + j - 1)
<1>1. /\ pc = "dma_write" /\ ~dma_data /\ index \in Descs
  BY Zenon DEF dma_write_segment, ControlInv
<1>2. /\ desc.len \in Nat /\ desc.len <= Len(io_buf) /\ io_buf \in Seq(Bytes)
      /\ mem \in [Descs -> Seq(Bytes)]
  BY <1>1, DescNow, Zenon DEF StoreInv, RoomInv, TransferInBounds, ContentInv
<1>. DEFINE part == SubSeq(io_buf, 1, desc.len)
<1>3. \A j \in 1 .. desc.len : part[j] = ImageByte(At + j - 1)
  <2>1. \A j \in 1 .. desc.len : part[j] = io_buf[j]
    BY <1>2
  <2>. QED
    BY <1>1, <2>1, Zenon DEF BufferInv
<1>. HIDE DEF part
<1>4. ASSUME mem' = [mem EXCEPT ![index] = part]
      PROVE  /\ \A d \in Descs : d # index => mem'[d] = mem[d]
             /\ \A j \in 1 .. desc.len : mem'[index][j] = ImageByte(At + j - 1)
  <2>1. mem'[index] = part /\ \A d \in Descs : d # index => mem'[d] = mem[d]
    BY <1>1, <1>2, <1>4, Zenon
  <2>. QED
    BY <1>3, <2>1, Zenon
<1>5. \/ EndSegment("IOERR") /\ UNCHANGED mem
      \/ (EndSegment("IOERR") \/ EndSegment(status)) /\ mem' = [mem EXCEPT ![index] = part]
  BY Zenon DEF dma_write_segment, part
<1>. QED
  BY <1>4, <1>5, Zenon

\* What pwrite does to the image.
LEMMA PwriteEffect ==
  ASSUME ControlInv, StoreInv, BufferInv, pwrite
  PROVE  \/ EndSegment("IOERR") /\ UNCHANGED image
         \/ /\ UNCHANGED <<pc, index, status, data_len>>
            /\ \E n \in 1 .. desc.len - pos :
                 /\ pos' = pos + n
                 /\ \A i \in 0 .. ImageLen - 1 :
                      image'[i] = IF i \in At + pos .. At + pos + n - 1
                                    THEN MemByte(index, i - At + 1) ELSE image[i]
<1>1. /\ pc = "pwrite" /\ req.type = "OUT" /\ pos \in Nat
  BY Zenon DEF pwrite, ControlInv
<1>2. /\ At \in Nat /\ desc.len \in Nat /\ DOMAIN image = 0 .. ImageLen - 1
  BY AtType, DescNow, Zenon DEF StoreInv, ContentInv
<1>3. \A j \in 1 .. desc.len : io_buf[j] = MemByte(index, j)
  BY <1>1, Zenon DEF BufferInv
<1>4. ASSUME NEW n \in 1 .. desc.len - pos,
             image' = [i \in DOMAIN image |->
                        IF i \in At + pos .. At + pos + n - 1 THEN io_buf[i - At + 1]
                                                              ELSE image[i]]
      PROVE  \A i \in 0 .. ImageLen - 1 :
               image'[i] = IF i \in At + pos .. At + pos + n - 1
                             THEN MemByte(index, i - At + 1) ELSE image[i]
  <2>1. ASSUME NEW i \in At + pos .. At + pos + n - 1 PROVE i - At + 1 \in 1 .. desc.len
    BY <1>1, <1>2
  <2>2. \A i \in 0 .. ImageLen - 1 :
          image'[i] = IF i \in At + pos .. At + pos + n - 1 THEN io_buf[i - At + 1]
                                                            ELSE image[i]
    BY <1>2, <1>4, Zenon
  <2>. QED
    BY <1>3, <2>1, <2>2, Zenon
<1>. QED
  BY <1>4, Zenon DEF pwrite, Transferred

-----------------------------------------------------------------------------
\* Outside a transfer the buffers are of no interest.
LEMMA BufferElsewhere ==
  ASSUME pc' \notin {"block", "pread", "dma_write", "pwrite"} PROVE BufferInv'
BY Zenon DEF BufferInv

\* The place of a segment stays the same while the segment is under way.
LEMMA AtKept == ASSUME UNCHANGED <<req, index, data_len>> PROVE At' = At /\ desc' = desc
BY Zenon DEF At, desc, offset, SectorFits

\* io_buf receives the bytes of the segment.
LEMMA BufferDmaRead ==
  ASSUME ControlInv, StoreInv, KeptInv, dma_read_segment PROVE BufferInv'
<1>1. UNCHANGED <<req, index, data_len>> /\ pc = "dma_read" /\ req.type = "OUT"
  BY Zenon DEF dma_read_segment, place, ControlInv
<1>2. CASE pc' = "aborted"
  BY <1>2, BufferElsewhere, Zenon
<1>3. CASE io_buf' = mem[index] \o SubSeq(io_buf, desc.len + 1, Len(io_buf)) /\ pc' = "block"
  <2>1. /\ desc.len \in Nat /\ desc.len <= Len(io_buf) /\ Len(io_buf) \in Nat
        /\ mem[index] \in Seq(Bytes) /\ Len(mem[index]) = desc.len /\ io_buf \in Seq(Bytes)
        /\ index \in Descs /\ desc.len = req.table[index].len
    BY <1>1, DescNow DEF StoreInv, RoomInv, TransferInBounds, ContentInv, ControlInv, desc
  <2>. DEFINE rest == SubSeq(io_buf, desc.len + 1, Len(io_buf))
              data == mem[index]
  <2>2. rest \in Seq(Bytes) /\ data \in Seq(Bytes) /\ Len(data) = desc.len
    BY <2>1, SubSeqFacts
  <2>3. io_buf' = data \o rest
    BY <1>3, Zenon
  <2>4. \A j \in 1 .. desc.len : data[j] = MemByte(index, j)
    <3>1. ~(req.dev = "blk" /\ req.type = "IN")
      BY <1>1, Zenon
    <3>. QED
      BY <2>1, <3>1, Zenon DEF KeptInv
  <2>. HIDE DEF rest, data
  <2>5. \A j \in 1 .. Len(data) : (data \o rest)[j] = data[j]
    BY ONLY <2>2, ConcatFacts, Zenon
  <2>6. \A j \in 1 .. desc.len : io_buf'[j] = MemByte(index, j)
    BY <2>2, <2>3, <2>4, <2>5, Zenon
  <2>. QED
    BY <1>1, <1>3, <2>6, AtKept, Zenon DEF BufferInv
<1>. QED
  BY <1>2, <1>3, Zenon DEF dma_read_segment, Return

\* The checks leave it alone.
LEMMA BufferCheck == ASSUME ControlInv, BufferInv, block_check PROVE BufferInv'
<1>1. CASE pc' = "walk"
  BY <1>1, BufferElsewhere, Zenon
<1>2. CASE pc' = (IF req.type = "IN" THEN "pread" ELSE "pwrite") /\ UNCHANGED place
  <2>1. UNCHANGED <<req, index, data_len, pos, io_buf>> /\ pc = "block" /\ pos = 0
    BY <1>2, Zenon DEF block_check, place, ControlInv
  <2>2. 1 .. 0 = {}
    OBVIOUS
  <2>3. pc' \in {"pread", "pwrite"} /\ (pc' = "pwrite" => req.type = "OUT")
    BY <1>2, RequestFacts, <2>1, Zenon DEF ControlInv, SegmentPcs
  <2>4. pc' = "pwrite" => \A j \in 1 .. desc.len : io_buf[j] = MemByte(index, j)
    BY <2>1, <2>3, Zenon DEF BufferInv
  <2>5. pc' # "dma_write" /\ pc' # "block"
    BY <2>3, Zenon
  <2>. QED
    BY <2>1, <2>2, <2>3, <2>4, <2>5, AtKept, Zenon DEF BufferInv
<1>. QED
  BY <1>1, <1>2, Zenon DEF block_check, EndSegment

\* The bytes read so far are those of the image.
LEMMA BufferPread == ASSUME ControlInv, StoreInv, KeptInv, BufferInv, pread PROVE BufferInv'
<1>1. UNCHANGED <<req, dma_data>> /\ pc = "pread" /\ req.type = "IN" /\ desc.len \in Nat
      /\ pos \in Nat
  BY DescNow, Zenon DEF pread, ControlInv
<1>2. CASE EndSegment("IOERR")
  BY <1>2, BufferElsewhere, Zenon DEF EndSegment
<1>3. ASSUME UNCHANGED <<pc, index, status, data_len>>, NEW n \in 1 .. desc.len - pos,
             pos' = pos + n,
             dma_data => \A j \in 1 .. desc.len :
               mem'[index][j] = IF j \in pos + 1 .. pos + n
                                  THEN ImageByte(At + j - 1) ELSE mem[index][j],
             ~dma_data => \A j \in 1 .. desc.len :
               io_buf'[j] = IF j \in pos + 1 .. pos + n
                              THEN ImageByte(At + j - 1) ELSE io_buf[j]
      PROVE  BufferInv'
  <2>1. ASSUME NEW j \in 1 .. pos'
        PROVE  j \in 1 .. desc.len /\ (j \in pos + 1 .. pos + n \/ j \in 1 .. pos)
    BY <1>1, <1>3
  <2>2. ASSUME NEW j \in 1 .. pos'
        PROVE  (IF dma_data THEN mem'[index] ELSE io_buf')[j] = ImageByte(At + j - 1)
    BY <1>1, <1>3, <2>1, Zenon DEF BufferInv
  <2>3. pc' = "pread" /\ pc' \notin {"dma_write", "block", "pwrite"}
    BY <1>1, <1>3, Zenon
  <2>. QED
    BY <1>1, <1>3, <2>2, <2>3, AtKept, Zenon DEF BufferInv
<1>. QED
  BY <1>2, <1>3, PreadEffect, Zenon

\* All of them have been read.
LEMMA BufferReadDone == ASSUME ControlInv, BufferInv, block_read_done PROVE BufferInv'
<1>1. CASE dma_data
  BY <1>1, BufferElsewhere, Zenon DEF block_read_done, EndSegment
<1>2. CASE ~dma_data
  <2>1. /\ UNCHANGED <<req, index, data_len, io_buf>> /\ pc = "pread" /\ pos = desc.len
        /\ pc' = "dma_write"
    BY <1>2, Zenon DEF block_read_done, place
  <2>2. pc' \notin {"pread", "block", "pwrite"}
    BY <2>1, Zenon
  <2>. QED
    BY <1>2, <2>1, <2>2, AtKept, Zenon DEF BufferInv
<1>. QED
  BY <1>1, <1>2, Zenon

\* The bytes written so far.
LEMMA BufferPwrite == ASSUME ControlInv, StoreInv, BufferInv, pwrite PROVE BufferInv'
<1>1. /\ UNCHANGED <<req, io_buf>> /\ pc = "pwrite" /\ req.type = "OUT" /\ desc.len \in Nat
      /\ pos \in Nat /\ At \in Nat /\ At + desc.len <= ImageLen
  BY DescNow, AtType, Zenon DEF pwrite, ControlInv, StoreInv, RoomInv, TransferInBounds
<1>2. CASE EndSegment("IOERR")
  BY <1>2, BufferElsewhere, Zenon DEF EndSegment
<1>3. ASSUME UNCHANGED <<pc, index, status, data_len>>, NEW n \in 1 .. desc.len - pos,
             pos' = pos + n,
             \A i \in 0 .. ImageLen - 1 :
               image'[i] = IF i \in At + pos .. At + pos + n - 1
                             THEN MemByte(index, i - At + 1) ELSE image[i]
      PROVE  BufferInv'
  <2>1. ASSUME NEW j \in 1 .. pos'
        PROVE  image'[At + j - 1] = MemByte(index, j)
    <3>1. /\ At + j - 1 \in 0 .. ImageLen - 1 /\ (At + j - 1) - At + 1 = j
          /\ At + j - 1 \in At + pos .. At + pos + n - 1 \/ j \in 1 .. pos
      BY <1>1, <1>3, Numbers
    <3>2. j \in 1 .. pos => image[At + j - 1] = MemByte(index, j)
      BY <1>1, Zenon DEF BufferInv
    <3>3. CASE At + j - 1 \in At + pos .. At + pos + n - 1
      <4>1. image'[At + j - 1] = MemByte(index, (At + j - 1) - At + 1)
        BY <1>3, <3>1, <3>3, Zenon
      <4>. QED
        BY <3>1, <4>1, Zenon
    <3>4. CASE At + j - 1 \notin At + pos .. At + pos + n - 1
      BY <1>3, <3>1, <3>2, <3>4, Zenon
    <3>. QED
      BY <3>3, <3>4, Zenon
  <2>2. pc' = "pwrite" /\ pc' \notin {"dma_write", "pread"}
    BY <1>1, <1>3, Zenon
  <2>3. \A j \in 1 .. desc.len : io_buf[j] = MemByte(index, j)
    BY <1>1, Zenon DEF BufferInv
  <2>. QED
    BY <1>1, <1>3, <2>1, <2>2, <2>3, AtKept, Zenon DEF BufferInv
<1>. QED
  BY <1>2, <1>3, PwriteEffect, Zenon

\* The buffer invariant holds at first.
LEMMA BufferInit == ASSUME Init PROVE BufferInv
BY Zenon DEF Init, BufferInv

\* BufferInv is inductive with the others.
LEMMA BufferStep ==
  ControlInv /\ ControlInv' /\ StoreInv /\ KeptInv /\ BufferInv /\ [Next]_vars => BufferInv'
<1>. SUFFICES ASSUME ControlInv, ControlInv', StoreInv, KeptInv, BufferInv, [Next]_vars
              PROVE  BufferInv'
  BY Zenon
<1>1. CASE UNCHANGED vars
  <2>1. UNCHANGED <<req, index, data_len, pc, pos, mem, image, io_buf, dma_data>>
    BY <1>1, Zenon DEF vars, stores, place
  <2>. QED
    BY <2>1, AtKept, Zenon DEF BufferInv
<1>2. CASE Console
  <2>1. pc' \notin {"block", "pread", "dma_write", "pwrite"}
    BY <1>2, Zenon DEF Console, read_tx_desc, read_tx_data, write_tx_data, tx_written, NextTx, Return
  <2>. QED
    BY <2>1, BufferElsewhere, Zenon
<1>3. CASE read_next_desc \/ ensure_io_buf
  <2>1. pc' \notin {"pread", "dma_write", "pwrite"} /\ (pc' = "block" => req'.type = "IN")
    BY <1>3, Zenon DEF read_next_desc, ensure_io_buf, EndSegment, Return
  <2>2. ~(req'.type = "OUT" /\ pc' \in {"block", "pwrite"})
    BY <2>1, Zenon
  <2>. QED
    BY <2>1, <2>2, Zenon DEF BufferInv
<1>4. CASE \/ read_request_header \/ dma_write_segment \/ block_write_done \/ block_flush
           \/ write_status
  <2>1. pc' \notin {"block", "pread", "dma_write", "pwrite"}
    BY <1>4, Zenon DEF read_request_header, dma_write_segment, block_write_done, block_flush,
       write_status, EndSegment, Return
  <2>. QED
    BY <2>1, BufferElsewhere, Zenon
<1>. QED
  BY <1>1, <1>2, <1>3, <1>4, BufferDmaRead, BufferCheck, BufferPread, BufferReadDone,
     BufferPwrite, Zenon DEF Next, Blk

\* The blk part of DataInPlace, memory and image apart.
MemInv ==
  req.dev = "blk" /\ Countable(req) =>
    \A d \in Descs : \A j \in 1 .. req.table[d].len :
      \/ mem[d][j] = MemByte(d, j)
      \/ /\ req.type = "IN" /\ req.table[d].write
         /\ \E k \in Segments(req) :
              Nth(req, k) = d /\ mem[d][j] = ImageByte(Place(req, k) + j - 1)
ImageInv ==
  req.dev = "blk" /\ Countable(req) =>
    \A i \in 0 .. ImageLen - 1 :
      \/ image[i] = ImageByte(i)
      \/ /\ req.type = "OUT" /\ ~req.readonly
         /\ \E k \in Segments(req) : \E j \in 1 .. SegmentLen(req, k) :
              i = Place(req, k) + j - 1 /\ image[i] = MemByte(Nth(req, k), j)

\* All data is in place at first.
LEMMA DataInit == ASSUME Init PROVE MemInv /\ ImageInv
<1>1. \A d \in Descs : \A j \in 1 .. req.table[d].len : mem[d][j] = MemByte(d, j)
  BY Zenon DEF Init
<1>2. \A i \in 0 .. ImageLen - 1 : image[i] = ImageByte(i)
  BY Zenon DEF Init
<1>. QED
  BY <1>1, <1>2, Zenon DEF MemInv, ImageInv

\* The segment under way takes bytes of the image from its own place.
LEMMA MemSegment ==
  ASSUME ControlInv, WalkInv, StatusInv, MemInv, pc \in SegmentPcs, req.type = "IN", req' = req,
         \A d \in Descs : d # index => mem'[d] = mem[d],
         \A j \in 1 .. desc.len : \/ mem'[index][j] = mem[index][j]
                                  \/ mem'[index][j] = ImageByte(At + j - 1)
  PROVE  MemInv'
<1>. SUFFICES ASSUME req.dev = "blk", Countable(req), NEW d \in Descs,
                     NEW j \in 1 .. req.table[d].len
              PROVE  \/ mem'[d][j] = MemByte(d, j)
                     \/ /\ req.type = "IN" /\ req.table[d].write
                        /\ \E k \in Segments(req) :
                             Nth(req, k) = d /\ mem'[d][j] = ImageByte(Place(req, k) + j - 1)
  BY Zenon DEF MemInv
<1>1. \/ mem[d][j] = MemByte(d, j)
      \/ /\ req.type = "IN" /\ req.table[d].write
         /\ \E k \in Segments(req) :
              Nth(req, k) = d /\ mem[d][j] = ImageByte(Place(req, k) + j - 1)
  BY Zenon DEF MemInv
<1>2. CASE mem'[d][j] = mem[d][j]
  BY <1>1, <1>2, Zenon
<1>3. CASE mem'[d][j] # mem[d][j]
  <2>1. d = index
    BY <1>3, Zenon
  <2>2. mem'[d][j] = ImageByte(At + j - 1)
    BY <1>3, <2>1, Zenon DEF desc
  <2>3. /\ At = Place(req, chain_seen) /\ chain_seen \in Segments(req)
        /\ index = Nth(req, chain_seen)
    BY AtPlace, Zenon
  <2>4. desc.write
    BY DescNow, Zenon DEF ControlInv, WrongDirection
  <2>. QED
    BY <2>1, <2>2, <2>3, <2>4, Zenon DEF desc
<1>. QED
  BY <1>2, <1>3, Zenon

\* MemInv is inductive with the others.
LEMMA MemStep ==
  ASSUME ControlInv, StoreInv, WalkInv, KeptInv, StatusInv, BufferInv, MemInv, [Next]_vars
  PROVE  MemInv'
<1>1. CASE pread
  <2>1. req' = req /\ pc \in SegmentPcs /\ req.type = "IN"
    BY <1>1, Zenon DEF pread, SegmentPcs, ControlInv
  <2>2. CASE mem' = mem
    BY <2>1, <2>2, Zenon DEF MemInv
  <2>3. CASE mem' # mem
    <3>1. /\ \A d \in Descs : d # index => mem'[d] = mem[d]
          /\ \A j \in 1 .. desc.len : \/ mem'[index][j] = mem[index][j]
                                      \/ mem'[index][j] = ImageByte(At + j - 1)
      BY <1>1, <2>3, PreadEffect, Zenon
    <3>. QED
      BY <2>1, <3>1, MemSegment, Zenon
  <2>. QED
    BY <2>2, <2>3, Zenon
<1>2. CASE dma_write_segment
  <2>1. req' = req /\ pc \in SegmentPcs /\ req.type = "IN"
    BY <1>2, Zenon DEF dma_write_segment, SegmentPcs, ControlInv
  <2>2. CASE mem' = mem
    BY <2>1, <2>2, Zenon DEF MemInv
  <2>3. CASE mem' # mem
    <3>1. /\ \A d \in Descs : d # index => mem'[d] = mem[d]
          /\ \A j \in 1 .. desc.len : mem'[index][j] = ImageByte(At + j - 1)
      BY <1>2, <2>3, DmaWriteEffect, Zenon
    <3>. QED
      BY <2>1, <3>1, MemSegment, Zenon
  <2>. QED
    BY <2>2, <2>3, Zenon
<1>3. CASE ~(pread \/ dma_write_segment)
  <2>1. req' = req /\ mem' = mem
    BY <1>3, Zenon DEF Next, Blk, Console, vars, stores, read_request_header, read_next_desc,
       ensure_io_buf, dma_read_segment, block_check, block_read_done, pwrite,
       block_write_done, block_flush, write_status, read_tx_desc, read_tx_data,
       write_tx_data, tx_written
  <2>. QED
    BY <2>1, Zenon DEF MemInv
<1>. QED
  BY <1>1, <1>2, <1>3, Zenon

\* ImageInv is inductive with the others.
LEMMA ImageStep ==
  ASSUME ControlInv, StoreInv, WalkInv, StatusInv, BufferInv, ImageInv, [Next]_vars
  PROVE  ImageInv'
<1>1. CASE pwrite
  <2>1. req' = req /\ pc = "pwrite" /\ pc \in SegmentPcs /\ req.type = "OUT" /\ pos \in Nat
        /\ desc.len \in Nat /\ At \in Nat
    BY <1>1, DescNow, AtType, Zenon DEF pwrite, SegmentPcs, ControlInv
  <2>2. CASE image' = image
    BY <2>1, <2>2, Zenon DEF ImageInv
  <2>3. ASSUME NEW n \in 1 .. desc.len - pos,
               \A i \in 0 .. ImageLen - 1 :
                 image'[i] = IF i \in At + pos .. At + pos + n - 1
                               THEN MemByte(index, i - At + 1) ELSE image[i]
        PROVE  ImageInv'
    <3>. SUFFICES ASSUME req.dev = "blk", Countable(req), NEW i \in 0 .. ImageLen - 1
                  PROVE  \/ image'[i] = ImageByte(i)
                         \/ /\ req.type = "OUT" /\ ~req.readonly
                            /\ \E k \in Segments(req) : \E j \in 1 .. SegmentLen(req, k) :
                                 i = Place(req, k) + j - 1 /\ image'[i] = MemByte(Nth(req, k), j)
      BY <2>1, Zenon DEF ImageInv
    <3>1. CASE i \notin At + pos .. At + pos + n - 1
      <4>1. image'[i] = image[i]
        BY <2>3, <3>1, Zenon
      <4>. QED
        BY <4>1, Zenon DEF ImageInv
    <3>2. CASE i \in At + pos .. At + pos + n - 1
      <4>1. image'[i] = MemByte(index, i - At + 1)
        BY <2>3, <3>2, Zenon
      <4>2. /\ At = Place(req, chain_seen) /\ chain_seen \in Segments(req)
            /\ index = Nth(req, chain_seen) /\ SegmentLen(req, chain_seen) = desc.len
        BY <2>1, AtPlace, Zenon
      <4>3. i - At + 1 \in 1 .. desc.len /\ i = At + (i - At + 1) - 1
        BY <2>1, <3>2
      <4>4. Valid(req, chain_seen)
        BY <2>1, Zenon DEF StatusInv, WalkPcs
      <4>5. ~req.readonly
        BY <2>1, <4>4, Zenon DEF Valid
      <4>. QED
        BY <2>1, <4>1, <4>2, <4>3, <4>5, Zenon
    <3>. QED
      BY <3>1, <3>2, Zenon
  <2>. QED
    BY <1>1, <2>2, <2>3, PwriteEffect, Zenon
<1>2. CASE ~pwrite
  <2>1. req' = req /\ image' = image
    BY <1>2, Zenon DEF Next, Blk, Console, vars, stores, read_request_header, read_next_desc,
       ensure_io_buf, dma_read_segment, block_check, pread, block_read_done,
       dma_write_segment, block_write_done, block_flush, write_status, read_tx_desc,
       read_tx_data, write_tx_data, tx_written
  <2>. QED
    BY <2>1, Zenon DEF ImageInv
<1>. QED
  BY <1>1, <1>2, Zenon

-----------------------------------------------------------------------------
(* What a good status means.                                               *)

\* No segment has been passed at first.
LEMMA DoneInit == ASSUME Init PROVE DoneInv
BY Zenon DEF Init, DoneInv, WalkPcs, SegmentPcs, EndPcs

\* A bad status promises nothing.
LEMMA DoneFails == ASSUME status' # "OK" PROVE DoneInv'
BY Zenon DEF DoneInv

\* Nothing is promised outside the walk.
LEMMA DoneElsewhere == ASSUME pc' \notin WalkPcs PROVE DoneInv'
BY Zenon DEF DoneInv

\* A step that moves no data and ends no segment.
LEMMA DoneKept ==
  ASSUME DoneInv, UNCHANGED <<req, mem, image>>, Current' = Current, pc \in WalkPcs,
         status' = "OK" => status = "OK"
  PROVE  DoneInv'
BY Zenon DEF DoneInv, SegmentDone

\* Earlier segments are not the one under way.
LEMMA Earlier ==
  ASSUME ControlInv, WalkInv, StatusInv, req.dev = "blk", Countable(req), Ends(req),
         pc \in SegmentPcs, NEW k \in Segments(req), k < chain_seen
  PROVE  /\ Nth(req, k) \in Descs /\ Nth(req, k) # index
         /\ SegmentLen(req, k) = req.table[Nth(req, k)].len /\ SegmentLen(req, k) \in Nat
         /\ Place(req, k) \in Nat /\ Place(req, k) + SegmentLen(req, k) <= At
         /\ At \in Nat
<1>1. /\ req \in Requests /\ k \in Nat /\ k + 1 \in Nat /\ k + 1 <= chain_seen
      /\ chain_seen \in Nat /\ index \in Descs
  BY Numbers DEF ControlInv, Segments
<1>2. /\ At = Place(req, chain_seen) /\ index = Nth(req, chain_seen)
      /\ Place(req, chain_seen) \in Nat
  BY AtPlace, Zenon
<1>3. Nth(req, k) # Nth(req, chain_seen)
  BY <1>1, <1>2, ChainInjective, Zero, Zenon
<1>4. SegmentLen(req, k) = req.table[Nth(req, k)].len /\ SegmentLen(req, k) \in Nat
  <2>1. IsSegment(req, k)
    BY Zenon DEF Segments
  <2>. QED
    BY <1>1, <2>1, SegmentFacts, Zenon DEF SegmentLen
<1>5. Before(req, k + 1) = Before(req, k) + SegmentLen(req, k) /\ Before(req, k) \in Nat
      /\ Before(req, chain_seen) \in Nat
  BY <1>1, SumFacts, Zenon
<1>6. Before(req, k + 1) <= Before(req, chain_seen)
  BY <1>1, SumGrows, Zenon
<1>7. Start(req) \in Nat
  BY SectorFact, Zenon
<1>8. Nth(req, k) \in Descs
  <2>1. Nth(req, chain_seen) # End
    BY <1>1, <1>2, Zero, Zenon
  <2>2. Nth(req, k) # End
    <3>1. k <= chain_seen
      BY <1>1
    <3>. QED
      BY <1>1, <2>1, <3>1, EndStays, Zenon
  <2>. QED
    BY <1>1, <2>2, ChainFacts, Zenon
<1>9. Place(req, k) \in Nat /\ Place(req, k) + SegmentLen(req, k) <= Place(req, chain_seen)
  BY <1>4, <1>5, <1>6, <1>7 DEF Place
<1>. QED
  BY <1>2, <1>3, <1>4, <1>8, <1>9, Zenon

\* A transfer of the segment under way leaves the earlier ones done.
LEMMA DoneSegment ==
  ASSUME ControlInv, WalkInv, StatusInv, DoneInv, pc \in SegmentPcs, req' = req,
         req.dev = "blk", Countable(req), Ends(req),
         req.type = "IN" => \A d \in Descs : d # index => mem'[d] = mem[d],
         req.type = "OUT" => \A i \in 0 .. ImageLen - 1 : i < At => image'[i] = image[i],
         At <= ImageLen
  PROVE  \A k \in Segments(req) : k < chain_seen => SegmentDone(k)'
<1>. SUFFICES ASSUME NEW k \in Segments(req), k < chain_seen, NEW j \in 1 .. SegmentLen(req, k)
              PROVE  /\ req.type = "IN" =>
                          mem'[Nth(req, k)][j] = ImageByte(Place(req, k) + j - 1)
                     /\ req.type = "OUT" =>
                          image'[Place(req, k) + j - 1] = MemByte(Nth(req, k), j)
  BY Zenon DEF SegmentDone
<1>1. SegmentDone(k)
  <2>1. status = "OK" /\ req.type \in {"IN", "OUT"} /\ pc \in WalkPcs
    BY Zenon DEF ControlInv, WalkPcs
  <2>2. Current = chain_seen
    BY AtPlace, Zenon
  <2>. QED
    BY <2>1, <2>2, Zenon DEF DoneInv
<1>2. /\ Nth(req, k) \in Descs /\ Nth(req, k) # index /\ SegmentLen(req, k) \in Nat
      /\ Place(req, k) \in Nat /\ Place(req, k) + SegmentLen(req, k) <= At /\ At \in Nat
  BY Earlier, Zenon
<1>3. Place(req, k) + j - 1 \in 0 .. ImageLen - 1 /\ Place(req, k) + j - 1 < At
  BY <1>2, Numbers
<1>. QED
  BY <1>1, <1>2, <1>3, Zenon DEF SegmentDone

\* The end of a segment that has been transferred.
LEMMA DoneEndSegment ==
  ASSUME ControlInv, WalkInv, StatusInv, pc \in SegmentPcs,
         UNCHANGED <<req, chain_seen>>, EndSegment(status),
         req.dev = "blk" /\ Countable(req) /\ Ends(req) =>
           /\ \A k \in Segments(req) : k < chain_seen => SegmentDone(k)'
           /\ SegmentDone(chain_seen)'
  PROVE  DoneInv'
<1>. SUFFICES ASSUME req.dev = "blk", Countable(req), Ends(req)
              PROVE  DoneInv'
  BY Zenon DEF DoneInv
<1>1. chain_seen \in 1 .. QueueNum
  BY AtPlace, Zenon
<1>2. Current' = chain_seen + 1
  BY Zenon DEF Current, EndSegment
<1>3. \A k \in Segments(req) : k < chain_seen + 1 => k < chain_seen \/ k = chain_seen
  BY <1>1, Numbers DEF Segments
<1>4. PICK c : c = chain_seen
  BY Zenon
<1>5. \A k \in Segments(req) : k < c + 1 => SegmentDone(k)'
  BY <1>3, <1>4, Zenon DEF SegmentDone
<1>6. Current' = c + 1
  BY <1>2, <1>4, Zenon
<1>. QED
  BY <1>5, <1>6, Zenon DEF DoneInv

\* The actions that move no data.
LEMMA DoneWalk ==
  ASSUME ControlInv, WalkInv, StatusInv, DoneInv,
         \/ read_request_header \/ read_next_desc \/ ensure_io_buf \/ dma_read_segment
         \/ block_check \/ block_flush \/ write_status
  PROVE  DoneInv'
<1>1. UNCHANGED <<req, mem, image>>
  BY Zenon DEF read_request_header, read_next_desc, ensure_io_buf, dma_read_segment,
     block_check, block_flush, write_status, stores
<1>2. CASE pc' = "aborted"
  BY <1>2, DoneElsewhere, Zenon DEF WalkPcs, SegmentPcs, EndPcs
<1>3. CASE read_request_header /\ pc' # "aborted"
  <2>1. chain_seen' = chain_seen /\ pc = "header" /\ pc' = "walk"
    BY <1>3, Zenon DEF read_request_header, Return
  <2>2. req.dev = "blk" => Current' = 1
    BY <2>1 DEF Current, WalkInv
  <2>3. req.dev = "blk" => \A k \in Segments(req) : ~(k < 1)
    BY Numbers DEF Segments, IsSegment
  <2>. QED
    BY <1>1, <2>2, <2>3, Zenon DEF DoneInv
<1>4. CASE read_next_desc /\ pc' # "aborted"
  <2>1. pc = "walk" /\ chain_seen' = chain_seen + 1 /\ pc \in WalkPcs
    BY <1>4, Zenon DEF read_next_desc, Seen, WalkPcs
  <2>2. CASE UNCHANGED place /\ pc' # "walk"
    <3>1. Current' = Current /\ status' = status
      BY <2>1, <2>2, Zenon DEF Current, place
    <3>. QED
      BY <1>1, <2>1, <3>1, DoneKept, Zenon
  <2>3. CASE Skipped /\ EndSegment(SkipStatus)
    <3>1. CASE req.type \in {"IN", "OUT"}
      <4>1. SkipStatus # "OK"
        BY <2>3, <3>1, Zenon DEF SkipStatus, Skipped
      <4>. QED
        BY <2>3, <4>1, DoneFails, Zenon DEF EndSegment
    <3>2. CASE req.type \notin {"IN", "OUT"}
      BY <1>1, <3>2, Zenon DEF DoneInv
    <3>. QED
      BY <3>1, <3>2, Zenon
  <2>4. \/ UNCHANGED place /\ pc' # "walk"
        \/ Skipped /\ EndSegment(SkipStatus)
    BY <1>4, Zenon DEF read_next_desc, Return
  <2>. QED
    BY <2>2, <2>3, <2>4, Zenon
<1>5. CASE /\ ensure_io_buf \/ dma_read_segment \/ block_check \/ block_flush \/ write_status
           /\ pc' # "aborted"
  <2>1. chain_seen' = chain_seen /\ pc \in WalkPcs /\ pc # "walk"
    BY <1>5, Zenon DEF ensure_io_buf, dma_read_segment, block_check, block_flush, write_status, WalkPcs,
       SegmentPcs, EndPcs
  <2>2. status' # "OK" \/ (status' = status /\ pc' # "walk")
    BY <1>5, Zenon DEF ensure_io_buf, dma_read_segment, block_check, block_flush, write_status,
       EndSegment, place, Return
  <2>3. CASE status' # "OK"
    BY <2>3, DoneFails, Zenon
  <2>4. CASE status' = status /\ pc' # "walk"
    <3>1. Current' = Current
      BY <2>1, <2>4, Zenon DEF Current
    <3>. QED
      BY <1>1, <2>1, <2>4, <3>1, DoneKept, Zenon
  <2>. QED
    BY <2>2, <2>3, <2>4, Zenon
<1>. QED
  BY <1>2, <1>3, <1>4, <1>5, Zenon

\* A transfer that goes on.
LEMMA DoneSame ==
  ASSUME StatusInv, pc \in SegmentPcs, UNCHANGED <<req, chain_seen, pc>>,
         req.dev = "blk" /\ Countable(req) /\ Ends(req) =>
           \A k \in Segments(req) : k < chain_seen => SegmentDone(k)'
  PROVE  DoneInv'
<1>1. pc # "walk"
  BY Zenon DEF SegmentPcs
<1>2. Current' = chain_seen
  BY <1>1, Zenon DEF Current
<1>. QED
  BY <1>2, Zenon DEF DoneInv

\* A read leaves the buffers of earlier segments alone: no descriptor comes twice.
LEMMA DonePread ==
  ASSUME ControlInv, StoreInv, WalkInv, KeptInv, StatusInv, DoneInv, pread PROVE DoneInv'
<1>1. /\ UNCHANGED <<req, chain_seen>> /\ pc \in SegmentPcs /\ req.type = "IN"
      /\ req.type # "OUT" /\ At <= ImageLen
  <2>1. pc = "pread" /\ desc.len \in Nat /\ At \in Nat /\ At + desc.len <= ImageLen
    BY DescNow, AtType, Zenon DEF pread, StoreInv, RoomInv, TransferInBounds
  <2>. QED
    BY <2>1, Numbers DEF pread, SegmentPcs, ControlInv
<1>2. CASE EndSegment("IOERR")
  BY <1>2, DoneFails, Zenon DEF EndSegment
<1>3. CASE pc' = pc /\ \A d \in Descs : d # index => mem'[d] = mem[d]
  <2>1. ASSUME req.dev = "blk", Countable(req), Ends(req)
        PROVE  \A k \in Segments(req) : k < chain_seen => SegmentDone(k)'
    BY <1>1, <1>3, <2>1, DoneSegment, Zenon
  <2>. QED
    BY <1>1, <1>3, <2>1, DoneSame, Zenon
<1>. QED
  BY <1>2, <1>3, PreadEffect, Zenon

\* A write leaves the bytes of earlier segments alone: they lie before it.
LEMMA DonePwrite ==
  ASSUME ControlInv, StoreInv, WalkInv, StatusInv, BufferInv, DoneInv, pwrite PROVE DoneInv'
<1>1. /\ UNCHANGED <<req, chain_seen>> /\ pc \in SegmentPcs /\ req.type = "OUT"
      /\ req.type # "IN" /\ At <= ImageLen /\ At \in Nat /\ pos \in Nat
  <2>1. pc = "pwrite" /\ desc.len \in Nat /\ At \in Nat /\ At + desc.len <= ImageLen
    BY DescNow, AtType, Zenon DEF pwrite, StoreInv, RoomInv, TransferInBounds
  <2>. QED
    BY <2>1, Numbers DEF pwrite, SegmentPcs, ControlInv
<1>2. CASE EndSegment("IOERR")
  BY <1>2, DoneFails, Zenon DEF EndSegment
<1>3. ASSUME pc' = pc, NEW n,
             \A i \in 0 .. ImageLen - 1 :
               image'[i] = IF i \in At + pos .. At + pos + n - 1
                             THEN MemByte(index, i - At + 1) ELSE image[i]
      PROVE  DoneInv'
  <2>1. ASSUME NEW i \in 0 .. ImageLen - 1, i < At PROVE image'[i] = image[i]
    <3>1. i \notin At + pos .. At + pos + n - 1
      BY <1>1, <2>1
    <3>. QED
      BY <1>3, <3>1, Zenon
  <2>2. ASSUME req.dev = "blk", Countable(req), Ends(req)
        PROVE  \A k \in Segments(req) : k < chain_seen => SegmentDone(k)'
    BY <1>1, <2>1, <2>2, DoneSegment, Zenon
  <2>. QED
    BY <1>1, <1>3, <2>2, DoneSame, Zenon
<1>. QED
  BY <1>2, <1>3, PwriteEffect, Zenon

\* A segment has been written.
LEMMA DoneWriteDone ==
  ASSUME ControlInv, WalkInv, StatusInv, BufferInv, DoneInv, block_write_done PROVE DoneInv'
<1>1. /\ UNCHANGED <<req, chain_seen, mem, image>> /\ pc \in SegmentPcs /\ req.type = "OUT"
      /\ req.type # "IN" /\ pc = "pwrite" /\ pos = desc.len /\ EndSegment(status)
      /\ status = "OK" /\ pc \in WalkPcs
  BY Zenon DEF block_write_done, SegmentPcs, ControlInv, stores, WalkPcs
<1>2. ASSUME req.dev = "blk", Countable(req), Ends(req)
      PROVE  /\ \A k \in Segments(req) : k < chain_seen => SegmentDone(k)'
             /\ SegmentDone(chain_seen)'
  <2>1. /\ At = Place(req, chain_seen) /\ index = Nth(req, chain_seen) /\ Current = chain_seen
        /\ SegmentLen(req, chain_seen) = desc.len
    BY <1>1, <1>2, AtPlace, Zenon
  <2>2. \A k \in Segments(req) : k < chain_seen => SegmentDone(k)
    BY <1>1, <1>2, <2>1, Zenon DEF DoneInv
  <2>3. SegmentDone(chain_seen)
    BY <1>1, <2>1, Zenon DEF BufferInv, SegmentDone
  <2>. QED
    BY <1>1, <2>2, <2>3, Zenon DEF SegmentDone
<1>. QED
  BY <1>1, <1>2, DoneEndSegment, Zenon

\* A segment has been read.
LEMMA DoneReadDone ==
  ASSUME ControlInv, WalkInv, StatusInv, BufferInv, DoneInv, block_read_done PROVE DoneInv'
<1>1. /\ UNCHANGED <<req, chain_seen, mem, image>> /\ pc \in SegmentPcs /\ req.type = "IN"
      /\ req.type # "OUT" /\ pc = "pread" /\ pos = desc.len /\ status = "OK" /\ pc \in WalkPcs
  BY Zenon DEF block_read_done, SegmentPcs, ControlInv, stores, WalkPcs
<1>2. CASE ~dma_data
  <2>1. Current' = Current /\ status' = status
    BY <1>1, <1>2, Zenon DEF block_read_done, Current, place
  <2>. QED
    BY <1>1, <2>1, DoneKept, Zenon
<1>3. CASE dma_data
  <2>0. EndSegment(status)
    BY <1>3, Zenon DEF block_read_done
  <2>a. ASSUME req.dev = "blk", Countable(req), Ends(req)
        PROVE  /\ \A k \in Segments(req) : k < chain_seen => SegmentDone(k)'
               /\ SegmentDone(chain_seen)'
    <3>1. /\ At = Place(req, chain_seen) /\ index = Nth(req, chain_seen)
          /\ Current = chain_seen /\ SegmentLen(req, chain_seen) = desc.len
      BY <1>1, <2>a, AtPlace, Zenon
    <3>2. \A k \in Segments(req) : k < chain_seen => SegmentDone(k)
      BY <1>1, <2>a, <3>1, Zenon DEF DoneInv
    <3>3. \A j \in 1 .. desc.len : mem[index][j] = ImageByte(At + j - 1)
      BY <1>1, <1>3, Zenon DEF BufferInv
    <3>4. SegmentDone(chain_seen)
      BY <1>1, <3>1, <3>3, Zenon DEF SegmentDone
    <3>. QED
      BY <1>1, <3>2, <3>4, Zenon DEF SegmentDone
  <2>. QED
    BY <1>1, <2>0, <2>a, DoneEndSegment, Zenon
<1>. QED
  BY <1>2, <1>3, Zenon

\* A segment has been read and copied.
LEMMA DoneDmaWrite ==
  ASSUME ControlInv, StoreInv, WalkInv, StatusInv, BufferInv, DoneInv, dma_write_segment
  PROVE  DoneInv'
<1>1. /\ UNCHANGED <<req, chain_seen>> /\ pc \in SegmentPcs /\ req.type = "IN"
      /\ req.type # "OUT" /\ At <= ImageLen
  <2>1. pc = "dma_write" /\ desc.len \in Nat /\ At \in Nat /\ At + desc.len <= ImageLen
    BY DescNow, AtType, Zenon DEF dma_write_segment, StoreInv, RoomInv
  <2>. QED
    BY <2>1, Numbers DEF dma_write_segment, SegmentPcs, ControlInv
<1>2. CASE EndSegment("IOERR")
  BY <1>2, DoneFails, Zenon DEF EndSegment
<1>3. CASE /\ EndSegment(status)
           /\ \A d \in Descs : d # index => mem'[d] = mem[d]
           /\ \A j \in 1 .. desc.len : mem'[index][j] = ImageByte(At + j - 1)
  <2>1. ASSUME req.dev = "blk", Countable(req), Ends(req)
        PROVE  /\ \A k \in Segments(req) : k < chain_seen => SegmentDone(k)'
               /\ SegmentDone(chain_seen)'
    <3>1. /\ At = Place(req, chain_seen) /\ index = Nth(req, chain_seen)
          /\ SegmentLen(req, chain_seen) = desc.len
      BY <1>1, <2>1, AtPlace, Zenon
    <3>2. \A k \in Segments(req) : k < chain_seen => SegmentDone(k)'
      BY <1>1, <1>3, <2>1, DoneSegment, Zenon
    <3>3. SegmentDone(chain_seen)'
      BY <1>1, <1>3, <3>1, Zenon DEF SegmentDone
    <3>. QED
      BY <3>2, <3>3, Zenon
  <2>. QED
    BY <1>1, <1>3, <2>1, DoneEndSegment, Zenon
<1>4. \/ EndSegment("IOERR")
      \/ /\ EndSegment(status)
         /\ \A d \in Descs : d # index => mem'[d] = mem[d]
         /\ \A j \in 1 .. desc.len : mem'[index][j] = ImageByte(At + j - 1)
  BY DmaWriteEffect, Zenon
<1>. QED
  BY <1>2, <1>3, <1>4, Zenon

\* DoneInv is inductive with the others.
LEMMA DoneStep ==
  ASSUME ControlInv, StoreInv, WalkInv, KeptInv, StatusInv, BufferInv, DoneInv, [Next]_vars
  PROVE  DoneInv'
<1>1. CASE UNCHANGED vars
  BY <1>1, Zenon DEF vars, stores, place, DoneInv, Current, SegmentDone
<1>2. CASE Console
  <2>1. req' = req /\ req.dev # "blk"
    BY <1>2, RequestFacts, Zenon DEF Console, read_tx_desc, read_tx_data, write_tx_data, tx_written,
       ControlInv, TxPcs, SegmentPcs, EndPcs
  <2>. QED
    BY <2>1, Zenon DEF DoneInv
<1>. QED
  BY <1>1, <1>2, DoneWalk, DonePread, DonePwrite, DoneWriteDone, DoneReadDone, DoneDmaWrite,
     Zenon DEF Next, Blk

-----------------------------------------------------------------------------
\* The blk part of StatusTruthful; nothing is answered before the end.
TruthInv ==
  /\ AnswerInv
  /\ req.dev = "blk" /\ Countable(req) /\ answer # None =>
       /\ answer = "OK" => Verdict(req) = "OK" /\ \A k \in Segments(req) : SegmentDone(k)
       /\ ~faulty => answer = Verdict(req)

\* There is no answer at first.
LEMMA TruthInit == ASSUME Init PROVE TruthInv
BY Zenon DEF Init, TruthInv, AnswerInv

\* At the end of the chain every segment has been passed.
LEMMA AllPassed ==
  ASSUME ControlInv, WalkInv, req.dev = "blk", pc \in EndPcs
  PROVE  Ends(req) /\ \A k \in Segments(req) : k < Current
<1>1. /\ req \in Requests /\ chain_seen \in 1 .. QueueNum /\ Current = chain_seen
      /\ Position(chain_seen) /\ desc.next = End /\ index \in Descs
  BY Zenon DEF WalkInv, ControlInv, Current, WalkPcs, EndPcs
<1>2. /\ chain_seen \in Nat /\ chain_seen + 1 \in Nat /\ QueueNum + 1 \in Nat
      /\ chain_seen + 1 <= QueueNum + 1
  BY <1>1, Numbers
<1>3. Nth(req, chain_seen + 1) = End
  BY <1>1, <1>2, ChainFacts, Zero, Zenon DEF Position, desc
<1>4. Ends(req)
  BY <1>1, <1>2, <1>3, EndStays, Zenon DEF Ends
<1>5. ASSUME NEW k \in Segments(req) PROVE k < chain_seen
  <2>1. k \in Nat /\ k + 1 \in Nat /\ Nth(req, k + 1) # End
    BY Numbers DEF Segments, IsSegment
  <2>2. ~(chain_seen + 1 <= k + 1)
    BY <1>1, <1>2, <1>3, <2>1, EndStays, Zenon
  <2>. QED
    BY <1>2, <2>1, <2>2
<1>. QED
  BY <1>1, <1>4, <1>5, Zenon

\* The status that is written is the truth.
LEMMA TruthAnswer ==
  ASSUME ControlInv, WalkInv, StatusInv, DoneInv, TruthInv, write_status PROVE TruthInv'
<1>1. /\ UNCHANGED <<req, mem, image>> /\ pc \in EndPcs /\ pc \in WalkPcs /\ answer = None
      /\ pc' \in {"done", "aborted"} /\ (faulty => faulty')
      /\ answer' = answer \/ answer' = status
  <2>1. pc \in {"answer", "flushed"} /\ pc' \in {"done", "aborted"}
    BY Zenon DEF write_status, Return
  <2>2. pc \in EndPcs /\ pc \in WalkPcs /\ pc \notin {"done", "aborted"}
    BY <2>1, Zenon DEF EndPcs, WalkPcs
  <2>3. UNCHANGED <<req, mem, image>> /\ (answer' = answer \/ answer' = status)
    BY Zenon DEF write_status
  <2>4. faulty => faulty'
    BY FaultyStays, Zenon DEF write_status
  <2>. QED
    BY <2>1, <2>2, <2>3, <2>4, Zenon DEF TruthInv, AnswerInv
<1>2. AnswerInv'
  BY <1>1, Zenon DEF AnswerInv
<1>. SUFFICES ASSUME req.dev = "blk", Countable(req), answer' = status
              PROVE  /\ status = "OK" =>
                          Verdict(req) = "OK" /\ \A k \in Segments(req) : SegmentDone(k)
                     /\ ~faulty => status = Verdict(req)
  BY <1>1, <1>2, Zenon DEF TruthInv, SegmentDone
<1>3. Ends(req) /\ \A k \in Segments(req) : k < Current
  BY <1>1, AllPassed, Zenon
<1>4. CASE req.type = "OTHER"
  <2>1. status = "UNSUPP" /\ Verdict(req) = "UNSUPP"
    BY <1>1, <1>4, Zenon DEF StatusInv, Verdict
  <2>. QED
    BY <2>1, Zenon
<1>5. CASE req.type # "OTHER"
  <2>1. /\ status \in {"OK", "IOERR"}
        /\ status = "OK" => Start(req) < OffMod
        /\ status = "OK" /\ req.type # "FLUSH" => \A k \in Segments(req) : Valid(req, k)
        /\ status = "IOERR" => faulty \/ Verdict(req) = "IOERR"
    BY <1>1, <1>3, <1>5, Zenon DEF StatusInv
  <2>2. status = "OK" => Verdict(req) = "OK"
    BY <1>5, <2>1, Zenon DEF Verdict
  <2>3. ASSUME status = "OK" PROVE \A k \in Segments(req) : SegmentDone(k)
    <3>1. CASE req.type \in {"IN", "OUT"}
      BY <1>1, <1>3, <2>3, <3>1, Zenon DEF DoneInv
    <3>2. CASE req.type # "IN" /\ req.type # "OUT"
      BY <3>2, Zenon DEF SegmentDone
    <3>. QED
      BY <3>1, <3>2, Zenon
  <2>. QED
    BY <2>1, <2>2, <2>3, Zenon
<1>. QED
  BY <1>4, <1>5, Zenon

\* TruthInv is inductive with the others.
LEMMA TruthStep ==
  ASSUME ControlInv, WalkInv, StatusInv, DoneInv, TruthInv, [Next]_vars
  PROVE  TruthInv'
<1>1. CASE UNCHANGED vars
  BY <1>1, Zenon DEF vars, stores, TruthInv, AnswerInv, SegmentDone
<1>2. CASE Next /\ ~write_status
  <2>1. pc \notin {"done", "aborted"} /\ answer' = answer
    <3>1. pc \notin {"done", "aborted"}
      BY <1>2, Zenon DEF Next, Blk, Console, read_request_header, read_next_desc, ensure_io_buf,
         dma_read_segment, block_check, pread, block_read_done, dma_write_segment, pwrite,
         block_write_done, block_flush, read_tx_desc, read_tx_data, write_tx_data, tx_written
    <3>2. answer' = answer
      BY <1>2, Zenon DEF Next, Blk, Console, stores, read_request_header, read_next_desc,
         ensure_io_buf, dma_read_segment, block_check, pread, block_read_done,
         dma_write_segment, pwrite, block_write_done, block_flush, read_tx_desc,
         read_tx_data, write_tx_data, tx_written
    <3>. QED
      BY <3>1, <3>2, Zenon
  <2>2. answer' = None
    BY <2>1, Zenon DEF TruthInv, AnswerInv
  <2>. QED
    BY <2>2, Zenon DEF TruthInv, AnswerInv
<1>. QED
  BY <1>1, <1>2, TruthAnswer, Zenon

\* The inductive invariant of a request, complete.
LEMMA RequestInvAlways ==
  Spec => [](/\ ControlInv /\ StoreInv /\ WalkInv /\ KeptInv /\ TxInv /\ StatusInv /\ BufferInv
             /\ MemInv /\ ImageInv /\ DoneInv /\ TruthInv)
<1>. DEFINE I == StatusInv /\ BufferInv /\ MemInv /\ ImageInv /\ DoneInv /\ TruthInv
            C == ControlInv /\ StoreInv /\ WalkInv /\ KeptInv /\ TxInv
<1>1. Init => I
  BY StatusInit, BufferInit, DataInit, DoneInit, TruthInit, Zenon
<1>2. C /\ C' /\ I /\ [Next]_vars => I'
  BY StatusStep, BufferStep, MemStep, ImageStep, DoneStep, TruthStep, Zenon
<1>3. Spec => []C
  BY ChainInvAlways, Zenon
<1>4. Spec => []I
  BY <1>1, <1>2, <1>3, PTL DEF Spec
<1>. QED
  BY <1>3, <1>4, PTL

\* Every byte that process_chain or process_tx_chain puts anywhere is the one that
\* belongs there: guest memory, the image and the console's output hold at every moment
\* only old bytes and bytes of the right segment at the right offset, for every table of
\* descriptors, every size of the image and every pattern of short and failed transfers.
THEOREM DataInPlaceAlways == Spec => []DataInPlace
<1>1. MemInv /\ ImageInv /\ TxInv => DataInPlace
  BY Zenon DEF MemInv, ImageInv, TxInv, OutputInv, DataInPlace
<1>. QED
  BY <1>1, RequestInvAlways, PTL

\* The status byte tells the truth for every request: VIRTIO_BLK_S_OK means a valid
\* request and all of its bytes transferred, and where nothing failed the status is the
\* verdict.  A console chain that is completed was written in full.
THEOREM StatusTruthfulAlways == Spec => []StatusTruthful
<1>1. TruthInv /\ TxInv => StatusTruthful
  BY Zenon DEF TruthInv, TxInv, StatusTruthful
<1>. QED
  BY <1>1, RequestInvAlways, PTL

\* The used length of a block request is the number of bytes the device has written,
\* for every chain that can be counted and whatever fails, but for a read that failed:
\* all segments and the status byte after a successful read, and the status byte alone,
\* with the driver's buffers untouched, after every other request.
THEOREM UsedLenExactAlways == Spec => []UsedLenExact
<1>1. ASSUME ControlInv, WalkInv, MemInv, TruthInv
      PROVE  UsedLenExact
  <2>. SUFFICES ASSUME pc = "done", req.dev = "blk", Total(req) + 1 < LenMod
                PROVE  /\ req.type = "IN" /\ answer = "OK" =>
                            /\ used_len = Total(req) + 1
                            /\ \A k \in Segments(req) :
                                 req.table[Nth(req, k)].write /\ SegmentDone(k)
                       /\ req.type # "IN" =>
                            /\ used_len = 1
                            /\ \A d \in Descs : \A j \in 1 .. req.table[d].len :
                                 mem[d][j] = MemByte(d, j)
    BY Zenon DEF UsedLenExact
  <2>1. Total(req) \in Nat /\ LenMod \in Nat
    <3>1. QueueNum + 1 \in Nat /\ req \in Requests /\ LenMod \in Nat
      BY <1>1, Numbers DEF ControlInv
    <3>. QED
      BY <3>1, SumFacts, Zenon DEF Total
  <2>2. Countable(req)
    BY <2>1 DEF Countable
  <2>3. used_len = IF req.type = "IN" THEN (Total(req) + 1) % LenMod ELSE 1
    BY <1>1, UsedLenSum, Zenon
  <2>4. req.type = "IN" => used_len = Total(req) + 1
    <3>1. (Total(req) + 1) % LenMod = Total(req) + 1
      BY <2>1
    <3>. QED
      BY <2>3, <3>1, Zenon
  <2>5. ASSUME req.type = "IN", answer = "OK", NEW k \in Segments(req)
        PROVE  req.table[Nth(req, k)].write /\ SegmentDone(k)
    <3>1. answer # None
      BY <2>5, Zenon DEF None
    <3>2. Verdict(req) = "OK" /\ SegmentDone(k)
      BY <1>1, <2>2, <2>5, <3>1, Zenon DEF TruthInv, AnswerInv
    <3>3. Valid(req, k)
      BY <2>5, <3>2, Zenon DEF Verdict
    <3>. QED
      BY <2>5, <3>2, <3>3, Zenon DEF Valid
  <2>6. ASSUME req.type # "IN", NEW d \in Descs, NEW j \in 1 .. req.table[d].len
        PROVE  mem[d][j] = MemByte(d, j)
    BY <1>1, <2>2, <2>6, Zenon DEF MemInv
  <2>. QED
    BY <2>3, <2>4, <2>5, <2>6, Zenon
<1>2. ControlInv /\ WalkInv /\ MemInv /\ TruthInv => UsedLenExact
  BY <1>1, Zenon
<1>. QED
  BY <1>2, RequestInvAlways, PTL
=============================================================================

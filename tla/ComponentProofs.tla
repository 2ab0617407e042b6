-------------------------- MODULE ComponentProofs ---------------------------
(***************************************************************************)
(* The block allocator of one storage server, and how requests are cut     *)
(* into blocks, for every region, block size and number of blocks; and the *)
(* types of all the parts that Components puts side by side.               *)
(***************************************************************************)
EXTENDS Components, IdTableProofs, BlockPlanProofs, RdmaProofs

-----------------------------------------------------------------------------
(* The geometry of a region. *)

(* uint64_t arithmetic: a number is wrapped by a multiple of Word. *)
LEMMA WrapBy ==
  ASSUME NEW n \in Int
  PROVE  /\ Wrap(n) \in 0 .. Word - 1
         /\ n \div Word \in Int
         /\ Wrap(n) = n - Word * (n \div Word)
<1>1. n % Word \in 0 .. Word - 1 /\ n \div Word \in Int
  BY WordAssumption
<1>2. n = Word * (n \div Word) + (n % Word)
  BY WordAssumption
<1>3. Word * (n \div Word) \in Int
  BY <1>1, WordAssumption
<1> QED
  BY <1>1, <1>2, <1>3 DEF Wrap

(* A number that is in range already stays as it is. *)
LEMMA WrapSame ==
  ASSUME NEW n \in 0 .. Word - 1
  PROVE  Wrap(n) = n
  BY WordAssumption DEF Wrap

(* The remainder of a multiple of the block size and a bit. *)
LEMMA BlockRemainder ==
  ASSUME NEW k \in Int, NEW r \in 0 .. FILE_BLOCK_SIZE - 1, NEW x \in Int,
         x = FILE_BLOCK_SIZE * k + r
  PROVE  x % FILE_BLOCK_SIZE = r
<1> DEFINE B == FILE_BLOCK_SIZE
           q == x \div B
           s == x % B
<1> USE PlanBlockSizeAssumption
<1>1. q \in Int /\ s \in 0 .. B - 1 /\ x = B * q + s
  OBVIOUS
<1> HIDE DEF q, s
<1>2. B * q \in Int /\ B * k \in Int /\ B * (q - k) = B * q - B * k
  BY <1>1
<1>3. B * (q - k) = r - s
  BY <1>1, <1>2
<1>4. CASE q = k
  BY <1>1, <1>4 DEF s
<1>5. CASE q > k
  <2>1. PICK d \in Nat : q - k = 1 + d
    <3>1. q - k - 1 \in Nat /\ q - k = 1 + (q - k - 1)
      BY <1>1, <1>5
    <3> QED
      BY <3>1
  <2>2. B * (q - k) = B + B * d /\ B * d \in Nat
    BY <2>1
  <2> QED
    BY <1>1, <1>3, <2>2
<1>6. CASE q < k
  <2>1. PICK d \in Nat : q - k = - 1 - d
    <3>1. k - q - 1 \in Nat /\ q - k = - 1 - (k - q - 1)
      BY <1>1, <1>6
    <3> QED
      BY <3>1
  <2>2. B * (q - k) = - B - B * d /\ B * d \in Nat
    BY <2>1
  <2> QED
    BY <1>1, <1>3, <2>2
<1> QED
  BY <1>1, <1>4, <1>5, <1>6

(* space_start_ is the next block boundary, wrapped around or not. *)
LEMMA Alignment ==
  ASSUME NEW a \in Nat
  PROVE  \E g \in 0 .. FILE_BLOCK_SIZE - 1, m \in Int :
           AlignedStart(a) = a + g + Word * m
<1> DEFINE B == FILE_BLOCK_SIZE
           qa == a \div B
           ra == a % B
<1> USE PlanBlockSizeAssumption, WordAssumption
<1>1. qa \in Nat /\ ra \in 0 .. B - 1 /\ a = B * qa + ra
  BY Division
<1>2. CASE ra = 0
  <2>1. AlignedStart(a) = a + 0 + Word * 0
    BY <1>2 DEF AlignedStart
  <2>2. 0 \in 0 .. B - 1 /\ 0 \in Int
    OBVIOUS
  <2> QED
    BY <2>1, <2>2, Zenon
<1>3. CASE ra # 0
  <2> DEFINE up == Wrap(a + B)
             j == (a + B) \div Word
             w == Word \div B
  <2>1. up \in Nat /\ j \in Int /\ up = a + B - Word * j
    BY WrapBy
  <2>2. w \in Int /\ Word = B * w
    <3>1. Word = B * (Word \div B) + (Word % B) /\ Word \div B \in Nat
      BY Division
    <3>2. B * (Word \div B) \in Int
      BY <3>1
    <3> QED
      BY <3>1, <3>2, RegionAssumption
  <2> HIDE DEF qa, ra, up, j, w
  <2>3. up = B * (qa + 1 - w * j) + ra
    <3>1. w * j \in Int /\ Word * j = B * (w * j) /\ B * (w * j) \in Int
      BY <2>1, <2>2
    <3>2. B * (qa + 1 - w * j) = B * qa + B - B * (w * j) /\ B * qa \in Int
      BY <1>1, <3>1
    <3> QED
      BY <1>1, <2>1, <3>1, <3>2
  <2>4. up % B = ra
    <3>1. qa + 1 - w * j \in Int
      BY <1>1, <2>1, <2>2
    <3> QED
      BY <1>1, <2>1, <2>3, <3>1, BlockRemainder
  <2>5. AlignedStart(a) = up - ra
    BY <1>3, <2>4 DEF AlignedStart, up, ra
  <2>6. /\ B - ra \in 0 .. B - 1 /\ - j \in Int
        /\ AlignedStart(a) = a + (B - ra) + Word * (- j)
    <3>1. Word * j \in Int /\ Word * (- j) = - (Word * j)
      BY <2>1
    <3> QED
      BY <1>1, <1>3, <2>1, <2>5, <3>1
  <2> QED
    BY <2>6
<1> QED
  BY <1>2, <1>3

(* Multiples of Word, for the steps below. *)
LEMMA WordMultiple ==
  ASSUME NEW m \in Int
  PROVE  /\ Word * m \in Int
         /\ m <= 0 => Word * m <= 0
         /\ m > 0 => Word * m >= Word
<1> USE WordAssumption
<1>1. Word * m \in Int
  OBVIOUS
<1>2. ASSUME m <= 0 PROVE Word * m <= 0
  <2>1. - m \in Nat /\ Word * (- m) \in Nat /\ Word * m = - (Word * (- m))
    BY <1>2
  <2> QED
    BY <2>1
<1>3. ASSUME m > 0 PROVE Word * m >= Word
  <2>1. m - 1 \in Nat /\ Word * (m - 1) \in Nat
    BY <1>3
  <2>2. Word * m = Word + Word * (m - 1)
    OBVIOUS
  <2> QED
    BY <2>1, <2>2
<1> QED
  BY <1>1, <1>2, <1>3

(* The blocks of a region, from offset 0 on, lie within its length,        *)
(* wherever it begins and whether or not its end wraps around.             *)
LEMMA BlocksFitRegion ==
  ASSUME NEW a \in Nat, NEW l \in Nat, Constructible(a, l)
  PROVE  /\ TotalBlocks(a, l) \in 0 .. MaxBlocks
         /\ TotalBlocks(a, l) * FILE_BLOCK_SIZE <= l
<1> DEFINE B == FILE_BLOCK_SIZE
           e == Wrap(a + l - 1)
           i == (a + l - 1) \div Word
           s == AlignedStart(a)
           x == e - s + 1
           v == Wrap(x)
           k == x \div Word
           t == TotalBlocks(a, l)
<1> USE PlanBlockSizeAssumption, WordAssumption
<1>1. PICK g \in 0 .. B - 1, m \in Int : s = a + g + Word * m
  BY Alignment
<1>2. e \in Int /\ i \in Int /\ e = a + l - 1 - Word * i
  BY WrapBy
<1>3. Word * m \in Int /\ Word * i \in Int
  BY <1>2, WordMultiple
<1>4. s \in Int
  BY <1>1, <1>3
<1>5. v \in 0 .. Word - 1 /\ k \in Int /\ v = e - s + 1 - Word * k
  <2>1. x \in Int
    BY <1>2, <1>4
  <2>2. v \in 0 .. Word - 1 /\ k \in Int /\ v = x - Word * k
    BY <2>1, WrapBy, Zenon
  <2> HIDE DEF e, s, v, k
  <2> QED
    BY <1>2, <1>4, <2>2, WordMultiple DEF x
<1>6. t = v \div B
  BY DEF TotalBlocks
<1> HIDE DEF e, i, s, x, v, k, t
<1>7. v = l - g + Word * (- i - m - k)
  <2>1. Word * k \in Int
    BY <1>5, WordMultiple
  <2>2. Word * (- i - m - k) = - (Word * i) - (Word * m) - (Word * k)
    BY <1>2, <1>5
  <2> QED
    BY <1>1, <1>2, <1>3, <1>5, <2>1, <2>2
<1>8. t \in Nat /\ v % B \in 0 .. B - 1 /\ v = B * t + (v % B) /\ B * t \in Nat
  <2>1. t \in Nat /\ v % B \in 0 .. B - 1 /\ v = B * t + (v % B)
    BY <1>5, <1>6, Division
  <2> QED
    BY <2>1
<1>9. t <= MaxBlocks
  BY DEF Constructible, t
<1>10. CASE - i - m - k <= 0
  <2>1. Word * (- i - m - k) <= 0 /\ Word * (- i - m - k) \in Int
    BY <1>2, <1>5, <1>10, WordMultiple
  <2>2. B * t <= l
    BY <1>7, <1>8, <2>1
  <2> QED
    BY <1>8, <1>9, <2>2 DEF t
<1>11. CASE - i - m - k > 0
  <2>1. Word * (- i - m - k) >= Word /\ Word * (- i - m - k) \in Int
    BY <1>2, <1>5, <1>11, WordMultiple
  <2>2. B * t > Word - B - B
    BY <1>7, <1>8, <2>1
  <2>3. (MaxBlocks + 2) * B = B * MaxBlocks + B + B /\ B * MaxBlocks \in Nat
    OBVIOUS
  <2>4. B * MaxBlocks < B * t
    BY <1>8, <2>2, <2>3, RegionAssumption
  <2>5. MaxBlocks < t
    BY <1>8, <2>4, FewerBlocks
  <2> QED
    BY <1>8, <1>9, <2>5
<1> QED
  BY <1>2, <1>5, <1>10, <1>11

-----------------------------------------------------------------------------
(* The allocator. *)

(* Pool p is in order when callers hold the blocks in t and the region is  *)
(* n bytes long.                                                           *)
PoolOK(p, t, n) ==
  /\ t \subseteq 0 .. p.total - 1
  /\ p.total * FILE_BLOCK_SIZE <= n
  /\ ~ p.wild => /\ p.inused = t
                 /\ p.cur = Cardinality(t)
                 /\ \A b \in Block : p.free[b] =
                      IF b < p.total /\ b \notin t THEN 1 ELSE 0

SpaceInv == /\ ClientTypeOK
            /\ \A s \in Registered : PoolOK(pool[s], taken[s], span[s])

(* What callers hold is finite, and cur_blocks_ can count it. *)
LEMMA HeldBlocks ==
  ASSUME NEW p \in Pool, NEW t \in SUBSET (0 .. p.total - 1)
  PROVE  /\ IsFiniteSet(t) /\ Cardinality(t) \in 0 .. p.total
         /\ Cardinality(t) \in 0 .. Word - 1
<1>1. p.total \in Nat /\ p.total <= MaxBlocks
  BY WordAssumption DEF Pool
<1>2. IsFiniteSet(0 .. p.total - 1) /\ Cardinality(0 .. p.total - 1) = p.total
  <2> DEFINE m == p.total
  <2>1. 0 \in Int /\ m - 1 \in Int /\ (0 > m - 1 => m = 0) /\ m - 1 - 0 + 1 = m
    BY <1>1
  <2> HIDE DEF m
  <2>2. IsFiniteSet(0 .. m - 1) /\ Cardinality(0 .. m - 1) = m
    BY <2>1, FS_Interval
  <2> QED
    BY <2>2 DEF m
<1>3. IsFiniteSet(t) /\ Cardinality(t) <= p.total
  BY <1>2, FS_Subset
<1>4. Cardinality(t) \in Nat
  BY <1>3, FS_CardinalityType
<1> QED
  BY <1>1, <1>3, <1>4, WordAssumption

(* A new SpaceManager. *)
LEMMA NewPoolOK ==
  ASSUME NEW a \in Nat, NEW l \in Nat, Constructible(a, l)
  PROVE  NewPool(a, l) \in Pool /\ PoolOK(NewPool(a, l), {}, l)
<1> DEFINE n == TotalBlocks(a, l)
<1>1. n \in 0 .. MaxBlocks /\ n * FILE_BLOCK_SIZE <= l
  BY BlocksFitRegion
<1> HIDE DEF n
<1>2. NewPool(a, l) = [total |-> n, free |-> HeapOf(Block, 0 .. n - 1),
                       inused |-> {}, cur |-> 0, wild |-> FALSE]
  BY DEF NewPool, n
<1>3. HeapOf(Block, 0 .. n - 1) \in HeapOver(Block)
  BY DEF HeapOf, HeapOver
<1>4. NewPool(a, l) \in Pool
  BY <1>1, <1>2, <1>3, WordAssumption DEF Pool
<1>5. \A b \in Block : HeapOf(Block, 0 .. n - 1)[b] = IF b < n THEN 1 ELSE 0
  BY <1>1 DEF HeapOf, Block
<1> QED
  BY <1>1, <1>2, <1>4, <1>5, FS_EmptySet DEF PoolOK

(* AllocateOneBlock from a heap that holds the block. *)
LEMMA TakenOK ==
  ASSUME NEW p \in Pool, NEW t, NEW n \in Nat, PoolOK(p, t, n), ~ p.wild,
         NEW b \in Block, IsTop(p.free, b)
  PROVE  Taken(p, b) \in Pool /\ PoolOK(Taken(p, b), t \cup {b}, n)
<1>1. p.free \in [Block -> Nat] /\ p.total \in Nat
  BY DEF Pool, HeapOver
<1>2. b < p.total /\ b \notin t /\ p.free[b] = 1
  BY <1>1 DEF PoolOK, IsTop, HeapHolds
<1>3. t \cup {b} \subseteq 0 .. p.total - 1
  <2>1. t \subseteq 0 .. p.total - 1
    BY Zenon DEF PoolOK
  <2>2. b \in 0 .. p.total - 1
    BY <1>1, <1>2, WordAssumption DEF Block
  <2> QED
    BY <2>1, <2>2
<1>4. /\ IsFiniteSet(t) /\ Cardinality(t) \in Nat
      /\ Cardinality(t \cup {b}) = Cardinality(t) + 1
      /\ Cardinality(t \cup {b}) \in 0 .. Word - 1
  <2>1. IsFiniteSet(t) /\ Cardinality(t) \in Nat
    BY <1>1, HeldBlocks DEF PoolOK
  <2> QED
    BY <1>2, <1>3, <2>1, HeldBlocks, FS_AddElement
<1>5. Wrap(p.cur + 1) = Cardinality(t \cup {b})
  BY <1>4, WrapSame DEF PoolOK
<1>6. Pop(p.free, b) \in [Block -> Nat]
  BY <1>1, <1>2 DEF Pop
<1>7. \A c \in Block : Pop(p.free, b)[c] =
        IF c < p.total /\ c \notin t \cup {b} THEN 1 ELSE 0
  BY <1>1, <1>2 DEF Pop, PoolOK
<1>8. Taken(p, b) = [p EXCEPT !.free = Pop(p.free, b),
                              !.inused = p.inused \cup {b},
                              !.cur = Cardinality(t \cup {b})]
  BY <1>5 DEF Taken, Pool
<1>9. Taken(p, b) \in Pool
  BY <1>4, <1>6, <1>8 DEF Pool, HeapOver
<1>10. /\ Taken(p, b).total = p.total /\ Taken(p, b).free = Pop(p.free, b)
       /\ Taken(p, b).inused = p.inused \cup {b}
       /\ Taken(p, b).cur = Cardinality(t \cup {b})
  BY <1>8 DEF Pool
<1> QED
  BY <1>3, <1>7, <1>9, <1>10 DEF PoolOK

(* AllocateSpace from a heap that holds the blocks. *)
LEMMA TakenManyOK ==
  ASSUME NEW p \in Pool, NEW t, NEW n \in Nat, PoolOK(p, t, n), ~ p.wild,
         NEW res \in SUBSET Block, \A b \in res : HeapHolds(p.free, b)
  PROVE  LET f == [b \in Block |-> p.free[b] - (IF b \in res THEN 1 ELSE 0)]
             p2 == [p EXCEPT !.free = f, !.inused = @ \cup res,
                             !.cur = Wrap(@ + Cardinality(res))]
         IN  p2 \in Pool /\ PoolOK(p2, t \cup res, n)
<1> DEFINE f == [b \in Block |-> p.free[b] - (IF b \in res THEN 1 ELSE 0)]
           p2 == [p EXCEPT !.free = f, !.inused = @ \cup res,
                           !.cur = Wrap(@ + Cardinality(res))]
<1>1. p.free \in [Block -> Nat] /\ p.total \in Nat
  BY DEF Pool, HeapOver
<1>2. \A b \in res : b < p.total /\ b \notin t /\ p.free[b] = 1
  BY <1>1 DEF PoolOK, HeapHolds
<1>3. t \in SUBSET (0 .. p.total - 1) /\ res \in SUBSET (0 .. p.total - 1)
  <2>1. t \subseteq 0 .. p.total - 1
    BY Zenon DEF PoolOK
  <2>2. res \subseteq 0 .. p.total - 1
    BY <1>1, <1>2, WordAssumption DEF Block
  <2> QED
    BY <2>1, <2>2
<1>4. /\ Cardinality(t \cup res) = Cardinality(t) + Cardinality(res)
      /\ Cardinality(t \cup res) \in 0 .. Word - 1
  <2>1. t \cup res \in SUBSET (0 .. p.total - 1) /\ t \cap res = {}
    BY <1>2, <1>3
  <2>2. /\ IsFiniteSet(t) /\ Cardinality(t) \in Nat
        /\ IsFiniteSet(res) /\ Cardinality(res) \in Nat
    BY <1>3, HeldBlocks
  <2>3. Cardinality(t \cup res) =
          Cardinality(t) + Cardinality(res) - Cardinality(t \cap res)
    BY <2>2, FS_Union
  <2> QED
    BY <2>1, <2>2, <2>3, HeldBlocks, FS_EmptySet
<1>5. Wrap(p.cur + Cardinality(res)) = Cardinality(t \cup res)
  BY <1>4, WrapSame DEF PoolOK
<1>6. f \in [Block -> Nat]
  BY <1>1, <1>2
<1>7. \A c \in Block : f[c] =
        IF c < p.total /\ c \notin t \cup res THEN 1 ELSE 0
  BY <1>1, <1>2 DEF PoolOK
<1> HIDE DEF f
<1>8. /\ p2.total = p.total /\ p2.free = f /\ p2.inused = p.inused \cup res
      /\ p2.cur = Cardinality(t \cup res) /\ p2.wild = p.wild
  BY <1>5 DEF Pool
<1>9. p2 \in Pool
  <2>1. p.inused \cup res \in SUBSET Block
    BY DEF Pool
  <2> QED
    BY <1>4, <1>5, <1>6, <2>1 DEF Pool, HeapOver
<1> HIDE DEF p2
<1>10. PoolOK(p2, t \cup res, n)
  BY <1>3, <1>7, <1>8 DEF PoolOK
<1> QED
  BY <1>9, <1>10 DEF p2, f

(* ReclaimSpace of blocks the caller holds. *)
LEMMA ReturnedOK ==
  ASSUME NEW p \in Pool, NEW t, NEW n \in Nat, PoolOK(p, t, n),
         NEW res \in SUBSET t
  PROVE  LET p2 == Returned(p, HeapOf(Block, res), Cardinality(res))
         IN  p2 \in Pool /\ PoolOK(p2, t \ res, n)
<1> DEFINE times == HeapOf(Block, res)
           m == Cardinality(res)
           f == [b \in Block |-> p.free[b] + times[b]]
           p2 == Returned(p, times, m)
<1>1. /\ p.free \in [Block -> Nat] /\ p.total \in Nat /\ p.cur \in Nat
      /\ p.inused \subseteq Block
  BY WordAssumption DEF Pool, HeapOver
<1>2. t \in SUBSET (0 .. p.total - 1) /\ res \in SUBSET (0 .. p.total - 1)
  BY Zenon DEF PoolOK
<1>3. /\ IsFiniteSet(t) /\ Cardinality(t) \in Nat
      /\ IsFiniteSet(res) /\ m \in Nat
      /\ Cardinality(t \ res) = Cardinality(t) - m
      /\ Cardinality(t \ res) \in 0 .. Word - 1
  <2>1. /\ IsFiniteSet(t) /\ Cardinality(t) \in Nat
        /\ IsFiniteSet(res) /\ m \in Nat
    BY <1>2, HeldBlocks
  <2>2. t \cap res = res /\ t \ res \in SUBSET (0 .. p.total - 1)
    BY <1>2
  <2>3. Cardinality(t \ res) = Cardinality(t) - Cardinality(t \cap res)
    BY <2>1, FS_Difference
  <2> QED
    BY <2>1, <2>2, <2>3, HeldBlocks
<1>4. times \in [Block -> Nat] /\ \A b \in Block : times[b] = 0 <=> b \notin res
  BY DEF HeapOf
<1> HIDE DEF times, m
<1>5. Wrap(p.cur - m) \in 0 .. Word - 1
  BY <1>1, <1>3, WrapBy
<1>6. f \in HeapOver(Block)
  BY <1>1, <1>4 DEF HeapOver
<1> HIDE DEF f
<1>7. {b \in p.inused : times[b] = 0} \in SUBSET Block
  BY <1>1
<1>8. /\ p2.total = p.total /\ p2.wild = p.wild
      /\ p2.free = IF p.wild THEN p.free ELSE f
      /\ p2.inused = {b \in p.inused : times[b] = 0}
      /\ p2.cur = Wrap(p.cur - m)
  BY DEF Returned, Pool, f
<1>9. p2 \in Pool
  BY <1>1, <1>5, <1>6, <1>7 DEF Returned, Pool, f
<1> HIDE DEF p2
<1>10. ASSUME ~ p.wild
       PROVE  /\ p2.inused = t \ res
              /\ p2.cur = Cardinality(t \ res)
              /\ \A b \in Block : p2.free[b] =
                   IF b < p2.total /\ b \notin t \ res THEN 1 ELSE 0
  <2>1. /\ p.inused = t /\ p.cur = Cardinality(t)
        /\ \A b \in Block : p.free[b] = IF b < p.total /\ b \notin t THEN 1 ELSE 0
    BY <1>10 DEF PoolOK
  <2>2. p2.inused = t \ res
    BY <1>1, <1>4, <1>8, <2>1
  <2>3. p2.cur = Cardinality(t \ res)
    <3>1. p.cur - m = Cardinality(t \ res)
      BY <1>3, <2>1
    <3> QED
      BY <1>3, <1>8, <3>1, WrapSame
  <2>4. \A b \in Block : p2.free[b] = p.free[b] + (IF b \in res THEN 1 ELSE 0)
    BY <1>8, <1>10 DEF f, times, HeapOf
  <2>5. \A b \in res : b < p.total
    BY <1>1, <1>2
  <2> QED
    BY <1>8, <2>1, <2>2, <2>3, <2>4, <2>5
<1>11. t \ res \subseteq 0 .. p2.total - 1
  BY <1>2, <1>8
<1> QED
  BY <1>8, <1>9, <1>10, <1>11 DEF PoolOK, p2, times, m

(* A step that changes the pool of one server and what is held of it. *)
LEMMA OneServerStep ==
  ASSUME SpaceInv, NEW s \in Server, NEW p \in Pool, NEW t \in SUBSET Block,
         NEW n \in Nat, PoolOK(p, t, n),
         pool' = [pool EXCEPT ![s] = p],
         taken' = [taken EXCEPT ![s] = t],
         span' = [span EXCEPT ![s] = n]
  PROVE  SpaceInv'
<1>1. ClientTypeOK'
  BY DEF SpaceInv, ClientTypeOK, SpaceTypeOK
<1>2. ASSUME NEW r \in Server, pool'[r] # NoPool
      PROVE  PoolOK(pool'[r], taken'[r], span'[r])
  <2>1. CASE r = s
    <3>1. pool'[r] = p /\ taken'[r] = t /\ span'[r] = n
      BY <2>1 DEF SpaceInv, ClientTypeOK, SpaceTypeOK
    <3> QED
      BY <3>1
  <2>2. CASE r # s
    <3>1. pool'[r] = pool[r] /\ taken'[r] = taken[r] /\ span'[r] = span[r]
      BY <2>2 DEF SpaceInv, ClientTypeOK, SpaceTypeOK
    <3> QED
      BY <1>2, <3>1 DEF SpaceInv, Registered
  <2> QED
    BY <2>1, <2>2
<1> QED
  BY <1>1, <1>2 DEF SpaceInv, Registered, PoolOK

(* A region is registered, or the range of a pool is set anew. *)
LEMMA RegisterKeepsInv ==
  ASSUME SpaceInv, NEW s \in Server, NEW a \in Addresses, NEW l \in Lengths,
         Register(s, a, l) \/ Reset(s, a, l)
  PROVE  SpaceInv'
<1>0. a \in Nat /\ l \in Nat
  BY RegionAssumption
<1>1. /\ Constructible(a, l) /\ taken[s] = {} /\ taken' = taken
      /\ span' = [span EXCEPT ![s] = l]
  BY DEF Register, Reset, Construct, ResetSpaceRange
<1>2. NewPool(a, l) \in Pool /\ PoolOK(NewPool(a, l), {}, l)
  BY <1>0, <1>1, NewPoolOK
<1>3. taken' = [taken EXCEPT ![s] = {}]
  BY <1>1 DEF SpaceInv, ClientTypeOK
<1>4. CASE Register(s, a, l)
  <2>1. pool' = [pool EXCEPT ![s] = NewPool(a, l)]
    BY <1>4 DEF Register, Construct
  <2> QED
    BY <1>0, <1>1, <1>2, <1>3, <2>1, OneServerStep
<1>5. CASE Reset(s, a, l)
  <2> DEFINE p == pool[s]
             p2 == [p EXCEPT !.total = TotalBlocks(a, l),
                             !.free = NewPool(a, l).free, !.wild = FALSE]
  <2>1. p \in Pool /\ ~ p.wild /\ PoolOK(p, {}, span[s])
    <3>1. s \in Registered /\ ~ pool[s].wild
      BY <1>5 DEF Reset
    <3> QED
      BY <1>1, <3>1 DEF SpaceInv, ClientTypeOK, SpaceTypeOK, Registered
  <2>2. pool' = [pool EXCEPT ![s] = p2]
    BY <1>5 DEF Reset, ResetSpaceRange, SpaceInv, ClientTypeOK, SpaceTypeOK
  <2>3. /\ NewPool(a, l).total = TotalBlocks(a, l)
        /\ NewPool(a, l).inused = {} /\ NewPool(a, l).cur = 0
        /\ NewPool(a, l).wild = FALSE
    BY DEF NewPool
  <2>4. p.inused = {} /\ p.cur = 0
    BY <2>1, FS_EmptySet DEF PoolOK
  <2>5. p2 = NewPool(a, l)
    <3> HIDE DEF p
    <3> QED
      BY <1>2, <2>1, <2>3, <2>4 DEF Pool
  <2> HIDE DEF p2
  <2> QED
    BY <1>0, <1>1, <1>2, <1>3, <2>2, <2>5, OneServerStep
<1> QED
  BY <1>4, <1>5

(* Blocks are allocated. *)
LEMMA TakeKeepsInv ==
  ASSUME SpaceInv, NEW s \in Server,
         \/ \E b \in Block : TakeOne(s, b)
         \/ \E l \in Lengths, res \in SUBSET Block : TakeSpace(s, l, res)
  PROVE  SpaceInv'
<1> DEFINE p == pool[s]
           t == taken[s]
           n == span[s]
<1>1. /\ p \in Pool /\ t \in SUBSET Block /\ n \in Nat /\ PoolOK(p, t, n)
      /\ UNCHANGED span
  BY DEF SpaceInv, ClientTypeOK, SpaceTypeOK, Registered, TakeOne, TakeSpace
<1>2. span' = [span EXCEPT ![s] = n]
  BY <1>1 DEF SpaceInv, ClientTypeOK
<1>3. ASSUME NEW b \in Block, TakeOne(s, b) PROVE SpaceInv'
  <2>1. taken' = [taken EXCEPT ![s] = t \cup {b}] /\ t \cup {b} \in SUBSET Block
    BY <1>1, <1>3 DEF TakeOne
  <2> DEFINE p2 == [p EXCEPT !.inused = @ \cup {b}, !.cur = Wrap(@ + 1),
                             !.wild = TRUE]
  <2>2. \/ /\ ~ p.wild /\ IsTop(p.free, b)
           /\ pool' = [pool EXCEPT ![s] = Taken(p, b)]
        \/ /\ b < p.total
           /\ pool' = [pool EXCEPT ![s] = p2]
    BY <1>3 DEF TakeOne, AllocateOneBlock
  <2> HIDE DEF p, t, n
  <2>3. CASE /\ ~ p.wild /\ IsTop(p.free, b)
             /\ pool' = [pool EXCEPT ![s] = Taken(p, b)]
    <3>1. Taken(p, b) \in Pool /\ PoolOK(Taken(p, b), t \cup {b}, n)
      BY <1>1, <2>3, TakenOK
    <3> QED
      BY <1>1, <1>2, <2>1, <2>3, <3>1, OneServerStep
  <2>4. CASE b < p.total /\ pool' = [pool EXCEPT ![s] = p2]
    <3>1. Wrap(p.cur + 1) \in 0 .. Word - 1 /\ p.total \in Nat
      BY <1>1, WrapBy, WordAssumption DEF Pool
    <3>2. p2 \in Pool /\ p2.total = p.total /\ p2.wild
      BY <1>1, <3>1 DEF Pool
    <3>3. t \cup {b} \subseteq 0 .. p2.total - 1
      <4>1. t \subseteq 0 .. p.total - 1
        BY <1>1, Zenon DEF PoolOK
      <4>2. b \in 0 .. p.total - 1
        BY <2>4, <3>1, WordAssumption DEF Block
      <4> QED
        BY <3>2, <4>1, <4>2
    <3>4. PoolOK(p2, t \cup {b}, n)
      BY <1>1, <3>2, <3>3 DEF PoolOK
    <3> HIDE DEF p2
    <3> QED
      BY <1>1, <1>2, <2>1, <2>4, <3>2, <3>4, OneServerStep
  <2> QED
    BY <2>2, <2>3, <2>4
<1>4. ASSUME NEW l \in Lengths, NEW res \in SUBSET Block, TakeSpace(s, l, res)
      PROVE  SpaceInv'
  <2> DEFINE f == [b \in Block |-> p.free[b] - (IF b \in res THEN 1 ELSE 0)]
             p2 == [p EXCEPT !.free = f, !.inused = @ \cup res,
                             !.cur = Wrap(@ + Cardinality(res))]
             p3 == [p EXCEPT !.inused = @ \cup res,
                             !.cur = Wrap(@ + BlocksFor(l))]
  <2>1. taken' = [taken EXCEPT ![s] = t \cup res] /\ t \cup res \in SUBSET Block
    BY <1>1, <1>4 DEF TakeSpace
  <2>2. \/ res = {} /\ UNCHANGED pool
        \/ /\ ~ p.wild /\ \A b \in res : HeapHolds(p.free, b)
           /\ pool' = [pool EXCEPT ![s] = p2]
        \/ /\ p.wild /\ \A b \in res : b < p.total
           /\ pool' = [pool EXCEPT ![s] = p3]
    BY <1>4 DEF TakeSpace, AllocateSpace
  <2>3. CASE res = {} /\ UNCHANGED pool
    <3>1. pool' = [pool EXCEPT ![s] = p] /\ t \cup res = t
      BY <2>3 DEF SpaceInv, ClientTypeOK, SpaceTypeOK
    <3> HIDE DEF p, t, n
    <3> QED
      BY <1>1, <1>2, <2>1, <3>1, OneServerStep
  <2> HIDE DEF p, t, n
  <2>4. CASE /\ ~ p.wild /\ \A b \in res : HeapHolds(p.free, b)
             /\ pool' = [pool EXCEPT ![s] = p2]
    <3>1. p2 \in Pool /\ PoolOK(p2, t \cup res, n)
      BY <1>1, <2>4, TakenManyOK
    <3> HIDE DEF p2
    <3> QED
      BY <1>1, <1>2, <2>1, <2>4, <3>1, OneServerStep
  <2>5. CASE /\ p.wild /\ \A b \in res : b < p.total
             /\ pool' = [pool EXCEPT ![s] = p3]
    <3>1. BlocksFor(l) \in Int
      BY RegionAssumption, PlanBlockSizeAssumption DEF BlocksFor
    <3>2. Wrap(p.cur + BlocksFor(l)) \in 0 .. Word - 1 /\ p.total \in Nat
      <4>1. p.cur + BlocksFor(l) \in Int /\ p.total \in Nat
        BY <1>1, <3>1, WordAssumption DEF Pool
      <4> QED
        BY <4>1, WrapBy
    <3>3. p3 \in Pool /\ p3.total = p.total /\ p3.wild
      BY <1>1, <2>5, <3>2 DEF Pool
    <3>4. t \cup res \subseteq 0 .. p3.total - 1
      <4>1. t \subseteq 0 .. p.total - 1
        BY <1>1, Zenon DEF PoolOK
      <4>2. res \subseteq 0 .. p.total - 1
        BY <2>5, <3>2, WordAssumption DEF Block
      <4> QED
        BY <3>3, <4>1, <4>2
    <3>5. PoolOK(p3, t \cup res, n)
      BY <1>1, <3>3, <3>4 DEF PoolOK
    <3> HIDE DEF p3
    <3> QED
      BY <1>1, <1>2, <2>1, <2>5, <3>3, <3>5, OneServerStep
  <2> QED
    BY <2>2, <2>3, <2>4, <2>5
<1> QED
  BY <1>3, <1>4

(* Blocks are given back. *)
LEMMA GiveBackKeepsInv ==
  ASSUME SpaceInv, NEW s \in Server, NEW res \in SUBSET Block, GiveBack(s, res)
  PROVE  SpaceInv'
<1> DEFINE p == pool[s]
           t == taken[s]
           n == span[s]
           p2 == Returned(p, HeapOf(Block, res), Cardinality(res))
<1>1. /\ p \in Pool /\ t \in SUBSET Block /\ n \in Nat /\ PoolOK(p, t, n)
      /\ UNCHANGED span /\ res \in SUBSET t
  BY DEF SpaceInv, ClientTypeOK, SpaceTypeOK, Registered, GiveBack
<1>2. /\ span' = [span EXCEPT ![s] = n]
      /\ taken' = [taken EXCEPT ![s] = t \ res]
      /\ pool' = [pool EXCEPT ![s] = p2]
  BY <1>1 DEF SpaceInv, ClientTypeOK, SpaceTypeOK, GiveBack, ReclaimSpace
<1>3. p2 \in Pool /\ PoolOK(p2, t \ res, n) /\ t \ res \in SUBSET Block
  <2> HIDE DEF p, t, n
  <2> QED
    BY <1>1, ReturnedOK
<1> HIDE DEF p, t, n, p2
<1> QED
  BY <1>1, <1>2, <1>3, OneServerStep

(* The callers start with nothing. *)
LEMMA SpaceInvStart == ClientInit => SpaceInv
  BY DEF ClientInit, SpaceInit, SpaceInv, ClientTypeOK, SpaceTypeOK, Registered

(* Every call of an allocator keeps the invariant. *)
LEMMA SpaceInvStep == SpaceInv /\ [ClientNext]_clientVars => SpaceInv'
<1> SUFFICES ASSUME SpaceInv, [ClientNext]_clientVars PROVE SpaceInv'
  OBVIOUS
<1>1. CASE ClientNext
  BY <1>1, RegisterKeepsInv, TakeKeepsInv, GiveBackKeepsInv DEF ClientNext
<1>2. CASE UNCHANGED clientVars
  <2>1. pool' = pool /\ taken' = taken /\ span' = span
    BY <1>2 DEF clientVars
  <2>2. Registered' = Registered
    BY <2>1 DEF Registered
  <2> QED
    BY <2>1, <2>2
       DEF SpaceInv, ClientTypeOK, SpaceTypeOK, Registered, PoolOK
<1> QED
  BY <1>1, <1>2

(* The allocators keep their invariant. *)
LEMMA SpaceInvHolds == ClientSpec => []SpaceInv
  BY SpaceInvStart, SpaceInvStep, PTL DEF ClientSpec

(* Until an AllocateOneBlock has met an empty heap, free_list_,            *)
(* inused_blocks_ and cur_blocks_ agree with what the callers hold, for    *)
(* every region, block size and sequence of calls.                         *)
THEOREM SpaceAccountingHolds == ClientSpec => []SpaceAccounting
<1>1. SpaceInv => SpaceAccounting
  BY DEF SpaceInv, SpaceAccounting, Sound, PoolOK
<1> QED
  BY <1>1, SpaceInvHolds, PTL

(* The test of total_blocks_ - cur_blocks_ stands for the look at the heap *)
(* that AllocateSpace does not take.                                       *)
THEOREM SpaceTestHolds == ClientSpec => []SpaceTestSuffices
<1>1. SpaceInv => SpaceTestSuffices
  <2> SUFFICES ASSUME SpaceInv, NEW s \in Server, NEW l \in Lengths,
                      Sound(s), ~ SpaceRefused(s, l)
               PROVE  BlocksFor(l) <=
                        Cardinality({b \in Block : HeapHolds(pool[s].free, b)})
    BY DEF SpaceTestSuffices
  <2> DEFINE p == pool[s]
             t == taken[s]
             m == p.total
             free == {b \in Block : HeapHolds(p.free, b)}
  <2>1. p \in Pool /\ PoolOK(p, t, span[s]) /\ ~ p.wild
    BY DEF Sound, SpaceInv, ClientTypeOK, SpaceTypeOK, Registered
  <2>2. /\ BlocksFor(l) <= Wrap(p.total - p.cur) /\ BlocksFor(l) \in Int
    <3>1. BlocksFor(l) \in Int
      BY RegionAssumption, PlanBlockSizeAssumption DEF BlocksFor
    <3>2. p.total - p.cur \in Int
      BY <2>1, WordAssumption DEF Pool
    <3>3. Wrap(p.total - p.cur) \in Int
      BY <3>2, WrapBy
    <3> QED
      BY <3>1, <3>3 DEF SpaceRefused
  <2> HIDE DEF p, t
  <2>3. t \in SUBSET (0 .. p.total - 1)
    BY <2>1, Zenon DEF PoolOK
  <2>4. m \in Nat /\ m <= MaxBlocks
    BY <2>1, WordAssumption DEF Pool
  <2>5. free = (0 .. m - 1) \ t
    <3>1. \A b \in Block : p.free[b] = IF b < m /\ b \notin t THEN 1 ELSE 0
      BY <2>1 DEF PoolOK
    <3>2. \A b : b \in 0 .. m - 1 <=> b \in Block /\ b < m
      BY <2>4, WordAssumption DEF Block
    <3> HIDE DEF m
    <3> QED
      BY <3>1, <3>2 DEF HeapHolds
  <2>6. /\ Cardinality(t) \in 0 .. m
        /\ IsFiniteSet(0 .. m - 1) /\ Cardinality(0 .. m - 1) = m
    <3>1. Cardinality(t) \in 0 .. m
      BY <2>1, <2>3, HeldBlocks
    <3> HIDE DEF m
    <3>2. 0 \in Int /\ m - 1 \in Int /\ (0 > m - 1 => m = 0) /\ m - 1 - 0 + 1 = m
      BY <2>4
    <3> QED
      BY <3>1, <3>2, FS_Interval
  <2>7. Cardinality(free) = m - Cardinality(t)
    <3>1. (0 .. m - 1) \cap t = t
      BY <2>3
    <3> HIDE DEF m, free
    <3>2. Cardinality((0 .. m - 1) \ t)
            = Cardinality(0 .. m - 1) - Cardinality((0 .. m - 1) \cap t)
      BY <2>6, FS_Difference
    <3> QED
      BY <2>5, <2>6, <3>1, <3>2
  <2>8. Wrap(p.total - p.cur) = m - Cardinality(t)
    <3>1. p.cur = Cardinality(t)
      BY <2>1 DEF PoolOK
    <3>2. m - Cardinality(t) \in 0 .. Word - 1
      BY <2>4, <2>6, WordAssumption
    <3> QED
      BY <3>1, <3>2, WrapSame
  <2> HIDE DEF m, free
  <2> QED
    BY <2>2, <2>7, <2>8 DEF p, free
<1> QED
  BY <1>1, SpaceInvHolds, PTL

(* No block a caller was ever given reaches beyond the region, whatever    *)
(* the alignment and the unsigned arithmetic did to its first and last     *)
(* address, and also when the pool was overdrawn.                          *)
THEOREM BlocksStayInside == ClientSpec => []BlocksInsideRegion
<1>1. SpaceInv => BlocksInsideRegion
  <2> SUFFICES ASSUME SpaceInv, NEW s \in Registered, NEW b \in taken[s]
               PROVE  (b + 1) * FILE_BLOCK_SIZE <= span[s]
    BY DEF BlocksInsideRegion
  <2> DEFINE m == pool[s].total
             n == span[s]
  <2>1. /\ m \in Nat /\ n \in Nat
        /\ taken[s] \subseteq 0 .. m - 1 /\ m * FILE_BLOCK_SIZE <= n
    <3>1. pool[s] \in Pool /\ n \in Nat /\ PoolOK(pool[s], taken[s], n)
      BY DEF SpaceInv, ClientTypeOK, SpaceTypeOK, Registered
    <3>2. m \in Nat
      BY <3>1, WordAssumption DEF Pool
    <3> QED
      BY <3>1, <3>2, Zenon DEF PoolOK
  <2>2. b \in Nat /\ b + 1 <= m
    BY <2>1
  <2> HIDE DEF m, n
  <2>3. (b + 1) * FILE_BLOCK_SIZE <= m * FILE_BLOCK_SIZE
    <3>1. b + 1 \in Nat
      BY <2>2
    <3> QED
      BY <2>1, <2>2, <3>1, MoreBlocks
  <2>4. (b + 1) * FILE_BLOCK_SIZE \in Int /\ m * FILE_BLOCK_SIZE \in Int
    BY <2>1, <2>2, PlanBlockSizeAssumption
  <2> QED
    BY <2>1, <2>3, <2>4 DEF n
<1> QED
  BY <1>1, SpaceInvHolds, PTL

-----------------------------------------------------------------------------
(* How ReadFile and WriteFile cut a request into blocks. *)

(* Every piece stays within its block and within the caller's buffer. *)
LEMMA PieceInBounds ==
  ASSUME NEW off \in Nat, NEW len \in Nat, NEW p, Among(p, Plan(off, len))
  PROVE  /\ p.inner + p.length <= FILE_BLOCK_SIZE
         /\ p.buff_offset + p.length <= len
<1> DEFINE B == FILE_BLOCK_SIZE
           F == FirstLength(off, len)
           W == WholeCount(off, len)
           l == LoopBlock(off)
           r == InnerOffset(off)
           upto == F + W * B
<1> USE PlanBlockSizeAssumption
<1>1. F \in Nat /\ F <= len /\ W \in Nat /\ B * W \in Nat /\ F + B * W <= len
  BY ReplyParts
<1>2. upto \in Nat /\ upto <= len /\ upto = F + B * W
  BY <1>1
<1>3. r \in Nat /\ r < B
  BY Division DEF InnerOffset
<1>4. r # 0 => F <= B - r
  BY <1>1, <1>3 DEF FirstLength, Least
<1>5. \/ r # 0 /\ p = Piece(off \div B, r, F, 0)
      \/ \E i \in 1 .. W : p = Piece(l + i - 1, 0, B, F + (i - 1) * B)
      \/ len # upto /\ p = Piece(l + W, 0, len - upto, upto)
  BY PlanPieces
<1> HIDE DEF F, W, l, r
<1>6. CASE r # 0 /\ p = Piece(off \div B, r, F, 0)
  BY <1>1, <1>3, <1>4, <1>6 DEF Piece
<1>7. CASE \E i \in 1 .. W : p = Piece(l + i - 1, 0, B, F + (i - 1) * B)
  <2>1. PICK i \in 1 .. W : p = Piece(l + i - 1, 0, B, F + (i - 1) * B)
    BY <1>7
  <2>2. p.inner = 0 /\ p.length = B /\ p.buff_offset = F + (i - 1) * B
    BY <2>1 DEF Piece
  <2>3. (i - 1) * B + B <= W * B /\ (i - 1) * B \in Nat
    <3>1. i \in Nat /\ i <= W /\ (i - 1) * B + B = i * B /\ (i - 1) * B \in Nat
      BY <1>1
    <3> QED
      BY <1>1, <3>1, MoreBlocks
  <2> QED
    BY <1>1, <1>2, <2>2, <2>3
<1>8. CASE len # upto /\ p = Piece(l + W, 0, len - upto, upto)
  <2>1. /\ p.inner = 0 /\ p.length = len - upto /\ p.buff_offset = upto
    BY <1>8 DEF Piece
  <2>2. len - upto < B
    <3>1. len - F \in Nat /\ W = (len - F) \div B
      BY <1>1 DEF W, WholeCount, F
    <3>2. len - F = B * W + ((len - F) % B) /\ (len - F) % B < B
             /\ (len - F) % B \in Nat
      BY <3>1, Division
    <3> QED
      BY <1>1, <1>2, <3>2
  <2> HIDE DEF upto
  <2> QED
    BY <1>2, <2>1, <2>2
<1> QED
  BY <1>5, <1>6, <1>7, <1>8

(* Byte k of the buffer is in one piece, which puts it where it belongs. *)
LEMMA ByteInOnePiece ==
  ASSUME NEW off \in Nat, NEW len \in Nat, NEW k \in 0 .. len - 1
  PROVE  \E p : /\ Among(p, Plan(off, len)) /\ Holds(p, k)
                /\ p.block_idx * FILE_BLOCK_SIZE + p.inner + (k - p.buff_offset)
                     = off + k
                /\ \A q : Among(q, Plan(off, len)) /\ Holds(q, k) => q = p
<1> DEFINE B == FILE_BLOCK_SIZE
           F == FirstLength(off, len)
           W == WholeCount(off, len)
           l == LoopBlock(off)
           r == InnerOffset(off)
           upto == F + W * B
           first == Piece(off \div B, r, F, 0)
           whole(i) == Piece(l + i - 1, 0, B, F + (i - 1) * B)
           last == Piece(l + W, 0, len - upto, upto)
<1> USE PlanBlockSizeAssumption
<1>1. /\ F \in Nat /\ F <= len /\ W \in Nat /\ l \in Nat
      /\ B * W \in Nat /\ B * l \in Nat /\ F + B * W <= len
      /\ F < len => B * l = off + F
  BY ReplyParts
<1>2. upto \in Nat /\ upto <= len /\ upto = F + B * W /\ F <= upto
  BY <1>1
<1>3. /\ off \div B \in Nat /\ r \in Nat /\ off = B * (off \div B) + r
      /\ (off \div B) * B = B * (off \div B) /\ B * (off \div B) \in Nat
  <2>1. off \div B \in Nat /\ r \in Nat /\ off = B * (off \div B) + r
    BY Division DEF InnerOffset
  <2> QED
    BY <2>1
<1>4. r = 0 => F = 0
  BY DEF FirstLength
<1>5. \A q : Among(q, Plan(off, len)) <=>
         \/ r # 0 /\ q = first
         \/ \E i \in 1 .. W : q = whole(i)
         \/ len # upto /\ q = last
  BY PlanPieces
<1>6. k \in Nat /\ k < len
  OBVIOUS
<1> HIDE DEF F, W, l, r, upto
<1>7. Holds(first, k) <=> k < F
  BY <1>1, <1>6 DEF Holds, Piece
<1>8. Holds(last, k) <=> upto <= k
  BY <1>2, <1>6 DEF Holds, Piece
<1>9. ASSUME NEW i \in 1 .. W
      PROVE  /\ (i - 1) * B \in Nat /\ (i - 1) * B + B <= W * B
             /\ Holds(whole(i), k) <=> /\ F + (i - 1) * B <= k
                                       /\ k < F + (i - 1) * B + B
  <2>1. i \in Nat /\ i <= W /\ (i - 1) * B + B = i * B /\ (i - 1) * B \in Nat
    BY <1>1
  <2>2. (i - 1) * B + B <= W * B
    BY <1>1, <2>1, MoreBlocks
  <2>3. whole(i).buff_offset = F + (i - 1) * B /\ whole(i).length = B
    BY DEF Piece
  <2> QED
    BY <2>1, <2>2, <2>3 DEF Holds
<1> HIDE DEF first, whole, last
<1>10. CASE k < F
  <2>1. r # 0
    BY <1>1, <1>4, <1>6, <1>10
  <2>2. Among(first, Plan(off, len)) /\ Holds(first, k)
    BY <1>5, <1>7, <1>10, <2>1
  <2>3. first.block_idx * B + first.inner + (k - first.buff_offset) = off + k
    <3>1. /\ first.block_idx = off \div B /\ first.inner = r
          /\ first.buff_offset = 0
      BY DEF first, Piece
    <3> QED
      BY <1>3, <1>6, <3>1
  <2>4. ASSUME NEW i \in 1 .. W PROVE ~ Holds(whole(i), k)
    BY <1>1, <1>6, <1>9, <1>10
  <2>5. ~ Holds(last, k)
    BY <1>1, <1>2, <1>6, <1>8, <1>10
  <2>6. \A q : Among(q, Plan(off, len)) /\ Holds(q, k) => q = first
    BY <1>5, <2>4, <2>5
  <2> QED
    BY <2>2, <2>3, <2>6
<1>11. CASE F <= k /\ k < upto
  <2> DEFINE j == (k - F) \div B
             i == j + 1
  <2>1. /\ j \in Nat /\ (k - F) % B \in Nat /\ (k - F) % B < B
        /\ k - F = B * j + ((k - F) % B) /\ B * j \in Nat
    <3>1. k - F \in Nat
      BY <1>1, <1>6, <1>11
    <3>2. /\ j \in Nat /\ (k - F) % B \in Nat /\ (k - F) % B < B
          /\ k - F = B * j + ((k - F) % B)
      BY <3>1, Division
    <3> QED
      BY <3>2
  <2> HIDE DEF j
  <2>2. F + j * B <= k /\ k < F + j * B + B /\ j * B = B * j
    BY <1>1, <1>6, <2>1
  <2>3. j < W
    <3>1. B * j < B * W
      BY <1>1, <1>2, <1>6, <1>11, <2>1, <2>2
    <3> QED
      BY <1>1, <2>1, <3>1, FewerBlocks
  <2>4. i \in 1 .. W /\ i - 1 = j
    BY <1>1, <2>1, <2>3
  <2> HIDE DEF i
  <2>5. Among(whole(i), Plan(off, len)) /\ Holds(whole(i), k)
    BY <1>5, <1>9, <2>2, <2>4
  <2>6. whole(i).block_idx * B + whole(i).inner + (k - whole(i).buff_offset)
          = off + k
    <3>1. /\ whole(i).block_idx = l + i - 1 /\ whole(i).inner = 0
          /\ whole(i).buff_offset = F + (i - 1) * B
      BY DEF whole, Piece
    <3>2. l + i - 1 = l + j /\ (l + j) * B = B * l + B * j
      BY <1>1, <2>1, <2>4
    <3>3. B * l = off + F
      BY <1>1, <1>6, <1>11
    <3> QED
      BY <1>1, <1>6, <2>1, <2>2, <2>4, <3>1, <3>2, <3>3
  <2>7. ASSUME NEW h \in 1 .. W, Holds(whole(h), k) PROVE h = i
    <3>1. /\ h - 1 \in Nat /\ (h - 1) * B \in Nat
          /\ F + (h - 1) * B <= k /\ k < F + (h - 1) * B + B
      BY <1>9, <2>7
    <3>2. CASE h - 1 < j
      <4>1. (h - 1 + 1) * B <= j * B /\ (h - 1 + 1) * B = (h - 1) * B + B
        <5>1. h - 1 + 1 \in Nat /\ h - 1 + 1 <= j
          BY <2>1, <3>1, <3>2
        <5> QED
          BY <2>1, <3>1, <5>1, MoreBlocks
      <4> QED
        BY <1>1, <1>6, <2>1, <2>2, <3>1, <4>1
    <3>3. CASE j < h - 1
      <4>1. (j + 1) * B <= (h - 1) * B /\ (j + 1) * B = j * B + B
        <5>1. j + 1 \in Nat /\ j + 1 <= h - 1
          BY <2>1, <3>1, <3>3
        <5> QED
          BY <2>1, <3>1, <5>1, MoreBlocks
      <4> QED
        BY <1>1, <1>6, <2>1, <2>2, <3>1, <4>1
    <3> QED
      BY <2>1, <2>4, <3>1, <3>2, <3>3
  <2>8. ~ Holds(first, k) /\ ~ Holds(last, k)
    BY <1>1, <1>2, <1>6, <1>7, <1>8, <1>11
  <2>9. \A q : Among(q, Plan(off, len)) /\ Holds(q, k) => q = whole(i)
    BY <1>5, <2>7, <2>8
  <2> QED
    BY <2>5, <2>6, <2>9
<1>12. CASE upto <= k
  <2>1. Among(last, Plan(off, len)) /\ Holds(last, k)
    BY <1>2, <1>5, <1>6, <1>8, <1>12
  <2>2. last.block_idx * B + last.inner + (k - last.buff_offset) = off + k
    <3>1. /\ last.block_idx = l + W /\ last.inner = 0 /\ last.buff_offset = upto
      BY DEF last, Piece
    <3>2. (l + W) * B = B * l + B * W
      BY <1>1
    <3>3. B * l = off + F
      BY <1>1, <1>2, <1>6, <1>12
    <3> QED
      BY <1>1, <1>2, <1>6, <3>1, <3>2, <3>3
  <2>3. ASSUME NEW i \in 1 .. W PROVE ~ Holds(whole(i), k)
    BY <1>1, <1>2, <1>6, <1>9, <1>12 DEF upto
  <2>4. ~ Holds(first, k)
    BY <1>1, <1>2, <1>6, <1>7, <1>12
  <2>5. \A q : Among(q, Plan(off, len)) /\ Holds(q, k) => q = last
    BY <1>5, <2>3, <2>4
  <2> QED
    BY <2>1, <2>2, <2>5
<1> QED
  BY <1>1, <1>2, <1>6, <1>10, <1>11, <1>12

(* Requests are numbers. *)
LEMMA RequestsAreNumbers ==
  PlanSpec => [](reqOffset \in Nat /\ reqLength \in Nat)
<1>1. PlanInit => reqOffset \in Nat /\ reqLength \in Nat
  BY DEF PlanInit
<1>2. (reqOffset \in Nat /\ reqLength \in Nat) /\ [PlanNext]_planVars
        => (reqOffset \in Nat /\ reqLength \in Nat)'
  BY DEF PlanNext, Later, Longer, planVars
<1> QED
  BY <1>1, <1>2, PTL DEF PlanSpec

(* A reply covers every byte of the request once and at the right place of *)
(* the file, for every offset, length and block size.                      *)
THEOREM PlansAreExact == PlanSpec => []PlanIsExact
<1>1. reqOffset \in Nat /\ reqLength \in Nat => PlanIsExact
  <2> SUFFICES ASSUME reqOffset \in Nat, reqLength \in Nat PROVE PlanIsExact
    OBVIOUS
  <2>1. \A p : p \in Pieces <=> Among(p, Plan(reqOffset, reqLength))
    BY DEF Pieces, Among
  <2>2. ASSUME NEW k \in 0 .. reqLength - 1
        PROVE  \E p \in Pieces :
                  /\ Holds(p, k)
                  /\ p.block_idx * FILE_BLOCK_SIZE + p.inner
                       + (k - p.buff_offset) = reqOffset + k
                  /\ \A q \in Pieces : Holds(q, k) => q = p
    BY <2>1, ByteInOnePiece, Zenon
  <2>3. \A p \in Pieces : p.buff_offset + p.length <= reqLength
    BY <2>1, PieceInBounds
  <2> QED
    BY <2>2, <2>3 DEF PlanIsExact
<1> QED
  BY <1>1, RequestsAreNumbers, PTL

(* No piece crosses the end of its block, and none names a block beyond    *)
(* those WriteFile has allocated, for every offset, length and block size. *)
THEOREM PlansStayInFile == PlanSpec => []PlanStaysInFile
<1>1. reqOffset \in Nat /\ reqLength \in Nat => PlanStaysInFile
  <2> SUFFICES ASSUME reqOffset \in Nat, reqLength \in Nat, NEW p \in Pieces
               PROVE  /\ p.inner + p.length <= FILE_BLOCK_SIZE
                      /\ p.block_idx < BlocksNeeded(reqOffset, reqLength)
    BY DEF PlanStaysInFile
  <2>1. Among(p, Plan(reqOffset, reqLength))
    BY DEF Pieces, Among
  <2>2. p.inner + p.length <= FILE_BLOCK_SIZE
    BY <2>1, PieceInBounds
  <2>3. PICK k \in DOMAIN Plan(reqOffset, reqLength) :
          p = Plan(reqOffset, reqLength)[k]
    BY <2>1 DEF Among
  <2>4. p.block_idx \in 0 .. BlocksNeeded(reqOffset, reqLength) - 1
    BY <2>3, PlanWithinBlocksNeeded
  <2>5. BlocksNeeded(reqOffset, reqLength) \in Nat
    BY BlocksNeededSuffice
  <2> QED
    BY <2>2, <2>4, <2>5
<1> QED
  BY <1>1, RequestsAreNumbers, PTL

-----------------------------------------------------------------------------
(* All parts together: the invariant of each one holds in every behaviour, *)
(* whichever part takes the steps.                                         *)

PartsInv == FdInv /\ InodeInv /\ SpaceInv /\ TransferInv

(* The part that is checked takes a step of its own and the others stay. *)
LEMMA PartStep == PartsInv /\ [PartsNext]_<<partVars, part>> => PartsInv'
<1> SUFFICES ASSUME PartsInv, [PartsNext]_<<partVars, part>> PROVE PartsInv'
  OBVIOUS
<1>1. [FileMapNext]_fdVars
  BY DEF PartsNext, partVars
<1>2. [InodeTableNext]_inodeVars
  BY DEF PartsNext, partVars
<1>3. [ClientNext]_clientVars
  BY DEF PartsNext, partVars
<1>4. [Next]_vars
  BY DEF PartsNext, partVars
<1> QED
  BY <1>1, <1>2, <1>3, <1>4, FileMapStep, InodeTableStep, SpaceInvStep,
     TransferStep DEF PartsInv

(* Descriptors and inode numbers stay within their tables, block counts    *)
(* natural numbers and transfers within their buffers, for every size of   *)
(* tables, regions and buffers and every number of threads: no step of a   *)
(* part leads out of the types its class declares.                         *)
THEOREM ComponentsStayTyped == PartsSpec => []ComponentTypes
<1>1. PartsInit => PartsInv
  BY FileMapStart, InodeTableStart, SpaceInvStart, TransferInvStart
     DEF PartsInit, PartsInv
<1>2. PartsInv => ComponentTypes
  BY DEF PartsInv, FdInv, InodeInv, SpaceInv, TransferInv, ComponentTypes
<1> QED
  BY <1>1, <1>2, PartStep, PTL DEF PartsSpec

=============================================================================

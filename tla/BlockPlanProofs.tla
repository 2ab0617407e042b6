--------------------------- MODULE BlockPlanProofs --------------------------
(* How requests are cut into blocks, for every block size. *)
EXTENDS BlockPlan, Integers, TLAPS

(* Division by the block size, as the nonlinear steps below use it. *)
LEMMA Division ==
  ASSUME NEW x \in Nat
  PROVE  LET B == FILE_BLOCK_SIZE IN
         /\ x \div B \in Nat /\ x % B \in Nat
         /\ x % B < B
         /\ x = B * (x \div B) + (x % B)
<1>1. /\ x \div FILE_BLOCK_SIZE \in Nat /\ x % FILE_BLOCK_SIZE \in Nat
      /\ x % FILE_BLOCK_SIZE < FILE_BLOCK_SIZE
  BY PlanBlockSizeAssumption
<1>2. x = FILE_BLOCK_SIZE * (x \div FILE_BLOCK_SIZE) + (x % FILE_BLOCK_SIZE)
  BY PlanBlockSizeAssumption
<1> QED
  BY <1>1, <1>2

(* k blocks are fewer than m if their bytes are. *)
LEMMA FewerBlocks ==
  ASSUME NEW k \in Nat, NEW m \in Nat,
         FILE_BLOCK_SIZE * k < FILE_BLOCK_SIZE * m
  PROVE  k < m
<1> SUFFICES ASSUME k >= m PROVE FALSE
  OBVIOUS
<1>1. PICK d \in Nat : k = m + d
  <2>1. k - m \in Nat /\ k = m + (k - m)
    OBVIOUS
  <2> QED
    BY <2>1
<1>2. FILE_BLOCK_SIZE * k = FILE_BLOCK_SIZE * m + FILE_BLOCK_SIZE * d
  BY <1>1, PlanBlockSizeAssumption
<1>3. FILE_BLOCK_SIZE * d \in Nat
  BY PlanBlockSizeAssumption
<1>4. FILE_BLOCK_SIZE * m \in Nat
  BY PlanBlockSizeAssumption
<1> QED
  BY <1>2, <1>3, <1>4

(* k blocks hold at most the bytes that more blocks hold. *)
LEMMA MoreBlocks ==
  ASSUME NEW k \in Nat, NEW m \in Nat, k <= m
  PROVE  k * FILE_BLOCK_SIZE <= m * FILE_BLOCK_SIZE
<1>1. PICK d \in Nat : m = k + d
  <2>1. m - k \in Nat /\ m = k + (m - k)
    OBVIOUS
  <2> QED
    BY <2>1
<1>2. m * FILE_BLOCK_SIZE = k * FILE_BLOCK_SIZE + d * FILE_BLOCK_SIZE
  BY <1>1, PlanBlockSizeAssumption
<1>3. d * FILE_BLOCK_SIZE \in Nat /\ k * FILE_BLOCK_SIZE \in Nat
  BY PlanBlockSizeAssumption
<1> QED
  BY <1>2, <1>3

(* The total_blocks of WriteFile hold all bytes up to the end of the write. *)
LEMMA BlocksNeededSuffice ==
  ASSUME NEW off \in Nat, NEW len \in Nat
  PROVE  /\ BlocksNeeded(off, len) \in Nat
         /\ off + len <= FILE_BLOCK_SIZE * BlocksNeeded(off, len)
<1> DEFINE x == off + len + FILE_BLOCK_SIZE - 1
<1>1. x \in Nat
  BY PlanBlockSizeAssumption
<1>2. /\ x \div FILE_BLOCK_SIZE \in Nat /\ x % FILE_BLOCK_SIZE \in Nat
      /\ x % FILE_BLOCK_SIZE < FILE_BLOCK_SIZE
      /\ x = FILE_BLOCK_SIZE * (x \div FILE_BLOCK_SIZE) + (x % FILE_BLOCK_SIZE)
  BY <1>1, Division
<1>3. BlocksNeeded(off, len) = x \div FILE_BLOCK_SIZE
  BY DEF BlocksNeeded
<1>4. FILE_BLOCK_SIZE * (x \div FILE_BLOCK_SIZE) \in Nat
  BY <1>2, PlanBlockSizeAssumption
<1>5. FILE_BLOCK_SIZE * (x \div FILE_BLOCK_SIZE)
        = off + len + FILE_BLOCK_SIZE - 1 - (x % FILE_BLOCK_SIZE)
  BY <1>2, <1>4, PlanBlockSizeAssumption
<1> QED
  BY <1>2, <1>3, <1>5, PlanBlockSizeAssumption

(* A block that begins before the end of the write is among them. *)
LEMMA BlockBeforeEnd ==
  ASSUME NEW off \in Nat, NEW len \in Nat, NEW k \in Nat,
         FILE_BLOCK_SIZE * k < off + len
  PROVE  k < BlocksNeeded(off, len)
<1>1. FILE_BLOCK_SIZE * k \in Nat
  BY PlanBlockSizeAssumption
<1>2. FILE_BLOCK_SIZE * BlocksNeeded(off, len) \in Nat
  BY BlocksNeededSuffice, PlanBlockSizeAssumption
<1>3. FILE_BLOCK_SIZE * k < FILE_BLOCK_SIZE * BlocksNeeded(off, len)
  BY <1>1, <1>2, BlocksNeededSuffice
<1> QED
  BY <1>3, BlocksNeededSuffice, FewerBlocks

-----------------------------------------------------------------------------
(* A piece of a reply that names one of the first n blocks of the file. *)
PieceWithin(n) ==
  [block_idx : 0 .. n - 1, inner : Nat, length : Nat, buff_offset : Nat]

(* The lengths of the three parts of a reply. *)
LEMMA ReplyParts ==
  ASSUME NEW off \in Nat, NEW len \in Nat
  PROVE  LET B == FILE_BLOCK_SIZE
             F == FirstLength(off, len)
             W == WholeCount(off, len)
         IN  /\ F \in Nat /\ F <= len
             /\ W \in Nat /\ LoopBlock(off) \in Nat
             /\ B * W \in Nat /\ B * LoopBlock(off) \in Nat
             /\ F + B * W <= len
             /\ F < len => B * LoopBlock(off) = off + F
<1> DEFINE B == FILE_BLOCK_SIZE
           F == FirstLength(off, len)
           W == WholeCount(off, len)
           q == off \div B
           r == off % B
<1> USE PlanBlockSizeAssumption
<1>1. q \in Nat /\ r \in Nat /\ r < B /\ off = B * q + r
  BY Division
<1>2. F = IF r = 0 THEN 0 ELSE IF B - r <= len THEN B - r ELSE len
  BY DEF FirstLength, Least, InnerOffset
<1>3. F \in Nat /\ F <= len
  BY <1>1, <1>2
<1>4. len - F \in Nat
  BY <1>3
<1>5. W \in Nat /\ len - F = B * W + ((len - F) % B) /\ (len - F) % B \in Nat
  BY <1>4, Division DEF WholeCount
<1>6. LoopBlock(off) = IF r = 0 THEN q ELSE q + 1
  BY <1>1 DEF LoopBlock, InnerOffset
<1>7. B * q \in Nat /\ B * (q + 1) = B * q + B
  BY <1>1
<1>8. B * LoopBlock(off) \in Nat /\ LoopBlock(off) \in Nat
  BY <1>1, <1>6
<1>9. B * W \in Nat
  BY <1>5
<1> HIDE DEF F, W, q, r
<1>10. F + B * W <= len
  BY <1>3, <1>5, <1>9
<1>11. F < len => B * LoopBlock(off) = off + F
  <2>1. CASE r = 0
    BY <1>1, <1>2, <1>6, <2>1
  <2>2. CASE r # 0 /\ B - r <= len
    BY <1>1, <1>2, <1>6, <1>7, <2>2
  <2>3. CASE r # 0 /\ ~ (B - r <= len)
    BY <1>2, <2>3
  <2> QED
    BY <2>1, <2>2, <2>3
<1> QED
  BY <1>3, <1>5, <1>8, <1>9, <1>10, <1>11 DEF F, W

(* A reply of WriteFile names only blocks that the file has been made to   *)
(* own, and each is a block: the assertion in ChangeFileBlockInfoLength    *)
(* cannot fail once total_blocks are there.                                *)
THEOREM PlanWithinBlocksNeeded ==
  ASSUME NEW off \in Nat, NEW len \in Nat
  PROVE  \A k \in DOMAIN Plan(off, len) :
           Plan(off, len)[k].block_idx \in 0 .. BlocksNeeded(off, len) - 1
<1> DEFINE B == FILE_BLOCK_SIZE
           F == FirstLength(off, len)
           W == WholeCount(off, len)
           l == LoopBlock(off)
           n == BlocksNeeded(off, len)
           S == PieceWithin(n)
<1> USE PlanBlockSizeAssumption
<1>0. n \in Nat /\ B \in Nat
  BY BlocksNeededSuffice
<1>1. /\ F \in Nat /\ F <= len /\ W \in Nat /\ l \in Nat
      /\ B * W \in Nat /\ B * l \in Nat /\ F + B * W <= len
      /\ F < len => B * l = off + F
  BY ReplyParts
<1> HIDE DEF F, W, l, n
<1>2. ASSUME NEW i \in Nat, F + B * i < len PROVE l + i \in 0 .. n - 1
  <2>1. B * i \in Nat /\ B * (l + i) = B * l + B * i
    BY <1>1, <1>2
  <2>2. B * (l + i) < off + len
    BY <1>1, <1>2, <2>1
  <2>3. l + i < BlocksNeeded(off, len)
    BY <1>1, <2>2, BlockBeforeEnd
  <2> QED
    BY <1>0, <1>1, <2>3 DEF n
<1>3. FirstPiece(off, len) \in Seq(S)
  <2>1. CASE InnerOffset(off) = 0
    BY <2>1 DEF FirstPiece
  <2>2. CASE InnerOffset(off) # 0
    <3>1. /\ off \div B \in Nat /\ off % B \in Nat /\ off % B # 0
          /\ off = B * (off \div B) + (off % B)
      BY <2>2, Division DEF InnerOffset
    <3>2. B * (off \div B) \in Nat
      BY <3>1
    <3>3. B * (off \div B) < off + len
      BY <3>1, <3>2
    <3>4. off \div B \in 0 .. n - 1
      BY <1>0, <3>1, <3>3, BlockBeforeEnd DEF n
    <3>5. Piece(off \div B, InnerOffset(off), F, 0) \in S
      BY <1>1, <3>1, <3>4 DEF Piece, PieceWithin, InnerOffset
    <3> QED
      BY <2>2, <3>5 DEF FirstPiece, F
  <2> QED
    BY <2>1, <2>2
<1>4. WholePieces(off, len) \in Seq(S)
  <2>1. ASSUME NEW i \in 1 .. W
        PROVE  Piece(l + i - 1, 0, B, F + (i - 1) * B) \in S
    <3>1. i - 1 \in Nat /\ i - 1 < W
      BY <1>1
    <3>2. (i - 1) * B \in Nat /\ (i - 1) * B = B * (i - 1)
      BY <3>1
    <3>3. B * W = B * (i - 1) + B * (W - (i - 1)) /\ B * (W - (i - 1)) >= B
      <4>1. PICK d \in Nat : W = i - 1 + 1 + d
        <5>1. W - i \in Nat /\ W = i - 1 + 1 + (W - i)
          BY <1>1
        <5> QED
          BY <5>1
      <4>2. B * (W - (i - 1)) = B + B * d /\ B * d \in Nat
        BY <4>1
      <4> QED
        BY <1>1, <3>1, <4>2
    <3>4. F + B * (i - 1) < len
      BY <1>1, <3>2, <3>3
    <3>5. l + (i - 1) \in 0 .. n - 1
      BY <1>2, <3>1, <3>4
    <3>6. l + i - 1 \in 0 .. n - 1
      BY <1>1, <3>5
    <3> QED
      BY <1>1, <3>2, <3>6 DEF Piece, PieceWithin
  <2>2. WholePieces(off, len)
          = [i \in 1 .. W |-> Piece(l + i - 1, 0, B, F + (i - 1) * B)]
    BY DEF WholePieces, W, l, F
  <2> HIDE DEF S
  <2> QED
    BY <1>1, <2>1, <2>2
<1>5. LastPiece(off, len) \in Seq(S)
  <2> DEFINE done == F + W * B
  <2>1. done = F + B * W /\ done \in Nat
    BY <1>1
  <2>2. CASE len = done
    BY <2>2 DEF LastPiece, F, W
  <2>3. CASE len # done
    <3>1. F + B * W < len
      BY <1>1, <2>1, <2>3
    <3>2. l + W \in 0 .. n - 1
      BY <1>1, <1>2, <3>1
    <3>3. Piece(l + W, 0, len - done, done) \in S
      BY <1>1, <2>1, <3>1, <3>2 DEF Piece, PieceWithin
    <3>4. LastPiece(off, len) = << Piece(l + W, 0, len - done, done) >>
      BY <2>3 DEF LastPiece, F, W, l
    <3> HIDE DEF S, done
    <3> QED
      BY <3>3, <3>4
  <2> QED
    BY <2>2, <2>3
<1> HIDE DEF S
<1>6. Plan(off, len) \in Seq(S)
  BY <1>3, <1>4, <1>5 DEF Plan
<1>7. \A k \in DOMAIN Plan(off, len) : Plan(off, len)[k] \in S
  BY <1>6
<1> QED
  BY <1>7 DEF S, PieceWithin, n

-----------------------------------------------------------------------------
(* The pieces of a reply, whatever their order. *)

Among(x, s) == \E k \in DOMAIN s : x = s[k]

(* The elements of two sequences joined. *)
LEMMA JoinedRange ==
  ASSUME NEW S, NEW a \in Seq(S), NEW b \in Seq(S), NEW x
  PROVE  Among(x, a \o b) <=> Among(x, a) \/ Among(x, b)
<1>1. Len(a) \in Nat /\ Len(b) \in Nat /\ DOMAIN (a \o b) = 1 .. Len(a) + Len(b)
  OBVIOUS
<1>2. ASSUME NEW k \in DOMAIN a
      PROVE  k \in DOMAIN (a \o b) /\ (a \o b)[k] = a[k]
  OBVIOUS
<1>3. ASSUME NEW k \in DOMAIN b
      PROVE  Len(a) + k \in DOMAIN (a \o b) /\ (a \o b)[Len(a) + k] = b[k]
  OBVIOUS
<1>4. ASSUME NEW k \in DOMAIN (a \o b), k > Len(a)
      PROVE  k - Len(a) \in DOMAIN b /\ (a \o b)[k] = b[k - Len(a)]
  BY <1>4
<1>5. ASSUME NEW k \in DOMAIN (a \o b), k <= Len(a)
      PROVE  k \in DOMAIN a /\ (a \o b)[k] = a[k]
  BY <1>5
<1>6. ASSUME NEW k \in DOMAIN (a \o b), x = (a \o b)[k]
      PROVE  Among(x, a) \/ Among(x, b)
  <2>1. CASE k <= Len(a)
    BY <1>5, <1>6, <2>1, Zenon DEF Among
  <2>2. CASE k > Len(a)
    BY <1>4, <1>6, <2>2, Zenon DEF Among
  <2> QED
    BY <1>1, <2>1, <2>2
<1>7. ASSUME NEW k \in DOMAIN a, x = a[k]
      PROVE  Among(x, a \o b)
  BY <1>2, <1>7, Zenon DEF Among
<1>8. ASSUME NEW k \in DOMAIN b, x = b[k]
      PROVE  Among(x, a \o b)
  BY <1>3, <1>8, Zenon DEF Among
<1> QED
  BY <1>6, <1>7, <1>8, Zenon DEF Among

AnyPiece == [block_idx : Int, inner : Int, length : Int, buff_offset : Int]

(* A reply has a piece up to the first block boundary if the request does  *)
(* not begin at one, the whole blocks that follow, and what is left.       *)
LEMMA PlanPieces ==
  ASSUME NEW off \in Nat, NEW len \in Nat, NEW p
  PROVE  LET B == FILE_BLOCK_SIZE
             F == FirstLength(off, len)
             W == WholeCount(off, len)
             l == LoopBlock(off)
         IN  Among(p, Plan(off, len))
             <=> \/ InnerOffset(off) # 0 /\ p = Piece(off \div B, InnerOffset(off), F, 0)
                 \/ \E i \in 1 .. W : p = Piece(l + i - 1, 0, B, F + (i - 1) * B)
                 \/ len # F + W * B /\ p = Piece(l + W, 0, len - (F + W * B), F + W * B)
<1> DEFINE B == FILE_BLOCK_SIZE
           F == FirstLength(off, len)
           W == WholeCount(off, len)
           l == LoopBlock(off)
           r == InnerOffset(off)
           first == Piece(off \div B, r, F, 0)
           whole == [i \in 1 .. W |-> Piece(l + i - 1, 0, B, F + (i - 1) * B)]
           last == Piece(l + W, 0, len - (F + W * B), F + W * B)
           fs == FirstPiece(off, len)
           ls == LastPiece(off, len)
<1> USE PlanBlockSizeAssumption
<1>1. F \in Nat /\ W \in Nat /\ l \in Nat
  BY ReplyParts
<1>2. off \div B \in Nat /\ r \in Nat
  BY Division DEF InnerOffset
<1>3. WholePieces(off, len) = whole
  BY DEF WholePieces
<1> HIDE DEF F, W, l, r
<1>4. fs = IF r = 0 THEN << >> ELSE << first >>
  BY DEF FirstPiece, F, r
<1>5. ls = IF len = F + W * B THEN << >> ELSE << last >>
  BY DEF LastPiece, F, W, l
<1>6. first \in AnyPiece /\ last \in AnyPiece
  BY <1>1, <1>2 DEF Piece, AnyPiece
<1>7. \A i \in 1 .. W : Piece(l + i - 1, 0, B, F + (i - 1) * B) \in AnyPiece
  BY <1>1 DEF Piece, AnyPiece
<1>8. whole \in Seq(AnyPiece) /\ DOMAIN whole = 1 .. W
  BY <1>1, <1>7
<1> HIDE DEF first, last
<1>9. fs \in Seq(AnyPiece) /\ ls \in Seq(AnyPiece)
  BY <1>4, <1>5, <1>6
<1>10. Among(p, fs) <=> r # 0 /\ p = first
  <2> HIDE DEF fs
  <2> QED
    BY <1>4 DEF Among
<1>11. Among(p, ls) <=> len # F + W * B /\ p = last
  <2> HIDE DEF ls
  <2> QED
    BY <1>5 DEF Among
<1>12. Among(p, whole)
          <=> \E i \in 1 .. W : p = Piece(l + i - 1, 0, B, F + (i - 1) * B)
  BY <1>8 DEF Among
<1> HIDE DEF whole, fs, ls
<1>13. fs \o whole \in Seq(AnyPiece)
  BY <1>8, <1>9
<1>14. Plan(off, len) = (fs \o whole) \o ls
  BY <1>3 DEF Plan, fs, ls
<1>15. Among(p, (fs \o whole) \o ls) <=> Among(p, fs \o whole) \/ Among(p, ls)
  BY <1>9, <1>13, JoinedRange
<1>16. Among(p, fs \o whole) <=> Among(p, fs) \/ Among(p, whole)
  BY <1>8, <1>9, JoinedRange
<1> QED
  BY <1>10, <1>11, <1>12, <1>14, <1>15, <1>16 DEF F, W, l, r, first, last

(* The last byte of a request lies in a block that its reply names. *)
LEMMA PlanReachesEnd ==
  ASSUME NEW off \in Nat, NEW len \in Nat \ {0}
  PROVE  \E k \in DOMAIN Plan(off, len) :
           /\ Plan(off, len)[k].block_idx \in Nat
           /\ off + len <= FILE_BLOCK_SIZE * (Plan(off, len)[k].block_idx + 1)
<1> DEFINE B == FILE_BLOCK_SIZE
           F == FirstLength(off, len)
           W == WholeCount(off, len)
           l == LoopBlock(off)
           q == off \div B
           r == off % B
<1> USE PlanBlockSizeAssumption
<1>1. /\ F \in Nat /\ F <= len /\ W \in Nat /\ l \in Nat
      /\ B * W \in Nat /\ B * l \in Nat /\ F + B * W <= len
      /\ F < len => B * l = off + F
  BY ReplyParts
<1>2. q \in Nat /\ r \in Nat /\ r < B /\ off = B * q + r
  BY Division
<1>3. r # 0 => F <= B - r
  BY <1>2 DEF FirstLength, Least, InnerOffset
<1>4. len - F < B * W + B
  <2>1. len - F \in Nat
    BY <1>1
  <2>2. len - F = B * W + ((len - F) % B) /\ (len - F) % B < B
    BY <2>1, Division DEF WholeCount
  <2>3. (len - F) % B \in Int
    BY <2>1, Division
  <2> QED
    BY <1>1, <2>1, <2>2, <2>3
<1>5. ASSUME NEW p, Among(p, Plan(off, len)), p.block_idx \in Nat,
             off + len <= B * (p.block_idx + 1)
      PROVE  \E k \in DOMAIN Plan(off, len) :
               /\ Plan(off, len)[k].block_idx \in Nat
               /\ off + len <= B * (Plan(off, len)[k].block_idx + 1)
  BY <1>5 DEF Among
<1>6. W * B = B * W
  BY <1>1
<1>7. r = 0 => F = 0
  BY DEF FirstLength, InnerOffset
<1>8. B * (l + W + 1) = B * l + B * W + B /\ B * (q + 1) = B * q + B
  BY <1>1, <1>2
<1>9. W > 0 => B * W >= B
  <2>1. ASSUME NEW m \in Nat PROVE B * (m + 1) = B * m + B /\ B * m \in Nat
    OBVIOUS
  <2>2. W > 0 => W - 1 \in Nat /\ (W - 1) + 1 = W
    BY <1>1
  <2> HIDE DEF W
  <2>3. W > 0 => B * ((W - 1) + 1) = B * (W - 1) + B /\ B * (W - 1) \in Nat
    BY <2>1, <2>2
  <2> QED
    BY <2>2, <2>3
<1> DEFINE first == Piece(q, r, F, 0)
           whole(i) == Piece(l + i - 1, 0, B, F + (i - 1) * B)
           last == Piece(l + W, 0, len - (F + W * B), F + W * B)
<1>10. /\ r # 0 => Among(first, Plan(off, len))
       /\ \A i \in 1 .. W : Among(whole(i), Plan(off, len))
       /\ len # F + W * B => Among(last, Plan(off, len))
  <2>1. r # 0 => Among(first, Plan(off, len))
    BY PlanPieces DEF InnerOffset
  <2>2. \A i \in 1 .. W : Among(whole(i), Plan(off, len))
    BY PlanPieces
  <2>3. len # F + W * B => Among(last, Plan(off, len))
    BY PlanPieces
  <2> QED
    BY <2>1, <2>2, <2>3
<1>11. /\ first.block_idx = q
       /\ \A i \in 1 .. W : whole(i).block_idx = l + i - 1
       /\ last.block_idx = l + W
  BY DEF Piece
<1> HIDE DEF F, W, l, q, r, first, whole, last
<1>12. CASE len # F + W * B
  <2>1. off + len <= B * (l + W + 1)
    BY <1>1, <1>4, <1>6, <1>8, <1>12
  <2> QED
    BY <1>1, <1>5, <1>10, <1>11, <1>12, <2>1
<1>13. CASE len = F + W * B /\ W > 0
  <2>1. off + len <= B * (l + W)
    <3>1. B * (l + W) = B * l + B * W
      BY <1>1
    <3> QED
      BY <1>1, <1>6, <1>9, <1>13, <3>1
  <2>2. W \in 1 .. W /\ l + W - 1 \in Nat /\ (l + W - 1) + 1 = l + W
    BY <1>1, <1>13
  <2>3. Among(whole(W), Plan(off, len)) /\ whole(W).block_idx = l + W - 1
    BY <1>10, <1>11, <2>2
  <2> QED
    BY <1>5, <2>1, <2>2, <2>3
<1>14. CASE len = F + W * B /\ ~ (W > 0)
  <2>1. W = 0 /\ len = F
    BY <1>1, <1>14
  <2>2. r # 0 /\ off + len <= B * (q + 1)
    BY <1>1, <1>2, <1>3, <1>7, <1>8, <2>1
  <2> QED
    BY <1>2, <1>5, <1>10, <1>11, <2>2
<1> QED
  BY <1>12, <1>13, <1>14
=============================================================================

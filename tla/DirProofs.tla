------------------------------ MODULE DirProofs ------------------------------
(***************************************************************************)
(* What the operators of Dir do to a consistent volume: the arithmetic of  *)
(* sizes and entries, single entries, link counts, and one attempt of each *)
(* call, whichever of its steps fails.  For any number of inodes, names    *)
(* and entries, and every size of blocks, entries and node headers.        *)
(***************************************************************************)
EXTENDS Dir, FiniteSetTheorems, NaturalsInduction, TLAPS

-----------------------------------------------------------------------------
(* Arithmetic.                                                             *)

(* Every nonempty set of natural numbers has a least member.               *)
LEMMA LeastMember ==
  ASSUME NEW T, T \subseteq Nat, T # {}
  PROVE  \E m \in T : \A k \in T : m <= k
<1>1. PICK m \in T : \A k \in T : ~(<<k, m>> \in OpToRel(<, Nat))
  BY ONLY T \subseteq Nat, T # {}, NatLessThanWellFounded, WFMin
<1>2. \A j, k \in Nat : j < k => <<j, k>> \in OpToRel(<, Nat)
  BY DEF OpToRel
<1>3. m \in Nat /\ \A k \in T : k \in Nat /\ ~(k < m)
  BY <1>1, <1>2
<1>. QED  BY <1>3

(* A product grows with its factors.                                       *)
LEMMA Product ==
  ASSUME NEW a \in Nat, NEW b \in Nat, NEW c \in Nat, a <= b
  PROVE  a * c <= b * c /\ a * c \in Nat /\ (a + 1) * c = a * c + c
OBVIOUS

(* Quotients and remainders.                                               *)
LEMMA Quotient ==
  ASSUME NEW a \in Nat, NEW b \in Nat \ {0}
  PROVE  /\ a \div b \in Nat /\ a % b \in 0 .. b - 1
         /\ a = (a \div b) * b + (a % b)
OBVIOUS

LEMMA QuotientIs ==
  ASSUME NEW q \in Nat, NEW b \in Nat \ {0}, NEW r \in 0 .. b - 1
  PROVE  (q * b + r) \div b = q /\ (q * b + r) % b = r
OBVIOUS

(* There is room for an entry in a block.                                  *)
LEMMA BlockFits ==
  /\ DIRENTS_PER_BLOCK \in Nat \ {0} /\ DIR_BLOCK_UNUSED_SPACE \in 0 .. DIRENT_SIZE - 1
  /\ {BLOCK_SIZE, DIRENT_SIZE, DIRENTS_MAX} \subseteq Nat \ {0} /\ NODEHEADER_SIZE \in Nat
  /\ BLOCK_SIZE = NODEHEADER_SIZE + DIRENTS_PER_BLOCK * DIRENT_SIZE + DIR_BLOCK_UNUSED_SPACE
<1>1. /\ {BLOCK_SIZE, DIRENT_SIZE, DIRENTS_MAX} \subseteq Nat \ {0} /\ NODEHEADER_SIZE \in Nat
      /\ BLOCK_SIZE >= NODEHEADER_SIZE + DIRENT_SIZE
  BY DirAssumption
<1>2. PICK a : a = BLOCK_SIZE - NODEHEADER_SIZE
  OBVIOUS
<1>3. a \in Nat /\ a >= DIRENT_SIZE
  BY <1>1, <1>2
<1>4. /\ a \div DIRENT_SIZE \in Nat /\ a % DIRENT_SIZE \in 0 .. DIRENT_SIZE - 1
      /\ a = (a \div DIRENT_SIZE) * DIRENT_SIZE + (a % DIRENT_SIZE)
  BY <1>1, <1>3, Quotient
<1>5. a \div DIRENT_SIZE # 0
  <2>1. ASSUME a \div DIRENT_SIZE = 0 PROVE FALSE
    <3>1. 0 * DIRENT_SIZE = 0
      BY <1>1
    <3>. QED  BY <1>1, <1>3, <1>4, <2>1, <3>1
  <2>. QED  BY <2>1
<1>6. DIRENTS_PER_BLOCK = a \div DIRENT_SIZE /\ DIR_BLOCK_UNUSED_SPACE = a % DIRENT_SIZE
  BY <1>2 DEF DIRENTS_PER_BLOCK, DIR_BLOCK_UNUSED_SPACE
<1>7. PICK x : x = DIRENTS_PER_BLOCK * DIRENT_SIZE
  OBVIOUS
<1>8. a = x + DIR_BLOCK_UNUSED_SPACE
  BY <1>4, <1>6, <1>7
<1>9. /\ DIRENTS_PER_BLOCK \in Nat /\ DIRENTS_PER_BLOCK # 0
      /\ DIR_BLOCK_UNUSED_SPACE \in 0 .. DIRENT_SIZE - 1
  BY <1>4, <1>5, <1>6
<1>10. x \in Nat
  BY <1>1, <1>7, <1>9, Product
<1>11. BLOCK_SIZE = NODEHEADER_SIZE + x + DIR_BLOCK_UNUSED_SPACE
  BY <1>1, <1>2, <1>3, <1>8, <1>9, <1>10
<1>. QED  BY <1>1, <1>7, <1>9, <1>11

\* The size of a directory of n entries.
Size(n) == IF n = 0 THEN 0 ELSE DirEntryIndexToOffset(n - 1) + DIRENT_SIZE

(* The place of an entry in quotient and remainder.                        *)
LEMMA Place ==
  ASSUME NEW k \in Nat
  PROVE  \E q \in Nat, r \in 0 .. DIRENTS_PER_BLOCK - 1 :
           /\ k = q * DIRENTS_PER_BLOCK + r
           /\ k \div DIRENTS_PER_BLOCK = q /\ k % DIRENTS_PER_BLOCK = r
           /\ DirEntryIndexToOffset(k) = q * BLOCK_SIZE + NODEHEADER_SIZE + r * DIRENT_SIZE
           /\ DirEntryIndexToOffset(k) \in Nat
           /\ q * BLOCK_SIZE \in Nat /\ r * DIRENT_SIZE \in Nat
           /\ NODEHEADER_SIZE + r * DIRENT_SIZE + DIRENT_SIZE <= BLOCK_SIZE - DIR_BLOCK_UNUSED_SPACE
<1>1. PICK q, r : q = k \div DIRENTS_PER_BLOCK /\ r = k % DIRENTS_PER_BLOCK
  OBVIOUS
<1>2. q \in Nat /\ r \in 0 .. DIRENTS_PER_BLOCK - 1 /\ k = q * DIRENTS_PER_BLOCK + r
  BY <1>1, BlockFits, Quotient
<1>3. DirEntryIndexToOffset(k) = q * BLOCK_SIZE + NODEHEADER_SIZE + r * DIRENT_SIZE
  BY <1>1 DEF DirEntryIndexToOffset
<1>4. /\ q * BLOCK_SIZE \in Nat /\ r * DIRENT_SIZE \in Nat
      /\ (r + 1) * DIRENT_SIZE <= DIRENTS_PER_BLOCK * DIRENT_SIZE
      /\ (r + 1) * DIRENT_SIZE = r * DIRENT_SIZE + DIRENT_SIZE
  <2>1. r \in Nat /\ r + 1 \in Nat /\ r + 1 <= DIRENTS_PER_BLOCK /\ DIRENTS_PER_BLOCK \in Nat
        /\ DIRENT_SIZE \in Nat /\ BLOCK_SIZE \in Nat
    BY <1>2, BlockFits
  <2>2. q * BLOCK_SIZE \in Nat
    BY <1>2, <2>1, Product
  <2>3. (r + 1) * DIRENT_SIZE <= DIRENTS_PER_BLOCK * DIRENT_SIZE
    BY <2>1, Product
  <2>4. r * DIRENT_SIZE \in Nat /\ (r + 1) * DIRENT_SIZE = r * DIRENT_SIZE + DIRENT_SIZE
    BY <2>1, Product
  <2>. QED  BY <2>2, <2>3, <2>4
<1>5. DirEntryIndexToOffset(k) \in Nat
  BY <1>3, <1>4, BlockFits
<1>6. NODEHEADER_SIZE + r * DIRENT_SIZE + DIRENT_SIZE <= BLOCK_SIZE - DIR_BLOCK_UNUSED_SPACE
  <2>1. PICK x, y : x = r * DIRENT_SIZE /\ y = DIRENTS_PER_BLOCK * DIRENT_SIZE
    OBVIOUS
  <2>2. x \in Nat /\ y \in Int /\ x + DIRENT_SIZE <= y
        /\ BLOCK_SIZE = NODEHEADER_SIZE + y + DIR_BLOCK_UNUSED_SPACE
    BY <1>4, <2>1, BlockFits
  <2>. QED  BY <2>1, <2>2, BlockFits
<1>. QED  BY <1>1, <1>2, <1>3, <1>4, <1>5, <1>6

(* An entry begins after the end of the one before it.                     *)
LEMMA NextPlace ==
  ASSUME NEW j \in Nat, NEW k \in Nat, j < k
  PROVE  DirEntryIndexToOffset(j) + DIRENT_SIZE <= DirEntryIndexToOffset(k)
<1>1. PICK q \in Nat, r \in 0 .. DIRENTS_PER_BLOCK - 1 :
           /\ j = q * DIRENTS_PER_BLOCK + r
           /\ DirEntryIndexToOffset(j) = q * BLOCK_SIZE + NODEHEADER_SIZE + r * DIRENT_SIZE
           /\ q * BLOCK_SIZE \in Nat /\ r * DIRENT_SIZE \in Nat
           /\ NODEHEADER_SIZE + r * DIRENT_SIZE + DIRENT_SIZE <= BLOCK_SIZE - DIR_BLOCK_UNUSED_SPACE
  BY Place
<1>2. PICK p \in Nat, s \in 0 .. DIRENTS_PER_BLOCK - 1 :
           /\ k = p * DIRENTS_PER_BLOCK + s
           /\ DirEntryIndexToOffset(k) = p * BLOCK_SIZE + NODEHEADER_SIZE + s * DIRENT_SIZE
           /\ p * BLOCK_SIZE \in Nat /\ s * DIRENT_SIZE \in Nat
  BY Place
<1>3. q <= p
  <2>1. ASSUME p + 1 <= q PROVE FALSE
    <3>1. (p + 1) * DIRENTS_PER_BLOCK <= q * DIRENTS_PER_BLOCK
          /\ (p + 1) * DIRENTS_PER_BLOCK = p * DIRENTS_PER_BLOCK + DIRENTS_PER_BLOCK
      <4>1. p + 1 \in Nat /\ DIRENTS_PER_BLOCK \in Nat /\ p <= p
        BY BlockFits
      <4>. QED  BY <2>1, <4>1, Product
    <3>2. PICK x, y : x = p * DIRENTS_PER_BLOCK /\ y = q * DIRENTS_PER_BLOCK
      OBVIOUS
    <3>3. x \in Int /\ y \in Int /\ x + DIRENTS_PER_BLOCK <= y
      BY <3>1, <3>2, BlockFits
    <3>4. j = y + r /\ k = x + s
      BY <1>1, <1>2, <3>2
    <3>5. DIRENTS_PER_BLOCK \in Nat
      BY BlockFits
    <3>. QED  BY ONLY <3>3, <3>4, <3>5, r \in 0 .. DIRENTS_PER_BLOCK - 1,
                 s \in 0 .. DIRENTS_PER_BLOCK - 1, j < k
  <2>. QED  BY <2>1
<1>4. CASE q = p
  <2>1. r < s
    <3>1. PICK x : x = q * DIRENTS_PER_BLOCK
      OBVIOUS
    <3>2. x \in Int
      BY <3>1, BlockFits
    <3>. QED  BY <1>1, <1>2, <1>4, <3>1, <3>2
  <2>2. (r + 1) * DIRENT_SIZE <= s * DIRENT_SIZE /\ (r + 1) * DIRENT_SIZE = r * DIRENT_SIZE + DIRENT_SIZE
    <3>1. r + 1 \in Nat /\ s \in Nat /\ r \in Nat /\ r + 1 <= s /\ DIRENT_SIZE \in Nat /\ r <= s
      BY <2>1, BlockFits
    <3>. QED  BY <3>1, Product
  <2>3. PICK x, y, z : x = r * DIRENT_SIZE /\ y = s * DIRENT_SIZE /\ z = q * BLOCK_SIZE
    OBVIOUS
  <2>. QED  BY <1>1, <1>2, <1>4, <2>2, <2>3, BlockFits
<1>5. CASE q < p
  <2>1. (q + 1) * BLOCK_SIZE <= p * BLOCK_SIZE /\ (q + 1) * BLOCK_SIZE = q * BLOCK_SIZE + BLOCK_SIZE
    <3>1. q + 1 \in Nat /\ q + 1 <= p /\ q <= p /\ BLOCK_SIZE \in Nat
      BY <1>5, BlockFits
    <3>. QED  BY <3>1, Product
  <2>2. PICK x, y, z, u : x = r * DIRENT_SIZE /\ y = s * DIRENT_SIZE /\ z = q * BLOCK_SIZE /\ u = p * BLOCK_SIZE
    OBVIOUS
  <2>3. /\ x \in Nat /\ y \in Nat /\ z \in Nat /\ u \in Nat /\ z + BLOCK_SIZE <= u
        /\ NODEHEADER_SIZE + x + DIRENT_SIZE <= BLOCK_SIZE - DIR_BLOCK_UNUSED_SPACE
        /\ DirEntryIndexToOffset(j) = z + NODEHEADER_SIZE + x
        /\ DirEntryIndexToOffset(k) = u + NODEHEADER_SIZE + y
    BY <1>1, <1>2, <2>1, <2>2
  <2>. QED  BY <2>3, BlockFits
<1>. QED  BY <1>3, <1>4, <1>5

(* The place of an entry, from its block and its number in the block.      *)
LEMMA PlaceIs ==
  ASSUME NEW q \in Nat, NEW r \in 0 .. DIRENTS_PER_BLOCK - 1
  PROVE  DirEntryIndexToOffset(q * DIRENTS_PER_BLOCK + r) = q * BLOCK_SIZE + NODEHEADER_SIZE + r * DIRENT_SIZE
<1>1. PICK k : k = q * DIRENTS_PER_BLOCK + r
  OBVIOUS
<1>2. k \div DIRENTS_PER_BLOCK = q /\ k % DIRENTS_PER_BLOCK = r
  BY <1>1, BlockFits, QuotientIs
<1>. QED  BY <1>1, <1>2 DEF DirEntryIndexToOffset

(* The sizes of directories with more and more entries.                    *)
LEMMA SizeIsNat ==
  ASSUME NEW n \in Nat
  PROVE  Size(n) \in Nat /\ (n # 0 => Size(n) >= DIRENT_SIZE)
<1>1. CASE n = 0
  BY <1>1 DEF Size
<1>2. CASE n # 0
  <2>1. n - 1 \in Nat
    BY <1>2
  <2>2. DirEntryIndexToOffset(n - 1) \in Nat
    BY <2>1, Place
  <2>. QED  BY <1>2, <2>2, BlockFits DEF Size
<1>. QED  BY <1>1, <1>2

LEMMA SizeAfter ==
  ASSUME NEW k \in Nat
  PROVE  DirEntryIndexToOffset(k) + DIRENT_SIZE = Size(k + 1) /\ DirEntryIndexToOffset(k) \in Nat
<1>1. k + 1 # 0 /\ (k + 1) - 1 = k
  OBVIOUS
<1>. QED  BY <1>1, Place DEF Size

LEMMA SizeGrows ==
  ASSUME NEW m \in Nat, NEW n \in Nat, m < n
  PROVE  Size(m) + DIRENT_SIZE <= Size(n)
<1>1. CASE m = 0
  BY <1>1, SizeIsNat, BlockFits DEF Size
<1>2. CASE m # 0
  <2>1. m - 1 \in Nat /\ n - 1 \in Nat /\ m - 1 < n - 1
    BY <1>2
  <2>2. DirEntryIndexToOffset(m - 1) + DIRENT_SIZE <= DirEntryIndexToOffset(n - 1)
        /\ DirEntryIndexToOffset(m - 1) \in Nat /\ DirEntryIndexToOffset(n - 1) \in Nat
    BY <2>1, NextPlace, Place
  <2>. QED  BY <1>2, <2>2, BlockFits DEF Size
<1>. QED  BY <1>1, <1>2

LEMMA SizeMonotone ==
  ASSUME NEW m \in Nat, NEW n \in Nat
  PROVE  /\ Size(m) <= Size(n) <=> m <= n
         /\ Size(m) = Size(n) <=> m = n
<1>1. Size(m) \in Nat /\ Size(n) \in Nat /\ DIRENT_SIZE \in Nat \ {0}
  BY SizeIsNat, BlockFits
<1>2. m < n => Size(m) + DIRENT_SIZE <= Size(n)
  BY SizeGrows
<1>3. n < m => Size(n) + DIRENT_SIZE <= Size(m)
  BY SizeGrows
<1>. QED  BY <1>1, <1>2, <1>3

(* An entry is before the end of a directory if it is one of its entries.  *)
LEMMA Reach ==
  ASSUME NEW k \in Nat, NEW n \in Nat
  PROVE  DirEntryIndexToOffset(k) >= Size(n) <=> k >= n
<1>1. DirEntryIndexToOffset(k) \in Nat /\ Size(n) \in Nat /\ DIRENT_SIZE \in Nat \ {0}
  BY SizeAfter, SizeIsNat, BlockFits
<1>2. ASSUME k < n PROVE DirEntryIndexToOffset(k) < Size(n)
  <2>1. Size(k + 1) <= Size(n)
    BY <1>2, SizeMonotone
  <2>2. DirEntryIndexToOffset(k) + DIRENT_SIZE = Size(k + 1)
    BY SizeAfter
  <2>. QED  BY <1>1, <2>1, <2>2
<1>3. ASSUME k >= n PROVE DirEntryIndexToOffset(k) >= Size(n)
  <2>1. CASE n = 0
    BY <1>1, <2>1 DEF Size
  <2>2. CASE n # 0
    <3>1. n - 1 \in Nat /\ n - 1 < k
      BY <1>3, <2>2
    <3>2. DirEntryIndexToOffset(n - 1) + DIRENT_SIZE <= DirEntryIndexToOffset(k)
      BY <3>1, NextPlace
    <3>. QED  BY <2>2, <3>2 DEF Size
  <2>. QED  BY <2>1, <2>2
<1>. QED  BY <1>1, <1>2, <1>3

(* A directory of that size has so many entries.                           *)
LEMMA CountIs ==
  ASSUME NEW n \in Nat
  PROVE  DirOffsetToEntryIndex(Size(n)) = n
<1>1. CASE n = 0
  <2>1. 0 = 0 * BLOCK_SIZE + 0 /\ 0 \in 0 .. BLOCK_SIZE - 1 /\ BLOCK_SIZE \in Nat \ {0}
    BY BlockFits
  <2>2. 0 \div BLOCK_SIZE = 0 /\ 0 % BLOCK_SIZE = 0
    BY <2>1, QuotientIs
  <2>3. 0 * DIRENTS_PER_BLOCK = 0
    BY BlockFits
  <2>. QED  BY <1>1, <2>2, <2>3 DEF Size, DirOffsetToEntryIndex
<1>2. CASE n # 0
  <2>1. n - 1 \in Nat
    BY <1>2
  <2>2. PICK q \in Nat, r \in 0 .. DIRENTS_PER_BLOCK - 1 :
             /\ n - 1 = q * DIRENTS_PER_BLOCK + r
             /\ DirEntryIndexToOffset(n - 1) = q * BLOCK_SIZE + NODEHEADER_SIZE + r * DIRENT_SIZE
             /\ q * BLOCK_SIZE \in Nat /\ r * DIRENT_SIZE \in Nat
             /\ NODEHEADER_SIZE + r * DIRENT_SIZE + DIRENT_SIZE <= BLOCK_SIZE - DIR_BLOCK_UNUSED_SPACE
    BY <2>1, Place
  <2>3. PICK t : t = NODEHEADER_SIZE + (r + 1) * DIRENT_SIZE
    OBVIOUS
  <2>4. (r + 1) * DIRENT_SIZE = r * DIRENT_SIZE + DIRENT_SIZE
    BY <2>2, BlockFits, Product
  <2>5. t \in Nat \ {0} /\ t <= BLOCK_SIZE - DIR_BLOCK_UNUSED_SPACE
    BY <2>2, <2>3, <2>4, BlockFits
  <2>6. Size(n) = q * BLOCK_SIZE + t
    <3>1. PICK x, y : x = q * BLOCK_SIZE /\ y = r * DIRENT_SIZE
      OBVIOUS
    <3>2. t = NODEHEADER_SIZE + (y + DIRENT_SIZE) /\ Size(n) = x + NODEHEADER_SIZE + y + DIRENT_SIZE
          /\ x \in Nat /\ y \in Nat
      BY <1>2, <2>2, <2>3, <2>4, <3>1 DEF Size
    <3>3. Size(n) = x + t
      BY <3>2, BlockFits
    <3>. QED  BY <3>1, <3>3
  <2>7. n = q * DIRENTS_PER_BLOCK + (r + 1)
    <3>1. PICK x : x = q * DIRENTS_PER_BLOCK
      OBVIOUS
    <3>2. x \in Int
      BY <3>1, BlockFits
    <3>3. n - 1 = x + r
      BY <2>2, <3>1
    <3>. QED  BY ONLY <3>1, <3>2, <3>3, n \in Nat, r \in 0 .. DIRENTS_PER_BLOCK - 1
  <2>8. CASE t < BLOCK_SIZE
    <3>1. t \in 0 .. BLOCK_SIZE - 1 /\ BLOCK_SIZE \in Nat \ {0}
      BY <2>5, <2>8, BlockFits
    <3>2. Size(n) \div BLOCK_SIZE = q /\ Size(n) % BLOCK_SIZE = t
      BY <2>6, <3>1, QuotientIs
    <3>3. t - NODEHEADER_SIZE = (r + 1) * DIRENT_SIZE + 0
      <4>1. PICK x : x = (r + 1) * DIRENT_SIZE
        OBVIOUS
      <4>2. x \in Int
        BY <4>1, BlockFits
      <4>. QED  BY <2>3, <4>1, <4>2, BlockFits
    <3>4. r + 1 \in Nat /\ DIRENT_SIZE \in Nat \ {0} /\ 0 \in 0 .. DIRENT_SIZE - 1
      BY BlockFits
    <3>5. ((r + 1) * DIRENT_SIZE + 0) \div DIRENT_SIZE = r + 1
      BY <3>4, QuotientIs
    <3>6. (t - NODEHEADER_SIZE) \div DIRENT_SIZE = r + 1
      BY <3>3, <3>5
    <3>. QED  BY <2>5, <2>7, <3>2, <3>6 DEF DirOffsetToEntryIndex
  <2>9. CASE t = BLOCK_SIZE
    <3>1. r + 1 = DIRENTS_PER_BLOCK
      <4>1. ASSUME r + 1 < DIRENTS_PER_BLOCK PROVE FALSE
        <5>1. r + 1 \in Nat /\ (r + 1) + 1 \in Nat /\ (r + 1) + 1 <= DIRENTS_PER_BLOCK
              /\ DIRENTS_PER_BLOCK \in Nat /\ DIRENT_SIZE \in Nat /\ r + 1 <= r + 1
          BY <4>1, BlockFits
        <5>2. ((r + 1) + 1) * DIRENT_SIZE <= DIRENTS_PER_BLOCK * DIRENT_SIZE
              /\ ((r + 1) + 1) * DIRENT_SIZE = (r + 1) * DIRENT_SIZE + DIRENT_SIZE
          BY <5>1, Product
        <5>3. PICK x, y : x = (r + 1) * DIRENT_SIZE /\ y = DIRENTS_PER_BLOCK * DIRENT_SIZE
          OBVIOUS
        <5>4. /\ x \in Int /\ y \in Int /\ x + DIRENT_SIZE <= y /\ t = NODEHEADER_SIZE + x
              /\ BLOCK_SIZE = NODEHEADER_SIZE + y + DIR_BLOCK_UNUSED_SPACE
          BY <2>3, <5>2, <5>3, BlockFits
        <5>5. NODEHEADER_SIZE \in Nat /\ DIRENT_SIZE \in Nat \ {0} /\ DIR_BLOCK_UNUSED_SPACE \in Nat
          BY BlockFits
        <5>6. BLOCK_SIZE \in Nat /\ BLOCK_SIZE <= BLOCK_SIZE - DIR_BLOCK_UNUSED_SPACE
          BY <2>5, <2>9
        <5>7. DIR_BLOCK_UNUSED_SPACE = 0
          BY ONLY <5>5, <5>6
        <5>8. NODEHEADER_SIZE + x = NODEHEADER_SIZE + y
          <6>1. BLOCK_SIZE = NODEHEADER_SIZE + x
            BY <2>9, <5>4
          <6>2. BLOCK_SIZE = NODEHEADER_SIZE + y + 0
            BY <5>4, <5>7
          <6>. QED  BY ONLY <5>4, <5>5, <6>1, <6>2
        <5>9. x = y
          BY ONLY <5>4, <5>5, <5>8
        <5>. QED  BY ONLY <5>4, <5>5, <5>9
      <4>. QED  BY <4>1, BlockFits
    <3>2. Size(n) = (q + 1) * BLOCK_SIZE + 0
      <4>1. (q + 1) * BLOCK_SIZE = q * BLOCK_SIZE + BLOCK_SIZE
        BY BlockFits, Product
      <4>. QED  BY <2>2, <2>6, <2>9, <4>1, BlockFits
    <3>3. q + 1 \in Nat /\ BLOCK_SIZE \in Nat \ {0} /\ 0 \in 0 .. BLOCK_SIZE - 1
      BY BlockFits
    <3>4. Size(n) \div BLOCK_SIZE = q + 1 /\ Size(n) % BLOCK_SIZE = 0
      BY <3>2, <3>3, QuotientIs, SMTT(30)
    <3>5. (q + 1) * DIRENTS_PER_BLOCK = q * DIRENTS_PER_BLOCK + DIRENTS_PER_BLOCK
      BY BlockFits, Product
    <3>6. (q + 1) * DIRENTS_PER_BLOCK = n
      BY <2>7, <3>1, <3>5
    <3>7. DirOffsetToEntryIndex(Size(n)) = (q + 1) * DIRENTS_PER_BLOCK + 0
      BY <3>4 DEF DirOffsetToEntryIndex
    <3>. QED  BY <3>6, <3>7
  <2>. QED  BY <2>5, <2>8, <2>9, BlockFits
<1>. QED  BY <1>1, <1>2

(* A truncated directory has the size of its entries.                      *)
LEMMA TruncSizeIs ==
  ASSUME NEW n \in Nat
  PROVE  TruncSize(n) = Size(n)
<1>1. PICK q \in Nat, r \in 0 .. DIRENTS_PER_BLOCK - 1 :
           /\ n = q * DIRENTS_PER_BLOCK + r
           /\ n % DIRENTS_PER_BLOCK = r
           /\ DirEntryIndexToOffset(n) = q * BLOCK_SIZE + NODEHEADER_SIZE + r * DIRENT_SIZE
           /\ q * BLOCK_SIZE \in Nat /\ r * DIRENT_SIZE \in Nat
           /\ NODEHEADER_SIZE + r * DIRENT_SIZE + DIRENT_SIZE <= BLOCK_SIZE - DIR_BLOCK_UNUSED_SPACE
  BY Place
<1>2. PICK x, y : x = q * BLOCK_SIZE /\ y = r * DIRENT_SIZE
  OBVIOUS
<1>3. /\ x \in Nat /\ y \in Nat /\ DirEntryIndexToOffset(n) = x + NODEHEADER_SIZE + y
      /\ NODEHEADER_SIZE + y + DIRENT_SIZE <= BLOCK_SIZE - DIR_BLOCK_UNUSED_SPACE
  BY <1>1, <1>2
<1>4. CASE r = 0
  <2>1. y = 0
    BY <1>2, <1>4, BlockFits
  <2>2. DirEntryIndexToOffset(n) - NODEHEADER_SIZE = x
    BY <1>3, <2>1, BlockFits
  <2>3. x = q * BLOCK_SIZE + 0 /\ BLOCK_SIZE \in Nat \ {0} /\ 0 \in 0 .. BLOCK_SIZE - 1
    BY <1>2, <1>3, BlockFits
  <2>4. x % BLOCK_SIZE = 0
    BY <2>3, QuotientIs
  <2>5. TruncSize(n) = IF x >= BLOCK_SIZE THEN x - DIR_BLOCK_UNUSED_SPACE ELSE x
    BY <1>1, <1>4, <2>2, <2>4 DEF TruncSize
  <2>6. CASE q = 0
    <3>1. x = 0
      BY <1>2, <2>6, BlockFits
    <3>2. n = 0
      BY <1>1, <1>4, <2>6, BlockFits
    <3>. QED  BY <2>5, <3>1, <3>2, BlockFits DEF Size
  <2>7. CASE q # 0
    <3>1. PICK p \in Nat : q = p + 1
      <4>1. q - 1 \in Nat /\ q = (q - 1) + 1
        BY <2>7
      <4>. QED  BY <4>1
    <3>2. q * BLOCK_SIZE = p * BLOCK_SIZE + BLOCK_SIZE /\ p * BLOCK_SIZE \in Nat
      BY <3>1, BlockFits, Product
    <3>3. x >= BLOCK_SIZE
      BY <1>2, <3>2, BlockFits
    <3>4. PICK s : s = DIRENTS_PER_BLOCK - 1
      OBVIOUS
    <3>5. s \in 0 .. DIRENTS_PER_BLOCK - 1 /\ DIRENTS_PER_BLOCK = s + 1 /\ s \in Nat
      BY <3>4, BlockFits
    <3>6. n - 1 = p * DIRENTS_PER_BLOCK + s
      <4>1. q * DIRENTS_PER_BLOCK = p * DIRENTS_PER_BLOCK + DIRENTS_PER_BLOCK
        BY <3>1, BlockFits, Product
      <4>2. PICK z : z = p * DIRENTS_PER_BLOCK
        OBVIOUS
      <4>3. z \in Int
        BY <4>2, BlockFits
      <4>4. n = z + DIRENTS_PER_BLOCK
        BY <1>1, <1>4, <4>1, <4>2, <4>3, BlockFits
      <4>. QED  BY <3>5, <4>2, <4>3, <4>4
    <3>7. DirEntryIndexToOffset(n - 1) = p * BLOCK_SIZE + NODEHEADER_SIZE + s * DIRENT_SIZE
      BY <3>5, <3>6, PlaceIs
    <3>8. DIRENTS_PER_BLOCK * DIRENT_SIZE = s * DIRENT_SIZE + DIRENT_SIZE /\ s * DIRENT_SIZE \in Nat
      BY <3>5, BlockFits, Product
    <3>9. PICK z, w : z = p * BLOCK_SIZE /\ w = s * DIRENT_SIZE
      OBVIOUS
    <3>10. /\ z \in Nat /\ w \in Nat /\ x = z + BLOCK_SIZE
           /\ DirEntryIndexToOffset(n - 1) = z + NODEHEADER_SIZE + w
           /\ BLOCK_SIZE = NODEHEADER_SIZE + (w + DIRENT_SIZE) + DIR_BLOCK_UNUSED_SPACE
      BY <1>2, <3>2, <3>7, <3>8, <3>9, BlockFits
    <3>11. DirEntryIndexToOffset(n - 1) + DIRENT_SIZE = x - DIR_BLOCK_UNUSED_SPACE
      BY <3>10, BlockFits
    <3>12. n # 0
      <4>1. PICK u : u = p * DIRENTS_PER_BLOCK
        OBVIOUS
      <4>2. u \in Nat
        BY <4>1, BlockFits, Product
      <4>. QED  BY <3>5, <3>6, <4>1, <4>2
    <3>. QED  BY <2>5, <3>3, <3>11, <3>12 DEF Size
  <2>. QED  BY <2>6, <2>7
<1>5. CASE r # 0
  <2>1. PICK s \in Nat : r = s + 1
    <3>1. r - 1 \in Nat /\ r = (r - 1) + 1
      BY <1>5
    <3>. QED  BY <3>1
  <2>2. s \in 0 .. DIRENTS_PER_BLOCK - 1
    BY <2>1, BlockFits
  <2>3. r * DIRENT_SIZE = s * DIRENT_SIZE + DIRENT_SIZE /\ s * DIRENT_SIZE \in Nat
    BY <2>1, BlockFits, Product
  <2>4. n - 1 = q * DIRENTS_PER_BLOCK + s /\ n # 0
    <3>1. PICK z : z = q * DIRENTS_PER_BLOCK
      OBVIOUS
    <3>2. z \in Nat
      BY <3>1, BlockFits, Product
    <3>. QED  BY <1>1, <2>1, <3>1, <3>2
  <2>5. DirEntryIndexToOffset(n - 1) = q * BLOCK_SIZE + NODEHEADER_SIZE + s * DIRENT_SIZE
    BY <2>2, <2>4, PlaceIs
  <2>6. PICK w : w = s * DIRENT_SIZE
    OBVIOUS
  <2>7. w \in Nat /\ y = w + DIRENT_SIZE /\ DirEntryIndexToOffset(n - 1) = x + NODEHEADER_SIZE + w
    BY <1>2, <2>3, <2>5, <2>6
  <2>8. DirEntryIndexToOffset(n - 1) + DIRENT_SIZE = DirEntryIndexToOffset(n)
    BY <1>3, <2>7, BlockFits
  <2>9. DirEntryIndexToOffset(n) % BLOCK_SIZE # 0
    <3>1. PICK t : t = NODEHEADER_SIZE + y
      OBVIOUS
    <3>2. t \in 0 .. BLOCK_SIZE - 1 /\ t # 0 /\ BLOCK_SIZE \in Nat \ {0}
      BY <1>3, <2>7, <3>1, BlockFits
    <3>3. DirEntryIndexToOffset(n) = q * BLOCK_SIZE + t
      BY <1>2, <1>3, <3>1, BlockFits
    <3>4. (q * BLOCK_SIZE + t) % BLOCK_SIZE = t
      BY <3>2, QuotientIs
    <3>5. DirEntryIndexToOffset(n) % BLOCK_SIZE = t
      BY <3>3, <3>4
    <3>. QED  BY <3>2, <3>5
  <2>10. TruncSize(n) = DirEntryIndexToOffset(n)
    BY <1>1, <1>5, <2>9 DEF TruncSize
  <2>. QED  BY <2>4, <2>8, <2>10 DEF Size
<1>. QED  BY <1>4, <1>5


-----------------------------------------------------------------------------
(* Directories: an array of entries, of which the size says how many count. *)

Dirents == [0 .. DIRENTS_MAX - 1 -> [name : Names \cup {""}, ino : Inodes \cup {INODE_INVALID}]]
DirVolumes == [node : [Inodes -> Nodes], orphans : SUBSET Inodes, fMounted : BOOLEAN, fReadOnly : BOOLEAN]

\* The entries up to the last one in use.
IsTop(D, n) ==
  /\ n \in 0 .. DIRENTS_MAX
  /\ \A k \in n .. DIRENTS_MAX - 1 : D[k].ino = INODE_INVALID
  /\ n # 0 => D[n - 1].ino # INODE_INVALID
Top(D) == CHOOSE n : IsTop(D, n)

(* There is one such number.                                               *)
LEMMA TopIs ==
  ASSUME NEW D
  PROVE  IsTop(D, Top(D)) /\ \A n : IsTop(D, n) => n = Top(D)
<1>. DEFINE T == {n \in 0 .. DIRENTS_MAX : \A k \in n .. DIRENTS_MAX - 1 : D[k].ino = INODE_INVALID}
<1>1. DIRENTS_MAX \in Nat
  BY BlockFits
<1>2. T \subseteq Nat /\ DIRENTS_MAX \in T
  BY <1>1
<1>3. PICK m \in T : \A k \in T : m <= k
  BY <1>2, LeastMember
<1>4. IsTop(D, m)
  <2>1. ASSUME m # 0, D[m - 1].ino = INODE_INVALID PROVE FALSE
    <3>1. m - 1 \in T
      BY <1>1, <2>1
    <3>. QED  BY <1>1, <1>3, <3>1
  <2>. QED  BY <2>1 DEF IsTop
<1>5. \A n, k : IsTop(D, n) /\ IsTop(D, k) => ~(n < k)
  <2>. SUFFICES ASSUME NEW n, NEW k, IsTop(D, n), IsTop(D, k), n < k PROVE FALSE
    OBVIOUS
  <2>1. k - 1 \in n .. DIRENTS_MAX - 1 /\ k # 0
    BY <1>1 DEF IsTop
  <2>. QED  BY <2>1 DEF IsTop
<1>6. \A n, k : IsTop(D, n) /\ IsTop(D, k) => n = k
  <2>. SUFFICES ASSUME NEW n, NEW k, IsTop(D, n), IsTop(D, k) PROVE n = k
    OBVIOUS
  <2>1. n \in Nat /\ k \in Nat
    BY <1>1 DEF IsTop
  <2>2. ~(n < k) /\ ~(k < n)
    BY ONLY <1>5, IsTop(D, n), IsTop(D, k)
  <2>. QED  BY ONLY <2>1, <2>2
<1>7. IsTop(D, Top(D))
  BY <1>4 DEF Top
<1>. QED  BY <1>6, <1>7

(* The greatest member of a set of integers.                               *)
LEMMA MaxIs ==
  ASSUME NEW S, S \subseteq Int, NEW m \in S, \A y \in S : y <= m
  PROVE  Max(S) = m
<1>1. \A x \in S : (\A y \in S : x >= y) => x = m
  OBVIOUS
<1>2. \A y \in S : m >= y
  OBVIOUS
<1>. QED  BY <1>1, <1>2 DEF Max

(* The least member of a set of natural numbers.                           *)
LEMMA MinIs ==
  ASSUME NEW S, S \subseteq Nat, S # {}
  PROVE  Min(S) \in S /\ \A y \in S : Min(S) <= y
<1>1. \E m \in S : \A y \in S : m <= y
  BY LeastMember
<1>. QED  BY <1>1 DEF Min

(* Writing an entry in use.                                                *)
LEMMA TopOfPut ==
  ASSUME NEW D \in Dirents, NEW idx \in 0 .. DIRENTS_MAX - 1, NEW e, e.ino # INODE_INVALID
  PROVE  Top([D EXCEPT ![idx] = e]) = IF idx + 1 > Top(D) THEN idx + 1 ELSE Top(D)
<1>. DEFINE E == [D EXCEPT ![idx] = e]
            n == IF idx + 1 > Top(D) THEN idx + 1 ELSE Top(D)
<1>1. IsTop(D, Top(D)) /\ DIRENTS_MAX \in Nat \ {0}
  BY TopIs, BlockFits
<1>2. E[idx] = e /\ \A k \in 0 .. DIRENTS_MAX - 1 : k # idx => E[k] = D[k]
  BY DEF Dirents
<1>3. IsTop(E, n)
  <2>. HIDE DEF E
  <2>1. Top(D) \in 0 .. DIRENTS_MAX
    BY <1>1 DEF IsTop
  <2>2. n \in 0 .. DIRENTS_MAX /\ n >= idx + 1 /\ n >= Top(D) /\ (n = idx + 1 \/ n = Top(D))
    BY <1>1, <2>1
  <2>. HIDE DEF n
  <2>3. ASSUME NEW k \in n .. DIRENTS_MAX - 1 PROVE E[k].ino = INODE_INVALID
    <3>1. k \in Top(D) .. DIRENTS_MAX - 1 /\ k # idx /\ k \in 0 .. DIRENTS_MAX - 1
      BY <1>1, <2>1, <2>2
    <3>. QED  BY <1>1, <1>2, <3>1 DEF IsTop
  <2>4. ASSUME n # 0 PROVE E[n - 1].ino # INODE_INVALID
    <3>1. CASE n - 1 = idx
      BY <1>2, <3>1
    <3>2. CASE n - 1 # idx
      <4>1. n = Top(D) /\ n - 1 \in 0 .. DIRENTS_MAX - 1
        BY <1>1, <2>2, <2>4, <3>2
      <4>. QED  BY <1>1, <1>2, <2>4, <3>2, <4>1 DEF IsTop
    <3>. QED  BY <3>1, <3>2
  <2>. QED  BY <2>2, <2>3, <2>4 DEF IsTop
<1>. QED  BY <1>3, TopIs

(* Clearing an entry which is not the last one.                            *)
LEMMA TopOfCut ==
  ASSUME NEW D \in Dirents, NEW idx \in 0 .. DIRENTS_MAX - 1, NEW e, e.ino = INODE_INVALID,
         D[idx].ino # INODE_INVALID, idx + 1 # Top(D)
  PROVE  Top([D EXCEPT ![idx] = e]) = Top(D) /\ idx + 1 < Top(D)
<1>. DEFINE E == [D EXCEPT ![idx] = e]
<1>1. IsTop(D, Top(D)) /\ DIRENTS_MAX \in Nat \ {0}
  BY TopIs, BlockFits
<1>2. E[idx] = e /\ \A k \in 0 .. DIRENTS_MAX - 1 : k # idx => E[k] = D[k]
  BY DEF Dirents
<1>3. Top(D) \in 0 .. DIRENTS_MAX /\ idx + 1 < Top(D)
  <2>1. Top(D) \in 0 .. DIRENTS_MAX
    BY <1>1 DEF IsTop
  <2>2. ~(idx \in Top(D) .. DIRENTS_MAX - 1)
    BY <1>1 DEF IsTop
  <2>. QED  BY <1>1, <2>1, <2>2
<1>4. IsTop(E, Top(D))
  <2>. HIDE DEF E
  <2>1. ASSUME NEW k \in Top(D) .. DIRENTS_MAX - 1 PROVE E[k].ino = INODE_INVALID
    <3>1. k # idx /\ k \in 0 .. DIRENTS_MAX - 1
      BY <1>1, <1>3
    <3>. QED  BY <1>1, <1>2, <3>1 DEF IsTop
  <2>2. Top(D) - 1 \in 0 .. DIRENTS_MAX - 1 /\ Top(D) - 1 # idx /\ Top(D) # 0
    BY <1>1, <1>3
  <2>3. E[Top(D) - 1].ino # INODE_INVALID
    BY <1>1, <1>2, <2>2 DEF IsTop
  <2>. QED  BY <1>3, <2>1, <2>3 DEF IsTop
<1>. QED  BY <1>3, <1>4, TopIs

-----------------------------------------------------------------------------
(* The entries of a directory change and its size with them.               *)
WithDirents(v, d, D) ==
  [v EXCEPT !.node[d] = [@ EXCEPT !.dirents = D, !.ullSize = Size(Top(D))]]

Sized(v, d) ==
  /\ v.node[d].ullSize = Size(Top(v.node[d].dirents))
  /\ \A k \in 0 .. DIRENTS_MAX - 1 : v.node[d].dirents[k].ino = INODE_INVALID => v.node[d].dirents[k] = Unused

(* The greatest size.                                                      *)
LEMMA SizeBound ==
  ASSUME NEW D
  PROVE  Size(Top(D)) \in 0 .. DirEntryIndexToOffset(DIRENTS_MAX - 1) + DIRENT_SIZE
<1>1. Top(D) \in 0 .. DIRENTS_MAX /\ DIRENTS_MAX \in Nat \ {0}
  BY TopIs, BlockFits DEF IsTop
<1>2. DirEntryIndexToOffset(DIRENTS_MAX - 1) + DIRENT_SIZE = Size(DIRENTS_MAX)
  BY <1>1 DEF Size
<1>3. Top(D) \in Nat /\ Top(D) <= DIRENTS_MAX
  BY <1>1
<1>4. Size(Top(D)) \in Nat /\ Size(DIRENTS_MAX) \in Nat /\ Size(Top(D)) <= Size(DIRENTS_MAX)
  BY <1>1, <1>3, SizeIsNat, SizeMonotone
<1>. QED  BY <1>2, <1>4

(* What the fields of a volume are.                                        *)
LEMMA VolumeTypes ==
  ASSUME NEW v \in DirVolumes, NEW i \in Inodes
  PROVE  /\ v.node \in [Inodes -> Nodes] /\ v.node[i] \in Nodes
         /\ v.node[i].dirents \in Dirents
         /\ v.node[i].uNLink \in 0 .. UINT16_MAX
         /\ v.node[i].ulPInode \in Inodes \cup {INODE_INVALID}
         /\ v.node[i].type \in {"FREE", "DIR", "REG", "LNK"}
         /\ v.orphans \subseteq Inodes /\ v.fMounted \in BOOLEAN /\ v.fReadOnly \in BOOLEAN
         /\ \A k \in 0 .. DIRENTS_MAX - 1 :
              /\ v.node[i].dirents[k] \in [name : Names \cup {""}, ino : Inodes \cup {INODE_INVALID}]
              /\ v.node[i].dirents[k].ino \in Inodes \cup {INODE_INVALID}
              /\ v.node[i].dirents[k].name \in Names \cup {""}
<1>1. v.node \in [Inodes -> Nodes] /\ v.orphans \subseteq Inodes /\ v.fMounted \in BOOLEAN /\ v.fReadOnly \in BOOLEAN
  BY DEF DirVolumes
<1>2. v.node[i] \in Nodes
  BY <1>1
<1>3. /\ v.node[i].dirents \in Dirents
      /\ v.node[i].uNLink \in 0 .. UINT16_MAX
      /\ v.node[i].ulPInode \in Inodes \cup {INODE_INVALID}
      /\ v.node[i].type \in {"FREE", "DIR", "REG", "LNK"}
  BY <1>2 DEF Nodes, Dirents
<1>4. ASSUME NEW k \in 0 .. DIRENTS_MAX - 1
      PROVE  v.node[i].dirents[k] \in [name : Names \cup {""}, ino : Inodes \cup {INODE_INVALID}]
  BY <1>3 DEF Dirents
<1>. QED  BY <1>1, <1>2, <1>3, <1>4

(* Link counts are numbers.                                                *)
LEMMA LinkCountIsNat ==
  ASSUME NEW v \in DirVolumes, NEW i \in Inodes
  PROVE  v.node[i].uNLink \in Nat /\ v.node[i].uNLink <= UINT16_MAX /\ UINT16_MAX \in Nat /\ UINT16_MAX >= 1
<1>1. UINT16_MAX \in {UINT16_MAX, BLOCK_SIZE, DIRENT_SIZE, DIRENTS_MAX}
  OBVIOUS
<1>2. UINT16_MAX \in Nat \ {0}
  BY <1>1, DirAssumption
<1>3. v.node[i].uNLink \in 0 .. UINT16_MAX
  BY VolumeTypes
<1>. QED  BY <1>2, <1>3

(* What a change of the entries of a directory leaves alone.               *)
Changed(v, d, D, w) ==
  /\ w \in DirVolumes
  /\ w.node[d].dirents = D /\ w.node[d].ullSize = Size(Top(D))
  /\ \A i \in Inodes : i # d => w.node[i] = v.node[i]
  /\ \A i \in Inodes : /\ w.node[i].type = v.node[i].type
                       /\ w.node[i].uNLink = v.node[i].uNLink
                       /\ w.node[i].ulPInode = v.node[i].ulPInode
  /\ w.orphans = v.orphans /\ w.fMounted = v.fMounted /\ w.fReadOnly = v.fReadOnly

(* Such a change changes nothing else.                                     *)
LEMMA WithDirentsIs ==
  ASSUME NEW v \in DirVolumes, NEW d \in Inodes, NEW D \in Dirents
  PROVE  Changed(v, d, D, WithDirents(v, d, D))
<1>. DEFINE nd == [v.node[d] EXCEPT !.dirents = D, !.ullSize = Size(Top(D))]
<1>1. v.node \in [Inodes -> Nodes] /\ v.node[d] \in Nodes
  BY VolumeTypes
<1>2. /\ nd \in Nodes /\ nd.dirents = D /\ nd.ullSize = Size(Top(D))
      /\ nd.type = v.node[d].type /\ nd.uNLink = v.node[d].uNLink /\ nd.ulPInode = v.node[d].ulPInode
  BY <1>1, SizeBound DEF Nodes, Dirents
<1>3. WithDirents(v, d, D) = [v EXCEPT !.node = [v.node EXCEPT ![d] = nd]]
  BY DEF WithDirents
<1>. HIDE DEF nd
<1>4. /\ WithDirents(v, d, D) \in DirVolumes
      /\ WithDirents(v, d, D).node = [v.node EXCEPT ![d] = nd]
      /\ WithDirents(v, d, D).orphans = v.orphans /\ WithDirents(v, d, D).fMounted = v.fMounted
      /\ WithDirents(v, d, D).fReadOnly = v.fReadOnly
  BY <1>1, <1>2, <1>3 DEF DirVolumes
<1>5. WithDirents(v, d, D).node[d] = nd
      /\ \A i \in Inodes : i # d => WithDirents(v, d, D).node[i] = v.node[i]
  BY <1>1, <1>4
<1>. QED  BY <1>2, <1>4, <1>5 DEF Changed

(* The number of entries that a lookup looks at.                           *)
LEMMA CountIsTop ==
  ASSUME NEW v, NEW d, Sized(v, d)
  PROVE  Count(v, d) = Top(v.node[d].dirents) /\ Top(v.node[d].dirents) \in 0 .. DIRENTS_MAX
<1>1. Top(v.node[d].dirents) \in 0 .. DIRENTS_MAX
  BY TopIs DEF IsTop
<1>. QED  BY <1>1, CountIs, BlockFits DEF Count, Sized

(* Writing an entry in use.                                                *)
LEMMA WriteIs ==
  ASSUME NEW v \in DirVolumes, NEW d \in Inodes, Sized(v, d), NEW idx \in 0 .. DIRENTS_MAX - 1,
         NEW ino, NEW name, ino # INODE_INVALID, NEW f
  PROVE  DirEntryWrite(v, d, idx, ino, name, f) =
           Step(v, f, WithDirents(v, d, [v.node[d].dirents EXCEPT ![idx] = [name |-> name, ino |-> ino]]))
<1>. DEFINE D == v.node[d].dirents
            E == [D EXCEPT ![idx] = [name |-> name, ino |-> ino]]
            end == DirEntryIndexToOffset(idx) + DIRENT_SIZE
            size == v.node[d].ullSize
<1>1. D \in Dirents /\ v.node \in [Inodes -> Nodes] /\ v.node[d] \in Nodes
  BY VolumeTypes
<1>2. Top(E) = IF idx + 1 > Top(D) THEN idx + 1 ELSE Top(D)
  BY <1>1, TopOfPut
<1>3. idx \in Nat /\ idx + 1 \in Nat /\ Top(D) \in Nat
  BY TopIs, BlockFits DEF IsTop
<1>4. end = Size(idx + 1) /\ size = Size(Top(D))
  BY <1>3, SizeAfter DEF Sized
<1>5. Size(Top(E)) = IF end > size THEN end ELSE size
  <2>. HIDE DEF D, E, end, size
  <2>1. Size(idx + 1) \in Nat /\ Size(Top(D)) \in Nat
        /\ (Size(idx + 1) <= Size(Top(D)) <=> idx + 1 <= Top(D))
    BY <1>3, SizeIsNat, SizeMonotone
  <2>2. CASE idx + 1 > Top(D)
    BY <1>2, <1>3, <1>4, <2>1, <2>2
  <2>3. CASE ~(idx + 1 > Top(D))
    BY <1>2, <1>3, <1>4, <2>1, <2>3
  <2>. QED  BY <2>2, <2>3
<1>6. [v EXCEPT !.node[d].dirents[idx] = [name |-> name, ino |-> ino],
                !.node[d].ullSize = IF end > @ THEN end ELSE @]
        = [v EXCEPT !.node = [v.node EXCEPT ![d] =
             [v.node[d] EXCEPT !.dirents = E, !.ullSize = IF end > size THEN end ELSE size]]]
  <2>. HIDE DEF end
  <2>. QED  BY <1>1 DEF DirVolumes, Nodes
<1>7. WithDirents(v, d, E) = [v EXCEPT !.node = [v.node EXCEPT ![d] =
             [v.node[d] EXCEPT !.dirents = E, !.ullSize = IF end > size THEN end ELSE size]]]
  <2>. HIDE DEF D, E, end, size
  <2>. QED  BY <1>5 DEF WithDirents
<1>. QED  BY <1>6, <1>7 DEF DirEntryWrite

(* Where a directory is cut off when its last entry goes.                  *)
LEMMA TruncIs ==
  ASSUME NEW v \in DirVolumes, NEW d \in Inodes, Sized(v, d), NEW idx \in 0 .. DIRENTS_MAX - 1,
         Used(v, d, idx), idx + 1 = Top(v.node[d].dirents)
  PROVE  LET k == TruncIdx(v, d, idx)
             D == v.node[d].dirents
         IN  /\ k = Top([D EXCEPT ![idx] = Unused]) /\ k \in Nat
             /\ [i \in DOMAIN D |-> IF i < k THEN D[i] ELSE Unused] = [D EXCEPT ![idx] = Unused]
<1>. DEFINE D == v.node[d].dirents
            E == [D EXCEPT ![idx] = Unused]
            S == {-1} \cup {i \in 0 .. idx - 1 : Used(v, d, i)}
<1>1. D \in Dirents /\ DIRENTS_MAX \in Nat \ {0}
  BY VolumeTypes, BlockFits
<1>2. E[idx] = Unused /\ Unused.ino = INODE_INVALID /\ \A k \in 0 .. DIRENTS_MAX - 1 : k # idx => E[k] = D[k]
  BY <1>1 DEF Dirents, Unused
<1>3. IsTop(E, Top(E)) /\ IsTop(D, idx + 1)
  BY TopIs
<1>4. \A i \in 0 .. DIRENTS_MAX - 1 : Used(v, d, i) <=> D[i].ino # INODE_INVALID
  BY DEF Used
<1>5. \A i \in 0 .. DIRENTS_MAX - 1 : i > idx => D[i].ino = INODE_INVALID
  BY <1>1, <1>3 DEF IsTop
<1>6. \A i \in 0 .. DIRENTS_MAX - 1 : D[i].ino = INODE_INVALID => D[i] = Unused
  BY DEF Sized
<1>. DEFINE n == Top(E)
<1>7. n \in 0 .. DIRENTS_MAX /\ (\A k \in n .. DIRENTS_MAX - 1 : E[k].ino = INODE_INVALID)
      /\ (n # 0 => E[n - 1].ino # INODE_INVALID)
  BY <1>3 DEF IsTop
<1>. HIDE DEF D, E, n
<1>8. n - 1 \in S
  <2>1. CASE n = 0
    BY <2>1
  <2>2. CASE n # 0
    <3>1. n - 1 \in 0 .. DIRENTS_MAX - 1 /\ n - 1 # idx /\ E[n - 1].ino # INODE_INVALID
      BY <1>1, <1>2, <1>7, <2>2
    <3>2. D[n - 1].ino # INODE_INVALID
      BY <1>2, <3>1
    <3>3. n - 1 \in 0 .. idx - 1
      BY <1>1, <1>5, <3>1, <3>2
    <3>. QED  BY <1>4, <3>1, <3>2, <3>3
  <2>. QED  BY <2>1, <2>2
<1>9. ASSUME NEW y \in S PROVE y <= n - 1
  <2>1. CASE y = -1
    BY <1>1, <1>7, <2>1
  <2>2. CASE y # -1
    <3>1. y \in 0 .. DIRENTS_MAX - 1 /\ y # idx /\ D[y].ino # INODE_INVALID
      BY <1>1, <1>4, <2>2
    <3>2. ~(y \in n .. DIRENTS_MAX - 1)
      BY <1>2, <1>7, <3>1
    <3>. QED  BY <1>1, <1>7, <3>1, <3>2
  <2>. QED  BY <2>1, <2>2
<1>10. S \subseteq Int
  OBVIOUS
<1>11. Max(S) = n - 1
  BY <1>8, <1>9, <1>10, MaxIs
<1>12. TruncIdx(v, d, idx) = n /\ n \in Nat
  BY <1>1, <1>7, <1>11 DEF TruncIdx
<1>13. [i \in DOMAIN D |-> IF i < n THEN D[i] ELSE Unused] = E
  <2>1. DOMAIN D = 0 .. DIRENTS_MAX - 1 /\ E = [i \in 0 .. DIRENTS_MAX - 1 |-> E[i]]
    BY <1>1 DEF Dirents, E
  <2>2. ASSUME NEW i \in 0 .. DIRENTS_MAX - 1 PROVE E[i] = IF i < n THEN D[i] ELSE Unused
    <3>1. CASE i < n
      <4>1. i # idx
        <5>1. ASSUME idx < n PROVE FALSE
          <6>1. n # 0 /\ n - 1 \in 0 .. DIRENTS_MAX - 1 /\ n - 1 >= idx
            BY <1>1, <1>7, <5>1
          <6>2. E[n - 1].ino # INODE_INVALID
            BY <1>7, <6>1
          <6>3. CASE n - 1 = idx
            BY <1>2, <6>2, <6>3
          <6>4. CASE n - 1 > idx
            BY <1>2, <1>5, <6>1, <6>2, <6>4
          <6>. QED  BY <6>1, <6>3, <6>4, <1>7
        <5>. QED  BY <3>1, <5>1
      <4>. QED  BY <1>2, <3>1, <4>1
    <3>2. CASE ~(i < n)
      <4>1. i \in n .. DIRENTS_MAX - 1
        BY <1>1, <1>7, <3>2
      <4>2. E[i].ino = INODE_INVALID
        BY <1>7, <4>1
      <4>3. CASE i = idx
        BY <1>2, <3>2, <4>3
      <4>4. CASE i # idx
        BY <1>2, <1>6, <3>2, <4>2, <4>4
      <4>. QED  BY <4>3, <4>4
    <3>. QED  BY <3>1, <3>2
  <2>. QED  BY <2>1, <2>2
<1>. QED  BY <1>12, <1>13 DEF D, E, n

(* Setting two fields of an inode.                                         *)
LEMMA TwoFields ==
  ASSUME NEW v \in DirVolumes, NEW d \in Inodes, NEW s, NEW D
  PROVE  [v EXCEPT !.node[d].ullSize = s, !.node[d].dirents = D]
         = [v EXCEPT !.node = [v.node EXCEPT ![d] = [v.node[d] EXCEPT !.dirents = D, !.ullSize = s]]]
<1>1. v.node \in [Inodes -> Nodes] /\ v.node[d] \in Nodes
  BY VolumeTypes
<1>2. [v EXCEPT !.node[d].ullSize = s, !.node[d].dirents = D]
      = [v EXCEPT !.node = [v.node EXCEPT ![d] = [v.node[d] EXCEPT !.ullSize = s, !.dirents = D]]]
  BY <1>1 DEF DirVolumes
<1>3. [v.node[d] EXCEPT !.ullSize = s, !.dirents = D] = [v.node[d] EXCEPT !.dirents = D, !.ullSize = s]
  BY <1>1 DEF Nodes
<1>. QED  BY <1>2, <1>3

(* Deleting an entry in use.                                               *)
LEMMA DeleteIs ==
  ASSUME NEW v \in DirVolumes, NEW d, IsDir(v, d), Sized(v, d), NEW idx \in 0 .. DIRENTS_MAX - 1,
         Used(v, d, idx), NEW f
  PROVE  RedDirEntryDelete(v, d, idx, f) =
           Step(v, f, WithDirents(v, d, [v.node[d].dirents EXCEPT ![idx] = Unused]))
<1>. DEFINE D == v.node[d].dirents
            E == [D EXCEPT ![idx] = Unused]
            k == TruncIdx(v, d, idx)
<1>1. d \in Inodes /\ D \in Dirents /\ v.node \in [Inodes -> Nodes] /\ v.node[d] \in Nodes
  BY VolumeTypes DEF IsDir, Exists
<1>2. /\ idx \in Nat /\ idx + 1 \in Nat /\ idx < DIRENTS_MAX /\ Top(D) \in 0 .. DIRENTS_MAX
      /\ D[idx].ino # INODE_INVALID /\ Unused.ino = INODE_INVALID /\ DIRENTS_MAX \in Nat
  BY TopIs, BlockFits DEF IsTop, Used, Unused
<1>3. v.node[d].ullSize = Size(Top(D))
  BY DEF Sized
<1>4. idx < Top(D)
  <2>1. ~(idx \in Top(D) .. DIRENTS_MAX - 1)
    BY <1>2, TopIs DEF IsTop
  <2>. QED  BY <1>2, <2>1
<1>5. ~(DirEntryIndexToOffset(idx) >= v.node[d].ullSize)
  BY <1>2, <1>3, <1>4, Reach
<1>6. DirEntryIndexToOffset(idx) + DIRENT_SIZE = v.node[d].ullSize <=> idx + 1 = Top(D)
  <2>1. DirEntryIndexToOffset(idx) + DIRENT_SIZE = Size(idx + 1)
    BY <1>2, SizeAfter
  <2>2. Top(D) \in Nat
    BY <1>2
  <2>. HIDE DEF D
  <2>3. Size(idx + 1) = Size(Top(D)) <=> idx + 1 = Top(D)
    BY <1>2, <2>2, SizeMonotone
  <2>. QED  BY <1>3, <2>1, <2>3 DEF D
<1>7. ~(idx >= DIRENTS_MAX)
  BY <1>2
<1>8. CASE idx + 1 = Top(D)
  <2>1. k = Top(E) /\ k \in Nat /\ [i \in DOMAIN D |-> IF i < k THEN D[i] ELSE Unused] = E
    BY <1>1, <1>8, TruncIs
  <2>2. TruncSize(k) = Size(Top(E))
    BY <2>1, TruncSizeIs
  <2>3. [v EXCEPT !.node[d].ullSize = TruncSize(k),
                  !.node[d].dirents = [i \in DOMAIN @ |-> IF i < k THEN @[i] ELSE Unused]]
        = [v EXCEPT !.node = [v.node EXCEPT ![d] =
             [v.node[d] EXCEPT !.dirents = [i \in DOMAIN D |-> IF i < k THEN D[i] ELSE Unused],
                               !.ullSize = TruncSize(k)]]]
    <3>. DEFINE F == [i \in DOMAIN D |-> IF i < k THEN D[i] ELSE Unused]
                s == TruncSize(k)
    <3>1. [v EXCEPT !.node[d].ullSize = s, !.node[d].dirents = F]
          = [v EXCEPT !.node = [v.node EXCEPT ![d] = [v.node[d] EXCEPT !.dirents = F, !.ullSize = s]]]
      <4>1. d \in Inodes /\ v \in DirVolumes
        BY <1>1
      <4>2. \A a, b : [v EXCEPT !.node[d].ullSize = a, !.node[d].dirents = b]
              = [v EXCEPT !.node = [v.node EXCEPT ![d] = [v.node[d] EXCEPT !.dirents = b, !.ullSize = a]]]
        BY <4>1, TwoFields
      <4>. HIDE DEF F, s
      <4>. QED  BY <4>2, Zenon
    <3>2. [v EXCEPT !.node[d].ullSize = s, !.node[d].dirents = F]
          = [v EXCEPT !.node[d].ullSize = s,
                      !.node[d].dirents = [i \in DOMAIN @ |-> IF i < k THEN @[i] ELSE Unused]]
      <4>. HIDE DEF s, k
      <4>. QED  BY Zenon
    <3>. QED  BY <3>1, <3>2, Zenon
  <2>4. WithDirents(v, d, E) = [v EXCEPT !.node = [v.node EXCEPT ![d] =
             [v.node[d] EXCEPT !.dirents = E, !.ullSize = Size(Top(E))]]]
    BY DEF WithDirents
  <2>5. WithDirents(v, d, E) =
          [v EXCEPT !.node[d].ullSize = TruncSize(k),
                    !.node[d].dirents = [i \in DOMAIN @ |-> IF i < k THEN @[i] ELSE Unused]]
    <3>. HIDE DEF k, D, E
    <3>. QED  BY <2>1, <2>2, <2>3, <2>4
  <2>6. RedDirEntryDelete(v, d, idx, f) =
          Step(v, f, [v EXCEPT !.node[d].ullSize = TruncSize(k),
                    !.node[d].dirents = [i \in DOMAIN @ |-> IF i < k THEN @[i] ELSE Unused]])
    BY <1>5, <1>6, <1>7, <1>8 DEF RedDirEntryDelete
  <2>. QED  BY <2>5, <2>6
<1>9. CASE idx + 1 # Top(D)
  <2>1. Top(E) = Top(D) /\ idx + 1 < Top(D)
    BY <1>1, <1>2, <1>9, TopOfCut
  <2>2. RedDirEntryDelete(v, d, idx, f) = DirEntryWrite(v, d, idx, INODE_INVALID, "", f)
    BY <1>5, <1>6, <1>7, <1>9 DEF RedDirEntryDelete
  <2>. DEFINE end == DirEntryIndexToOffset(idx) + DIRENT_SIZE
  <2>3. ~(end > v.node[d].ullSize)
    <3>1. end = Size(idx + 1) /\ Top(D) \in Nat
      BY <1>2, SizeAfter
    <3>2. Size(idx + 1) \in Nat /\ Size(Top(D)) \in Nat /\ (Size(idx + 1) <= Size(Top(D)) <=> idx + 1 <= Top(D))
      BY <1>2, <3>1, SizeIsNat, SizeMonotone
    <3>. QED  BY <1>2, <1>3, <2>1, <3>1, <3>2
  <2>4. Unused = [name |-> "", ino |-> INODE_INVALID]
    BY DEF Unused
  <2>5. [v EXCEPT !.node[d].dirents[idx] = [name |-> "", ino |-> INODE_INVALID],
                  !.node[d].ullSize = IF end > @ THEN end ELSE @]
        = [v EXCEPT !.node = [v.node EXCEPT ![d] =
             [v.node[d] EXCEPT !.dirents = E, !.ullSize = v.node[d].ullSize]]]
    <3>. HIDE DEF end
    <3>. QED  BY <1>1, <2>3, <2>4 DEF DirVolumes, Nodes
  <2>6. v.node[d].ullSize = Size(Top(E))
    BY <1>3, <2>1
  <2>7. WithDirents(v, d, E) = [v EXCEPT !.node = [v.node EXCEPT ![d] =
             [v.node[d] EXCEPT !.dirents = E, !.ullSize = v.node[d].ullSize]]]
    <3>. HIDE DEF E, D
    <3>. QED  BY <2>6 DEF WithDirents
  <2>. QED  BY <2>2, <2>5, <2>7 DEF DirEntryWrite
<1>. QED  BY <1>8, <1>9

-----------------------------------------------------------------------------
(* Steps of the calls.                                                     *)
Outcomes == {"OK", "ENOSPC", "EIO"}

(* The outcome of one step.                                                *)
LEMMA StepIs ==
  ASSUME NEW v, NEW w, NEW f \in Outcomes
  PROVE  \/ f = "OK" /\ Step(v, f, w).ret = "OK" /\ Step(v, f, w).v = w
         \/ f = "ENOSPC" /\ Step(v, f, w).ret = "ENOSPC" /\ Step(v, f, w).v = v
         \/ f = "EIO" /\ Step(v, f, w).ret = "EIO" /\ Step(v, f, w).v = Critical(v)
BY DEF Outcomes, Step, Done, Failed

(* A volume after a critical error.                                        *)
LEMMA CriticalIs ==
  ASSUME NEW v \in DirVolumes
  PROVE  Critical(v) \in DirVolumes /\ Critical(v).fReadOnly /\ Critical(v).node = v.node
BY DEF Critical, DirVolumes

(* What a lookup finds, or where it finds room.                            *)
LEMMA LookupIs ==
  ASSUME NEW v \in DirVolumes, NEW d, NEW name, IsDir(v, d) => Sized(v, d)
  PROVE  LET at == RedDirEntryLookup(v, d, name) IN
         /\ at.ret \in {"OK", "ENOENT", "ENOTDIR", "EINVAL", "ENAMETOOLONG"}
         /\ at.ret = "OK" =>
              /\ IsDir(v, d) /\ name # "" /\ at.idx \in 0 .. DIRENTS_MAX - 1 /\ Used(v, d, at.idx)
              /\ v.node[d].dirents[at.idx] = [name |-> name, ino |-> at.ino]
              /\ at.ino \in Inodes /\ at.ino # INODE_INVALID
         /\ at.ret # "OK" => at.ino = INODE_INVALID
         /\ at.ret = "ENOENT" =>
              /\ IsDir(v, d) /\ name # ""
              /\ \A k \in 0 .. DIRENTS_MAX - 1 : Used(v, d, k) => v.node[d].dirents[k].name # name
              /\ at.idx \in 0 .. DIRENTS_MAX
              /\ at.idx # DIR_INDEX_INVALID => ~Used(v, d, at.idx)
<1>. DEFINE at == RedDirEntryLookup(v, d, name)
            D == v.node[d].dirents
            n == Count(v, d)
            S == {i \in 0 .. n - 1 : Used(v, d, i) /\ D[i].name = name}
            F == {i \in 0 .. n - 1 : ~Used(v, d, i)}
<1>1. CASE ~IsDir(v, d)
  BY <1>1 DEF RedDirEntryLookup
<1>2. CASE IsDir(v, d) /\ name = ""
  BY <1>2 DEF RedDirEntryLookup
<1>3. CASE IsDir(v, d) /\ name # "" /\ name \in LongNames
  BY <1>3 DEF RedDirEntryLookup
<1>4. CASE IsDir(v, d) /\ name # "" /\ name \notin LongNames
  <2>1. d \in Inodes /\ Sized(v, d)
    BY <1>4 DEF IsDir, Exists
  <2>2. n = Top(D) /\ n \in 0 .. DIRENTS_MAX /\ DIRENTS_MAX \in Nat \ {0}
    BY <2>1, CountIsTop, BlockFits
  <2>3. S \subseteq Nat /\ F \subseteq Nat /\ S \subseteq 0 .. DIRENTS_MAX - 1 /\ F \subseteq 0 .. DIRENTS_MAX - 1
    BY <2>2
  <2>4. \A k \in 0 .. DIRENTS_MAX - 1 : Used(v, d, k) => k \in 0 .. n - 1
    <3>. SUFFICES ASSUME NEW k \in 0 .. DIRENTS_MAX - 1, Used(v, d, k) PROVE k \in 0 .. n - 1
      OBVIOUS
    <3>1. IsTop(D, n)
      BY <2>2, TopIs
    <3>2. ~(k \in n .. DIRENTS_MAX - 1)
      BY <3>1 DEF IsTop, Used
    <3>. QED  BY <2>2, <3>2
  <2>5. CASE S # {}
    <3>. DEFINE m == Min(S)
    <3>1. m \in S
      BY <2>3, <2>5, MinIs
    <3>2. at = [ret |-> "OK", idx |-> m, ino |-> D[m].ino]
      BY <1>4, <2>5 DEF RedDirEntryLookup
    <3>. HIDE DEF m
    <3>3. m \in 0 .. DIRENTS_MAX - 1 /\ Used(v, d, m) /\ D[m].name = name
      BY <2>3, <3>1
    <3>4. D[m] \in [name : Names \cup {""}, ino : Inodes \cup {INODE_INVALID}] /\ D[m].ino \in Inodes \cup {INODE_INVALID}
      BY <2>1, <3>3, VolumeTypes
    <3>5. D[m] = [name |-> name, ino |-> D[m].ino]
      BY <3>3, <3>4
    <3>6. D[m].ino \in Inodes /\ D[m].ino # INODE_INVALID
      BY <3>3, <3>4 DEF Used
    <3>7. at.ret = "OK" /\ at.idx = m /\ at.ino = D[m].ino
      BY <3>2
    <3>. HIDE DEF at, D
    <3>8. D = v.node[d].dirents
      BY DEF D
    <3>9. v.node[d].dirents[at.idx] = [name |-> name, ino |-> at.ino] /\ Used(v, d, at.idx)
      BY <3>3, <3>5, <3>7, <3>8
    <3>10. at = RedDirEntryLookup(v, d, name)
      BY DEF at
    <3>. QED  BY <1>4, <3>3, <3>6, <3>7, <3>9, <3>10
  <2>6. CASE S = {}
    <3>1. \A k \in 0 .. DIRENTS_MAX - 1 : Used(v, d, k) => D[k].name # name
      BY <2>4, <2>6
    <3>. DEFINE room == IF F # {} THEN Min(F) ELSE IF n < DIRENTS_MAX THEN n ELSE DIR_INDEX_INVALID
    <3>2. at = [ret |-> "ENOENT", idx |-> room, ino |-> INODE_INVALID]
      BY <1>4, <2>6 DEF RedDirEntryLookup
    <3>3. room \in 0 .. DIRENTS_MAX /\ (room # DIR_INDEX_INVALID => ~Used(v, d, room))
      <4>1. CASE F # {}
        <5>1. Min(F) \in F
          BY <2>3, <4>1, MinIs
        <5>. QED  BY <2>2, <2>3, <4>1, <5>1
      <4>2. CASE F = {} /\ n < DIRENTS_MAX
        <5>1. n \in n .. DIRENTS_MAX - 1
          BY <2>2, <4>2
        <5>2. ~Used(v, d, n)
          BY <2>2, <5>1, TopIs DEF IsTop, Used
        <5>. QED  BY <2>2, <4>2, <5>2
      <4>3. CASE F = {} /\ ~(n < DIRENTS_MAX)
        BY <2>2, <4>3 DEF DIR_INDEX_INVALID
      <4>. QED  BY <4>1, <4>2, <4>3
    <3>. HIDE DEF room
    <3>4. at.ret = "ENOENT" /\ at.idx = room /\ at.ino = INODE_INVALID
      BY <3>2
    <3>. QED  BY <1>4, <3>1, <3>3, <3>4
  <2>. QED  BY <2>5, <2>6
<1>. QED  BY <1>1, <1>2, <1>3, <1>4

\* s is v with a new entry.
EntryMade(v, d, name, ino, s) ==
  /\ s.ret = "OK" /\ IsDir(v, d) /\ name # ""
  /\ \A k \in 0 .. DIRENTS_MAX - 1 : Used(v, d, k) => v.node[d].dirents[k].name # name
  /\ \E idx \in 0 .. DIRENTS_MAX - 1 :
       /\ ~Used(v, d, idx)
       /\ s.v = WithDirents(v, d, [v.node[d].dirents EXCEPT ![idx] = [name |-> name, ino |-> ino]])

\* What becomes of a new entry.
CreateOutcome(v, d, name, ino, s) ==
  \/ s.ret # "OK" /\ s.v = v
  \/ s.ret = "EIO" /\ s.v = Critical(v)
  \/ EntryMade(v, d, name, ino, s)

(* RedDirEntryCreate makes the entry or fails.                             *)
LEMMA CreateEntryIs ==
  ASSUME NEW v \in DirVolumes, NEW d, NEW name \in Names, NEW ino \in Inodes, NEW f \in Outcomes,
         IsDir(v, d) => Sized(v, d)
  PROVE  CreateOutcome(v, d, name, ino, RedDirEntryCreate(v, d, name, ino, f))
<1>. DEFINE r == RedDirEntryCreate(v, d, name, ino, f)
            at == RedDirEntryLookup(v, d, name)
<1>1. CASE name \in {".", ".."}
  BY <1>1 DEF RedDirEntryCreate, Failed, CreateOutcome
<1>2. CASE name \notin {".", ".."} /\ (at.ret # "ENOENT" \/ at.idx = DIR_INDEX_INVALID)
  <2>. HIDE DEF at
  <2>1. r \in {Failed("EEXIST", v), Failed("ENOSPC", v)} \/ (at.ret # "OK" /\ r = Failed(at.ret, v))
    BY <1>2 DEF RedDirEntryCreate, at
  <2>. HIDE DEF r
  <2>2. r.ret # "OK" /\ r.v = v
    BY <2>1 DEF Failed
  <2>. QED  BY <2>2 DEF r, CreateOutcome
<1>3. CASE name \notin {".", ".."} /\ at.ret = "ENOENT" /\ at.idx # DIR_INDEX_INVALID
  <2>1. /\ IsDir(v, d) /\ name # ""
        /\ \A k \in 0 .. DIRENTS_MAX - 1 : Used(v, d, k) => v.node[d].dirents[k].name # name
        /\ at.idx \in 0 .. DIRENTS_MAX /\ ~Used(v, d, at.idx)
    BY <1>3, LookupIs
  <2>2. at.idx \in 0 .. DIRENTS_MAX - 1 /\ d \in Inodes /\ ino # INODE_INVALID
    <3>. HIDE DEF at
    <3>1. DIRENTS_MAX \in Nat /\ at.idx # DIRENTS_MAX
      BY <1>3, BlockFits DEF DIR_INDEX_INVALID
    <3>2. at.idx \in 0 .. DIRENTS_MAX
      BY <2>1
    <3>3. at.idx \in 0 .. DIRENTS_MAX - 1
      BY ONLY <3>1, <3>2
    <3>4. ino # INODE_INVALID
      BY DirAssumption
    <3>. QED  BY <2>1, <3>3, <3>4 DEF IsDir, Exists
  <2>3. r = DirEntryWrite(v, d, at.idx, ino, name, f)
    BY <1>3 DEF RedDirEntryCreate
  <2>. HIDE DEF at
  <2>. DEFINE w == WithDirents(v, d, [v.node[d].dirents EXCEPT ![at.idx] = [name |-> name, ino |-> ino]])
  <2>4. r = Step(v, f, w)
    <3>1. Sized(v, d) /\ d \in Inodes /\ ino # INODE_INVALID
      BY <2>1, <2>2
    <3>2. DirEntryWrite(v, d, at.idx, ino, name, f) = Step(v, f, w)
      BY <2>2, <3>1, WriteIs
    <3>. QED  BY <2>3, <3>2
  <2>. HIDE DEF w, r
  <2>5. \/ r.ret = "OK" /\ r.v = w
        \/ r.ret = "ENOSPC" /\ r.v = v
        \/ r.ret = "EIO" /\ r.v = Critical(v)
    BY <2>4, StepIs
  <2>. QED  BY <1>3, <2>1, <2>2, <2>5 DEF w, r, CreateOutcome, EntryMade
<1>. QED  BY <1>1, <1>2, <1>3

(* Putting an old entry back undoes what was written over it.              *)
LEMMA UndoIs ==
  ASSUME NEW v \in DirVolumes, NEW d \in Inodes, Sized(v, d), NEW idx \in 0 .. DIRENTS_MAX - 1,
         NEW e \in [name : Names \cup {""}, ino : Inodes \cup {INODE_INVALID}]
  PROVE  LET w == WithDirents(v, d, [v.node[d].dirents EXCEPT ![idx] = e])
         IN  WithDirents(w, d, [w.node[d].dirents EXCEPT ![idx] = v.node[d].dirents[idx]]) = v
<1>. DEFINE D == v.node[d].dirents
            E == [D EXCEPT ![idx] = e]
            w == WithDirents(v, d, E)
<1>1. D \in Dirents /\ v.node \in [Inodes -> Nodes] /\ v.node[d] \in Nodes
  BY VolumeTypes
<1>2. E \in Dirents
  BY <1>1 DEF Dirents
<1>3. w.node[d].dirents = E
  <2>. HIDE DEF E
  <2>1. Changed(v, d, E, w)
    BY <1>2, WithDirentsIs
  <2>. QED  BY <2>1 DEF Changed
<1>4. [E EXCEPT ![idx] = D[idx]] = D
  BY <1>1 DEF Dirents
<1>5. WithDirents(w, d, D) = [v EXCEPT !.node[d] = [v.node[d] EXCEPT !.dirents = D, !.ullSize = Size(Top(D))]]
  <2>1. w = [v EXCEPT !.node = [v.node EXCEPT ![d] = [v.node[d] EXCEPT !.dirents = E, !.ullSize = Size(Top(E))]]]
    BY DEF WithDirents
  <2>2. PICK s, t : s = Size(Top(E)) /\ t = Size(Top(D))
    OBVIOUS
  <2>. HIDE DEF D, E
  <2>3. WithDirents(w, d, D) = [w EXCEPT !.node = [w.node EXCEPT ![d] = [w.node[d] EXCEPT !.dirents = D, !.ullSize = t]]]
    BY <2>2 DEF WithDirents
  <2>4. w.node = [v.node EXCEPT ![d] = [v.node[d] EXCEPT !.dirents = E, !.ullSize = s]]
        /\ w = [v EXCEPT !.node = w.node]
    BY <2>1, <2>2 DEF DirVolumes
  <2>. HIDE DEF w
  <2>5. w.node[d] = [v.node[d] EXCEPT !.dirents = E, !.ullSize = s]
    BY <1>1, <2>4
  <2>6. [w.node[d] EXCEPT !.dirents = D, !.ullSize = t] = [v.node[d] EXCEPT !.dirents = D, !.ullSize = t]
    BY <1>1, <2>5 DEF Nodes
  <2>7. [w.node EXCEPT ![d] = [v.node[d] EXCEPT !.dirents = D, !.ullSize = t]]
        = [v.node EXCEPT ![d] = [v.node[d] EXCEPT !.dirents = D, !.ullSize = t]]
    BY <1>1, <2>4
  <2>8. PICK N : N = [v.node EXCEPT ![d] = [v.node[d] EXCEPT !.dirents = D, !.ullSize = t]]
    OBVIOUS
  <2>9. PICK W : W = w.node
    OBVIOUS
  <2>10. w = [v EXCEPT !.node = W]
    BY <2>4, <2>9
  <2>11. [w EXCEPT !.node = N] = [v EXCEPT !.node = N]
    BY <2>10 DEF DirVolumes
  <2>12. WithDirents(w, d, D) = [v EXCEPT !.node = N]
    BY <2>3, <2>6, <2>7, <2>8, <2>11
  <2>. QED  BY <2>2, <2>8, <2>12
<1>6. [v.node[d] EXCEPT !.dirents = D, !.ullSize = Size(Top(D))] = v.node[d]
  <2>1. v.node[d].ullSize = Size(Top(D))
    BY DEF Sized
  <2>2. PICK t : t = Size(Top(D))
    OBVIOUS
  <2>. QED  BY <1>1, <2>1, <2>2 DEF Nodes
<1>7. WithDirents(w, d, D) = [v EXCEPT !.node[d] = v.node[d]]
  BY <1>5, <1>6
<1>8. [v EXCEPT !.node[d] = v.node[d]] = v
  BY <1>1 DEF DirVolumes
<1>. QED  BY <1>3, <1>4, <1>7, <1>8

-----------------------------------------------------------------------------
(* Names and link counts.                                                  *)

NamesIn(v, i) ==
  {e \in {d \in Inodes : IsDir(v, d)} \X (0 .. DIRENTS_MAX - 1) :
     v.node[e[1]].dirents[e[2]].ino = i}

\* The entry k of d is a name of i.
Leads(v, d, k, i) ==
  IsDir(v, d) /\ k \in 0 .. DIRENTS_MAX - 1 /\ v.node[d].dirents[k].ino = i

(* The names of an inode as entries.                                       *)
LEMMA NamesInIs ==
  ASSUME NEW v, NEW i
  PROVE  /\ IsFiniteSet(NamesIn(v, i)) /\ Cardinality(NamesIn(v, i)) \in Nat
         /\ \A d, k : <<d, k>> \in NamesIn(v, i) <=> Leads(v, d, k, i)
         /\ \A e \in NamesIn(v, i) : e = <<e[1], e[2]>> /\ Leads(v, e[1], e[2], i)
<1>1. IsFiniteSet({d \in Inodes : IsDir(v, d)}) /\ IsFiniteSet(0 .. DIRENTS_MAX - 1)
  <2>1. {d \in Inodes : IsDir(v, d)} \in SUBSET Inodes /\ IsFiniteSet(Inodes)
    BY DirAssumption
  <2>2. IsFiniteSet({d \in Inodes : IsDir(v, d)})
    BY <2>1, FS_Subset
  <2>3. 0 \in Int /\ DIRENTS_MAX - 1 \in Int
    BY BlockFits
  <2>. QED  BY <2>2, <2>3, FS_Interval
<1>2. IsFiniteSet({d \in Inodes : IsDir(v, d)} \X (0 .. DIRENTS_MAX - 1))
  BY <1>1, FS_Product
<1>3. NamesIn(v, i) \in SUBSET ({d \in Inodes : IsDir(v, d)} \X (0 .. DIRENTS_MAX - 1))
  BY DEF NamesIn
<1>4. IsFiniteSet(NamesIn(v, i))
  BY <1>2, <1>3, FS_Subset
<1>5. Cardinality(NamesIn(v, i)) \in Nat
  BY <1>4, FS_CardinalityType
<1>6. \A d, k : <<d, k>> \in NamesIn(v, i) <=> Leads(v, d, k, i)
  BY DEF NamesIn, Leads, IsDir, Exists
<1>7. \A e \in NamesIn(v, i) : e = <<e[1], e[2]>>
  BY DEF NamesIn
<1>8. \A e \in NamesIn(v, i) : Leads(v, e[1], e[2], i)
  BY <1>6, <1>7
<1>. QED  BY <1>4, <1>5, <1>6, <1>7, <1>8

(* Inodes with the same names have the same number of names.               *)
LEMMA NamesSame ==
  ASSUME NEW v, NEW w, NEW i, \A d, k : Leads(w, d, k, i) <=> Leads(v, d, k, i)
  PROVE  NamesIn(w, i) = NamesIn(v, i)
<1>1. ASSUME NEW e \in NamesIn(w, i) PROVE e \in NamesIn(v, i)
  BY NamesInIs
<1>2. ASSUME NEW e \in NamesIn(v, i) PROVE e \in NamesIn(w, i)
  BY NamesInIs
<1>. QED  BY <1>1, <1>2

(* One name more.                                                          *)
LEMMA NamesMore ==
  ASSUME NEW v, NEW w, NEW i, NEW p, NEW n, ~Leads(v, p, n, i),
         \A d, k : Leads(w, d, k, i) <=> Leads(v, d, k, i) \/ (d = p /\ k = n)
  PROVE  Cardinality(NamesIn(w, i)) = Cardinality(NamesIn(v, i)) + 1
<1>1. ASSUME NEW e \in NamesIn(w, i) PROVE e \in NamesIn(v, i) \cup {<<p, n>>}
  <2>1. e = <<e[1], e[2]>> /\ Leads(w, e[1], e[2], i)
    BY NamesInIs
  <2>2. Leads(v, e[1], e[2], i) \/ (e[1] = p /\ e[2] = n)
    BY <2>1
  <2>3. CASE Leads(v, e[1], e[2], i)
    <3>1. <<e[1], e[2]>> \in NamesIn(v, i)
      BY <2>3, NamesInIs
    <3>. QED  BY <2>1, <3>1
  <2>4. CASE e[1] = p /\ e[2] = n
    BY <2>1, <2>4
  <2>. QED  BY <2>2, <2>3, <2>4
<1>2. ASSUME NEW e \in NamesIn(v, i) PROVE e \in NamesIn(w, i)
  BY NamesInIs
<1>3. <<p, n>> \in NamesIn(w, i) /\ <<p, n>> \notin NamesIn(v, i)
  BY NamesInIs
<1>4. NamesIn(w, i) = NamesIn(v, i) \cup {<<p, n>>}
  BY <1>1, <1>2, <1>3
<1>. QED  BY <1>3, <1>4, NamesInIs, FS_AddElement

-----------------------------------------------------------------------------
(* A consistent volume, but for the link counts, of which each inode has   *)
(* off[i] too few, and for the parent of the inode s.                      *)

Shape(v) ==
  /\ \A i \in Inodes : v.node[i].type = "FREE" => v.node[i] = FREE_INODE
  /\ \A d \in Inodes : IsDir(v, d) => Sized(v, d)
  /\ IsDir(v, ROOT) /\ v.fMounted = TRUE

NamesLead(v) ==
  \A d \in Inodes, k \in 0 .. DIRENTS_MAX - 1 : IsDir(v, d) /\ Used(v, d, k) =>
    /\ v.node[d].dirents[k].ino # ROOT /\ Exists(v, v.node[d].dirents[k].ino)
    /\ v.node[d].dirents[k].name # ""

UniqueNames(v) ==
  \A d \in Inodes, j, k \in 0 .. DIRENTS_MAX - 1 :
    IsDir(v, d) /\ Used(v, d, j) /\ Used(v, d, k)
      /\ v.node[d].dirents[j].name = v.node[d].dirents[k].name => j = k

CountsOff(v, off) ==
  \A i \in Inodes \ {ROOT} : Exists(v, i) => Cardinality(NamesIn(v, i)) = v.node[i].uNLink + off[i]

OneParent(v, s) ==
  \A i \in Inodes \ {ROOT} : IsDir(v, i) =>
    /\ v.node[i].uNLink <= 1
    /\ i # s => \A d, k : Leads(v, d, k, i) => d = v.node[i].ulPInode

Orphaned(v) ==
  \A i \in v.orphans :
    /\ i # ROOT /\ Exists(v, i) /\ v.node[i].uNLink = 0
    /\ IsDir(v, i) => /\ v.node[i].ulPInode = INODE_INVALID
                      /\ \A k \in 0 .. DIRENTS_MAX - 1 : ~Used(v, i, k)

TidyOff(v, off, s) ==
  Shape(v) /\ NamesLead(v) /\ UniqueNames(v) /\ CountsOff(v, off) /\ OneParent(v, s) /\ Orphaned(v)

\* S has the root and what leads on from its directories.
Closed(v, S) ==
  /\ ROOT \in S
  /\ \A d \in S, i \in Inodes : (\E k : Leads(v, d, k, i)) => i \in S

\* All inodes that are no orphans are below the root, but maybe those of X.
Live(v, i) == Exists(v, i) /\ i \notin v.orphans
Reached(v, X) ==
  \A S \in SUBSET Inodes : Closed(v, S) => \A i \in Inodes : Live(v, i) /\ i \notin X => i \in S

Connected(v) == Reached(v, {})

\* Every name in v is one in w, but maybe those of x.
NamesStay(v, w, x) ==
  \A c, i \in Inodes : \A k : Leads(v, c, k, i) => Leads(w, c, k, i) \/ i = x

Exact == [i \in Inodes |-> 0]
Tidy(v) == TidyOff(v, Exact, INODE_INVALID) /\ Connected(v)

\* One entry changes from old to new.
OffAfter(off, old, new) ==
  [i \in Inodes |-> off[i] + (IF i = new THEN 1 ELSE 0) - (IF i = old THEN 1 ELSE 0)]

\* The entry idx of d leads to old in v and to new in w.
Redirected(v, w, d, idx, old, new, i) ==
  /\ Leads(w, d, idx, i) <=> new = i
  /\ Leads(v, d, idx, i) <=> old = i
  /\ \A c, k : (c # d \/ k # idx) => (Leads(w, c, k, i) <=> Leads(v, c, k, i))

(* The number of names of an inode after one entry changed.                *)
LEMMA CountStep ==
  ASSUME NEW v, NEW w, NEW i, NEW d, NEW idx, NEW old, NEW new, NEW y \in Int, NEW x \in Int,
         Cardinality(NamesIn(v, i)) = y + x,
         Redirected(v, w, d, idx, old, new, i)
  PROVE  Cardinality(NamesIn(w, i)) = y + (x + (IF i = new THEN 1 ELSE 0) - (IF i = old THEN 1 ELSE 0))
<1>1. PICK a, b : a = Cardinality(NamesIn(v, i)) /\ b = Cardinality(NamesIn(w, i))
  OBVIOUS
<1>2. a \in Nat /\ b \in Nat
  BY <1>1, NamesInIs
<1>3. CASE i = new /\ i # old
  <2>1. ~Leads(v, d, idx, i)
    BY <1>3 DEF Redirected
  <2>2. \A c, k : Leads(w, c, k, i) <=> Leads(v, c, k, i) \/ (c = d /\ k = idx)
    BY <1>3 DEF Redirected
  <2>3. Cardinality(NamesIn(w, i)) = Cardinality(NamesIn(v, i)) + 1
    BY <2>1, <2>2, NamesMore
  <2>. QED  BY <1>1, <1>2, <1>3, <2>3
<1>4. CASE i # new /\ i = old
  <2>1. ~Leads(w, d, idx, i)
    BY <1>4 DEF Redirected
  <2>2. \A c, k : Leads(v, c, k, i) <=> Leads(w, c, k, i) \/ (c = d /\ k = idx)
    BY <1>4 DEF Redirected
  <2>3. Cardinality(NamesIn(v, i)) = Cardinality(NamesIn(w, i)) + 1
    BY <2>1, <2>2, NamesMore
  <2>. QED  BY <1>1, <1>2, <1>4, <2>3
<1>5. CASE (i = new /\ i = old) \/ (i # new /\ i # old)
  <2>1. \A c, k : Leads(w, c, k, i) <=> Leads(v, c, k, i)
    BY <1>5 DEF Redirected
  <2>2. NamesIn(w, i) = NamesIn(v, i)
    BY <2>1, NamesSame
  <2>. QED  BY <1>1, <1>2, <1>5, <2>2
<1>. QED  BY <1>3, <1>4, <1>5

(* The names that a change of one entry leaves.                            *)
LEMMA ChangedNames ==
  ASSUME NEW v, v \in DirVolumes, NEW d, IsDir(v, d), NEW idx \in 0 .. DIRENTS_MAX - 1, NEW e,
         NEW D, D = [v.node[d].dirents EXCEPT ![idx] = e], NEW w, Changed(v, d, D, w)
  PROVE  /\ \A i : Redirected(v, w, d, idx, v.node[d].dirents[idx].ino, e.ino, i)
         /\ \A i : Live(w, i) <=> Live(v, i)
         /\ NamesStay(v, w, v.node[d].dirents[idx].ino)
<1>. DEFINE K == 0 .. DIRENTS_MAX - 1
            old == v.node[d].dirents[idx].ino
<1>1. d \in Inodes /\ v.node[d].dirents \in Dirents
  BY VolumeTypes DEF IsDir, Exists
<1>2. D[idx] = e /\ \A k \in K : k # idx => D[k] = v.node[d].dirents[k]
  BY <1>1 DEF Dirents
<1>3. \A i : /\ Exists(w, i) <=> Exists(v, i)
             /\ IsDir(w, i) <=> IsDir(v, i)
             /\ IsDir(v, i) => i \in Inodes
  BY DEF Changed, Exists, IsDir
<1>4. /\ w.node[d].dirents[idx] = e
      /\ \A c \in Inodes, k \in K : (c # d \/ k # idx) => w.node[c].dirents[k] = v.node[c].dirents[k]
  <2>1. w.node[d].dirents = D /\ \A c \in Inodes : c # d => w.node[c] = v.node[c]
    BY DEF Changed
  <2>2. ASSUME NEW c \in Inodes, NEW k \in K, c # d \/ k # idx
        PROVE  w.node[c].dirents[k] = v.node[c].dirents[k]
    <3>1. CASE c = d
      BY ONLY <1>2, <2>1, <2>2, <3>1
    <3>2. CASE c # d
      BY ONLY <2>1, <2>2, <3>2
    <3>. QED  BY <3>1, <3>2
  <2>. QED  BY ONLY <1>2, <2>1, <2>2
<1>5. ASSUME NEW i PROVE Redirected(v, w, d, idx, old, e.ino, i)
  BY ONLY <1>3, <1>4, IsDir(v, d), idx \in K DEF Leads, Redirected
<1>6. NamesStay(v, w, old)
  BY ONLY <1>5 DEF NamesStay, Redirected
<1>7. w.orphans = v.orphans
  BY DEF Changed
<1>. QED  BY ONLY <1>3, <1>5, <1>6, <1>7 DEF Live

(* One entry of a directory changes.                                       *)
LEMMA ChangeTidy ==
  ASSUME NEW v \in DirVolumes, NEW off \in [Inodes -> Int], NEW s, TidyOff(v, off, s),
         NEW d, IsDir(v, d), d \notin v.orphans, NEW idx \in 0 .. DIRENTS_MAX - 1,
         NEW e, e \in [name : Names \cup {""}, ino : Inodes \cup {INODE_INVALID}],
         e.ino = INODE_INVALID => e = Unused,
         e.ino # INODE_INVALID =>
           /\ e.name # "" /\ e.ino # ROOT /\ Exists(v, e.ino)
           /\ \A k \in 0 .. DIRENTS_MAX - 1 : k # idx /\ Used(v, d, k) => v.node[d].dirents[k].name # e.name
           /\ (IsDir(v, e.ino) /\ e.ino # s) => d = v.node[e.ino].ulPInode,
         NEW w, w = WithDirents(v, d, [v.node[d].dirents EXCEPT ![idx] = e])
  PROVE  TidyOff(w, OffAfter(off, v.node[d].dirents[idx].ino, e.ino), s)
<1>. DEFINE K == 0 .. DIRENTS_MAX - 1
            old == v.node[d].dirents[idx].ino
<1>1. PICK E : E = [v.node[d].dirents EXCEPT ![idx] = e]
  OBVIOUS
<1>2. d \in Inodes /\ v.node[d].dirents \in Dirents
  BY VolumeTypes DEF IsDir, Exists
<1>3. E \in Dirents /\ E[idx] = e /\ \A k \in K : k # idx => E[k] = v.node[d].dirents[k]
  BY <1>1, <1>2 DEF Dirents
<1>4. Changed(v, d, E, w)
  BY <1>1, <1>2, <1>3, WithDirentsIs
<1>5. \A i : /\ Exists(w, i) <=> Exists(v, i)
             /\ IsDir(w, i) <=> IsDir(v, i)
  BY <1>4 DEF Changed, Exists, IsDir
<1>6. /\ w.node[d].dirents[idx] = e
      /\ \A c \in Inodes, k \in K : (c # d \/ k # idx) => w.node[c].dirents[k] = v.node[c].dirents[k]
  <2>1. w.node[d].dirents = E /\ \A c \in Inodes : c # d => w.node[c] = v.node[c]
    BY <1>4 DEF Changed
  <2>2. ASSUME NEW c \in Inodes, NEW k \in K, c # d \/ k # idx
        PROVE  w.node[c].dirents[k] = v.node[c].dirents[k]
    <3>1. CASE c = d
      BY <1>3, <2>1, <2>2, <3>1
    <3>2. CASE c # d
      BY <2>1, <3>2
    <3>. QED  BY <3>1, <3>2
  <2>. QED  BY <1>3, <2>1, <2>2
<1>7. \A i : /\ Leads(w, d, idx, i) <=> e.ino = i
             /\ Leads(v, d, idx, i) <=> old = i
             /\ \A c, k : (c # d \/ k # idx) => (Leads(w, c, k, i) <=> Leads(v, c, k, i))
  BY ONLY v \in DirVolumes, IsDir(v, d), idx \in K, <1>1, <1>4, ChangedNames DEF Redirected
<1>8. Shape(w)
  <2>1. ASSUME NEW i \in Inodes, w.node[i].type = "FREE" PROVE w.node[i] = FREE_INODE
    <3>1. v.node[i].type = "FREE" /\ i # d
      BY <1>4, <2>1 DEF Changed, IsDir, Exists
    <3>. QED  BY <1>4, <3>1 DEF Changed, TidyOff, Shape
  <2>2. ASSUME NEW c \in Inodes, IsDir(w, c) PROVE Sized(w, c)
    <3>1. Sized(v, c)
      BY <1>5, <2>2 DEF TidyOff, Shape
    <3>2. CASE c # d
      <4>1. w.node[c] = v.node[c]
        BY <1>4, <3>2 DEF Changed
      <4>. QED  BY <3>1, <4>1 DEF Sized
    <3>3. CASE c = d
      <4>1. w.node[c].ullSize = Size(Top(w.node[c].dirents))
        BY <1>4, <3>3 DEF Changed
      <4>2. ASSUME NEW k \in K, w.node[c].dirents[k].ino = INODE_INVALID PROVE w.node[c].dirents[k] = Unused
        <5>1. CASE k = idx
          BY <1>6, <3>3, <4>2, <5>1
        <5>2. CASE k # idx
          BY <1>6, <3>1, <3>3, <4>2, <5>2 DEF Sized
        <5>. QED  BY <5>1, <5>2
      <4>. QED  BY <4>1, <4>2 DEF Sized
    <3>. QED  BY <3>2, <3>3
  <2>3. IsDir(w, ROOT)
    BY <1>5 DEF TidyOff, Shape
  <2>4. w.fMounted = TRUE
    BY <1>4 DEF Changed, TidyOff, Shape
  <2>. QED  BY <2>1, <2>2, <2>3, <2>4 DEF Shape
<1>9. NamesLead(w)
  <2>1. ASSUME NEW c \in Inodes, NEW k \in K, IsDir(w, c), Used(w, c, k)
        PROVE  /\ w.node[c].dirents[k].ino # ROOT /\ Exists(w, w.node[c].dirents[k].ino)
               /\ w.node[c].dirents[k].name # ""
    <3>1. CASE c = d /\ k = idx
      BY <1>5, <1>6, <2>1, <3>1 DEF Used
    <3>2. CASE c # d \/ k # idx
      <4>1. w.node[c].dirents[k] = v.node[c].dirents[k] /\ IsDir(v, c)
        BY <1>5, <1>6, <2>1, <3>2
      <4>. QED  BY <1>5, <2>1, <4>1 DEF Used, TidyOff, NamesLead
    <3>. QED  BY <3>1, <3>2
  <2>. QED  BY <2>1 DEF NamesLead
<1>10. UniqueNames(w)
  <2>1. ASSUME NEW c \in Inodes, NEW j \in K, NEW k \in K, IsDir(w, c), Used(w, c, j), Used(w, c, k),
               w.node[c].dirents[j].name = w.node[c].dirents[k].name, j # k
        PROVE  FALSE
    <3>1. CASE c = d /\ j = idx
      <4>1. w.node[d].dirents[k] = v.node[d].dirents[k] /\ w.node[d].dirents[j] = e
        BY <1>2, <1>6, <2>1, <3>1
      <4>. QED  BY <2>1, <3>1, <4>1 DEF Used
    <3>2. CASE c = d /\ k = idx
      <4>1. w.node[d].dirents[j] = v.node[d].dirents[j] /\ w.node[d].dirents[k] = e
        BY <1>2, <1>6, <2>1, <3>2
      <4>. QED  BY <2>1, <3>2, <4>1 DEF Used
    <3>3. CASE c # d \/ (j # idx /\ k # idx)
      <4>1. w.node[c].dirents[j] = v.node[c].dirents[j] /\ w.node[c].dirents[k] = v.node[c].dirents[k] /\ IsDir(v, c)
        BY <1>5, <1>6, <2>1, <3>3
      <4>2. Used(v, c, j) /\ Used(v, c, k)
        BY <2>1, <4>1 DEF Used
      <4>. QED  BY <2>1, <4>1, <4>2 DEF TidyOff, UniqueNames
    <3>. QED  BY <3>1, <3>2, <3>3
  <2>. QED  BY <2>1 DEF UniqueNames
<1>11. CountsOff(w, OffAfter(off, old, e.ino))
  <2>1. ASSUME NEW i \in Inodes \ {ROOT}, Exists(w, i)
        PROVE  Cardinality(NamesIn(w, i)) = w.node[i].uNLink + OffAfter(off, old, e.ino)[i]
    <3>1. i \in Inodes /\ Exists(v, i)
      BY <1>5, <2>1
    <3>2. v.node[i].uNLink \in Int
      BY ONLY v \in DirVolumes, <3>1, LinkCountIsNat
    <3>3. Cardinality(NamesIn(v, i)) = v.node[i].uNLink + off[i]
      BY <2>1, <3>1 DEF TidyOff, CountsOff
    <3>4. w.node[i].uNLink = v.node[i].uNLink
      BY <1>4, <3>1 DEF Changed
    <3>5. off[i] \in Int
      BY ONLY off \in [Inodes -> Int], <3>1
    <3>6. OffAfter(off, old, e.ino)[i] = off[i] + (IF i = e.ino THEN 1 ELSE 0) - (IF i = old THEN 1 ELSE 0)
      BY <3>1 DEF OffAfter
    <3>7. /\ Leads(w, d, idx, i) <=> e.ino = i
          /\ Leads(v, d, idx, i) <=> old = i
          /\ \A c, k : (c # d \/ k # idx) => (Leads(w, c, k, i) <=> Leads(v, c, k, i))
      BY <1>7
    <3>8. Cardinality(NamesIn(w, i)) =
            v.node[i].uNLink + (off[i] + (IF i = e.ino THEN 1 ELSE 0) - (IF i = old THEN 1 ELSE 0))
      <4>1. PICK x, y, o, n : x = off[i] /\ y = v.node[i].uNLink /\ o = old /\ n = e.ino
        OBVIOUS
      <4>2. /\ x \in Int /\ y \in Int /\ Cardinality(NamesIn(v, i)) = y + x
            /\ Redirected(v, w, d, idx, o, n, i)
        BY ONLY <3>2, <3>3, <3>5, <3>7, <4>1 DEF Redirected
      <4>3. Cardinality(NamesIn(w, i)) = y + (x + (IF i = n THEN 1 ELSE 0) - (IF i = o THEN 1 ELSE 0))
        BY ONLY <4>2, CountStep
      <4>. QED  BY <4>1, <4>3
    <3>. QED  BY <3>4, <3>6, <3>8
  <2>. QED  BY <2>1 DEF CountsOff
<1>12. OneParent(w, s)
  <2>1. ASSUME NEW i \in Inodes \ {ROOT}, IsDir(w, i)
        PROVE  w.node[i].uNLink <= 1
    BY <1>4, <1>5, <2>1 DEF Changed, TidyOff, OneParent
  <2>2. ASSUME NEW i \in Inodes \ {ROOT}, IsDir(w, i), i # s, NEW c, NEW k, Leads(w, c, k, i)
        PROVE  c = w.node[i].ulPInode
    <3>1. IsDir(v, i) /\ w.node[i].ulPInode = v.node[i].ulPInode
      BY <1>4, <1>5, <2>2 DEF Changed
    <3>2. CASE c = d /\ k = idx
      <4>1. e.ino = i /\ i # INODE_INVALID
        BY <1>7, <2>2, <3>2, DirAssumption
      <4>. QED  BY <2>2, <3>1, <3>2, <4>1
    <3>3. CASE c # d \/ k # idx
      <4>1. Leads(v, c, k, i)
        BY <1>7, <2>2, <3>3
      <4>. QED  BY <2>2, <3>1, <4>1 DEF TidyOff, OneParent
    <3>. QED  BY <3>2, <3>3
  <2>. QED  BY <2>1, <2>2 DEF OneParent
<1>13. Orphaned(w)
  <2>1. ASSUME NEW i \in w.orphans
        PROVE  /\ i # ROOT /\ Exists(w, i) /\ w.node[i].uNLink = 0
               /\ IsDir(w, i) => /\ w.node[i].ulPInode = INODE_INVALID
                                 /\ \A k \in K : ~Used(w, i, k)
    <3>1. i \in v.orphans /\ i # d /\ i \in Inodes
      BY <1>4, <2>1, VolumeTypes, <1>2 DEF Changed
    <3>2. w.node[i] = v.node[i]
      BY <1>4, <3>1 DEF Changed
    <3>3. /\ i # ROOT /\ Exists(v, i) /\ v.node[i].uNLink = 0
          /\ IsDir(v, i) => /\ v.node[i].ulPInode = INODE_INVALID
                            /\ \A k \in K : ~Used(v, i, k)
      BY <3>1 DEF TidyOff, Orphaned
    <3>. QED  BY <1>5, <3>2, <3>3 DEF Used
  <2>. QED  BY <2>1 DEF Orphaned
<1>. QED  BY <1>8, <1>9, <1>10, <1>11, <1>12, <1>13 DEF TidyOff

\* Only the inode x and the set of orphans differ.
NodeSet(v, w, x, nd, O) ==
  /\ w.node[x] = nd /\ \A i \in Inodes : i # x => w.node[i] = v.node[i]
  /\ w.orphans = O /\ w.fMounted = v.fMounted

\* The entries of x in use are those of nd.
KeepsEntries(v, x, nd) ==
  \A k \in 0 .. DIRENTS_MAX - 1 :
    /\ (IsDir(v, x) /\ Used(v, x, k)) <=> (nd.type = "DIR" /\ nd.dirents[k].ino # INODE_INVALID)
    /\ (nd.type = "DIR" /\ nd.dirents[k].ino # INODE_INVALID) => nd.dirents[k] = v.node[x].dirents[k]

SizedNode(nd) ==
  /\ nd.ullSize = Size(Top(nd.dirents))
  /\ \A k \in 0 .. DIRENTS_MAX - 1 : nd.dirents[k].ino = INODE_INVALID => nd.dirents[k] = Unused

(* The names stay when a node keeps its entries.                           *)
LEMMA NodeSetNames ==
  ASSUME NEW v, NEW w, NEW x \in Inodes, NEW nd, NEW O, NodeSet(v, w, x, nd, O), KeepsEntries(v, x, nd)
  PROVE  /\ \A i \in Inodes : \A c, k : Leads(w, c, k, i) <=> Leads(v, c, k, i)
         /\ NamesStay(v, w, INODE_INVALID)
         /\ \A i \in Inodes : i # x => (Exists(w, i) <=> Exists(v, i))
         /\ Exists(w, x) <=> nd.type # "FREE"
<1>. DEFINE K == 0 .. DIRENTS_MAX - 1
<1>1. w.node[x] = nd /\ (\A i \in Inodes : i # x => w.node[i] = v.node[i]) /\ w.orphans = O
  BY DEF NodeSet
<1>2. \A i \in Inodes : i # x => (Exists(w, i) <=> Exists(v, i)) /\ (IsDir(w, i) <=> IsDir(v, i))
  BY <1>1 DEF Exists, IsDir
<1>3. (Exists(w, x) <=> nd.type # "FREE") /\ (IsDir(w, x) <=> nd.type = "DIR")
  BY <1>1 DEF Exists, IsDir
<1>4. ASSUME NEW c \in Inodes, NEW k \in K
      PROVE  /\ (IsDir(w, c) /\ Used(w, c, k)) <=> (IsDir(v, c) /\ Used(v, c, k))
             /\ (IsDir(w, c) /\ Used(w, c, k)) => w.node[c].dirents[k] = v.node[c].dirents[k]
  <2>1. CASE c = x
    BY <1>1, <1>3, <2>1 DEF KeepsEntries, Used
  <2>2. CASE c # x
    BY <1>1, <1>2, <2>2 DEF Used
  <2>. QED  BY <2>1, <2>2
<1>5. ASSUME NEW i \in Inodes, NEW c, NEW k PROVE Leads(w, c, k, i) <=> Leads(v, c, k, i)
  <2>1. i # INODE_INVALID
    BY DirAssumption
  <2>2. \A u : Leads(u, c, k, i) => c \in Inodes /\ k \in K /\ IsDir(u, c) /\ Used(u, c, k)
    BY <2>1 DEF Leads, IsDir, Exists, Used
  <2>3. ASSUME Leads(w, c, k, i) PROVE Leads(v, c, k, i)
    BY <1>4, <2>2, <2>3 DEF Leads
  <2>4. ASSUME Leads(v, c, k, i) PROVE Leads(w, c, k, i)
    BY <1>4, <2>2, <2>4 DEF Leads
  <2>. QED  BY <2>3, <2>4
<1>. QED  BY <1>2, <1>3, <1>5 DEF NamesStay

\* What makes nd a consistent node of x.
FitsNode(v, x, nd, n, O) ==
  /\ nd.type = "FREE" => nd = FREE_INODE /\ \A c, k : ~Leads(v, c, k, x)
  /\ x = ROOT => nd.type = "DIR"
  /\ nd.type = "DIR" => SizedNode(nd)
  /\ nd.type # "FREE" /\ x # ROOT => Cardinality(NamesIn(v, x)) = nd.uNLink + n
  /\ nd.type = "DIR" /\ x # ROOT => nd.uNLink <= 1 /\ \A c, k : Leads(v, c, k, x) => c = nd.ulPInode
  /\ O \subseteq v.orphans \cup {x}
  /\ x \in O => /\ x # ROOT /\ nd.type # "FREE" /\ nd.uNLink = 0
                /\ nd.type = "DIR" => /\ nd.ulPInode = INODE_INVALID
                                      /\ \A k \in 0 .. DIRENTS_MAX - 1 : nd.dirents[k].ino = INODE_INVALID

(* A node changes, but not its entries.                                    *)
LEMMA NodeSetTidy ==
  ASSUME NEW v, v \in DirVolumes, NEW off, NEW s, TidyOff(v, off, s), NEW x \in Inodes, NEW nd, NEW O, NEW w,
         NodeSet(v, w, x, nd, O), KeepsEntries(v, x, nd), s \in {INODE_INVALID, x},
         NEW to, \A i \in Inodes : i # x => to[i] = off[i], FitsNode(v, x, nd, to[x], O)
  PROVE  TidyOff(w, to, INODE_INVALID)
<1>. DEFINE K == 0 .. DIRENTS_MAX - 1
<1>1. w.node[x] = nd /\ (\A i \in Inodes : i # x => w.node[i] = v.node[i]) /\ w.orphans = O
  BY DEF NodeSet
<1>2. \A i \in Inodes : i # x => (Exists(w, i) <=> Exists(v, i)) /\ (IsDir(w, i) <=> IsDir(v, i))
  BY <1>1 DEF Exists, IsDir
<1>3. (Exists(w, x) <=> nd.type # "FREE") /\ (IsDir(w, x) <=> nd.type = "DIR")
  BY <1>1 DEF Exists, IsDir
<1>4. ASSUME NEW c \in Inodes, NEW k \in K
      PROVE  /\ (IsDir(w, c) /\ Used(w, c, k)) <=> (IsDir(v, c) /\ Used(v, c, k))
             /\ (IsDir(w, c) /\ Used(w, c, k)) => w.node[c].dirents[k] = v.node[c].dirents[k]
  <2>1. CASE c = x
    BY <1>1, <1>3, <2>1 DEF KeepsEntries, Used
  <2>2. CASE c # x
    BY <1>1, <1>2, <2>2 DEF Used
  <2>. QED  BY <2>1, <2>2
<1>5. \A i \in Inodes : \A c, k : Leads(w, c, k, i) <=> Leads(v, c, k, i)
  BY NodeSetNames
<1>6. \A i \in Inodes : NamesIn(w, i) = NamesIn(v, i)
  BY <1>5, NamesSame
<1>7. Shape(w)
  <2>1. ASSUME NEW i \in Inodes, w.node[i].type = "FREE" PROVE w.node[i] = FREE_INODE
    BY <1>1, <2>1 DEF TidyOff, Shape, FitsNode
  <2>2. ASSUME NEW c \in Inodes, IsDir(w, c) PROVE Sized(w, c)
    <3>1. CASE c = x
      BY <1>1, <1>3, <2>2, <3>1 DEF FitsNode, Sized, SizedNode
    <3>2. CASE c # x
      <4>1. Sized(v, c)
        BY <1>2, <2>2, <3>2 DEF TidyOff, Shape
      <4>. QED  BY <1>1, <3>2, <4>1 DEF Sized
    <3>. QED  BY <3>1, <3>2
  <2>3. IsDir(w, ROOT)
    BY <1>2, <1>3, DirAssumption DEF TidyOff, Shape, FitsNode
  <2>4. w.fMounted = TRUE
    BY DEF NodeSet, TidyOff, Shape
  <2>. QED  BY <2>1, <2>2, <2>3, <2>4 DEF Shape
<1>8. NamesLead(w)
  <2>1. ASSUME NEW c \in Inodes, NEW k \in K, IsDir(w, c), Used(w, c, k)
        PROVE  /\ w.node[c].dirents[k].ino # ROOT /\ Exists(w, w.node[c].dirents[k].ino)
               /\ w.node[c].dirents[k].name # ""
    <3>1. PICK i : i = v.node[c].dirents[k].ino
      OBVIOUS
    <3>2. w.node[c].dirents[k] = v.node[c].dirents[k] /\ IsDir(v, c) /\ Used(v, c, k)
      BY <1>4, <2>1
    <3>3. i # ROOT /\ Exists(v, i) /\ v.node[c].dirents[k].name # ""
      BY <3>1, <3>2 DEF TidyOff, NamesLead
    <3>4. Exists(w, i)
      <4>1. CASE i = x
        <5>1. Leads(v, c, k, x)
          BY <3>1, <3>2, <4>1 DEF Leads
        <5>. QED  BY <1>3, <4>1, <5>1 DEF FitsNode
      <4>2. CASE i # x
        BY <1>2, <3>3, <4>2 DEF Exists
      <4>. QED  BY <4>1, <4>2
    <3>. QED  BY <3>1, <3>2, <3>3, <3>4
  <2>. QED  BY <2>1 DEF NamesLead
<1>9. UniqueNames(w)
  <2>1. ASSUME NEW c \in Inodes, NEW j \in K, NEW k \in K, IsDir(w, c), Used(w, c, j), Used(w, c, k),
               w.node[c].dirents[j].name = w.node[c].dirents[k].name
        PROVE  j = k
    <3>1. /\ IsDir(v, c) /\ Used(v, c, j) /\ w.node[c].dirents[j] = v.node[c].dirents[j]
          /\ Used(v, c, k) /\ w.node[c].dirents[k] = v.node[c].dirents[k]
      BY <1>4, <2>1
    <3>. QED  BY <2>1, <3>1 DEF TidyOff, UniqueNames
  <2>. QED  BY <2>1 DEF UniqueNames
<1>10. CountsOff(w, to)
  <2>1. ASSUME NEW i \in Inodes \ {ROOT}, Exists(w, i)
        PROVE  Cardinality(NamesIn(w, i)) = w.node[i].uNLink + to[i]
    <3>1. CASE i = x
      BY <1>1, <1>3, <1>6, <2>1, <3>1 DEF FitsNode
    <3>2. CASE i # x
      BY <1>1, <1>2, <1>6, <2>1, <3>2 DEF TidyOff, CountsOff
    <3>. QED  BY <3>1, <3>2
  <2>. QED  BY <2>1 DEF CountsOff
<1>11. OneParent(w, INODE_INVALID)
  <2>1. ASSUME NEW i \in Inodes \ {ROOT}, IsDir(w, i)
        PROVE  w.node[i].uNLink <= 1 /\ \A c, k : Leads(w, c, k, i) => c = w.node[i].ulPInode
    <3>1. CASE i = x
      BY <1>1, <1>3, <1>5, <2>1, <3>1 DEF FitsNode
    <3>2. CASE i # x
      <4>1. IsDir(v, i) /\ w.node[i] = v.node[i] /\ i # s
        BY <1>1, <1>2, <2>1, <3>2, DirAssumption
      <4>. QED  BY <1>5, <2>1, <4>1 DEF TidyOff, OneParent
    <3>. QED  BY <3>1, <3>2
  <2>. QED  BY <2>1 DEF OneParent
<1>12. Orphaned(w)
  <2>1. ASSUME NEW i \in w.orphans
        PROVE  /\ i # ROOT /\ Exists(w, i) /\ w.node[i].uNLink = 0
               /\ IsDir(w, i) => /\ w.node[i].ulPInode = INODE_INVALID
                                 /\ \A k \in K : ~Used(w, i, k)
    <3>1. CASE i = x
      BY <1>1, <1>3, <2>1, <3>1 DEF FitsNode, Used
    <3>2. CASE i # x
      <4>1. i \in v.orphans /\ i \in Inodes
        BY <1>1, <2>1, <3>2 DEF FitsNode, DirVolumes
      <4>2. w.node[i] = v.node[i]
        BY <1>1, <3>2, <4>1
      <4>3. /\ i # ROOT /\ Exists(v, i) /\ v.node[i].uNLink = 0
            /\ IsDir(v, i) => /\ v.node[i].ulPInode = INODE_INVALID
                              /\ \A k \in K : ~Used(v, i, k)
        BY <4>1 DEF TidyOff, Orphaned
      <4>. QED  BY <1>2, <3>2, <4>1, <4>2, <4>3 DEF Used
    <3>. QED  BY <3>1, <3>2
  <2>. QED  BY <2>1 DEF Orphaned
<1>. QED  BY <1>7, <1>8, <1>9, <1>10, <1>11, <1>12 DEF TidyOff

-----------------------------------------------------------------------------
(* What can be reached from the root.                                      *)

(* An inode without entries is the only one that loses its names.          *)
LEMMA ReachedStep ==
  ASSUME NEW v, NEW X, Reached(v, X), NEW w, NEW x, NamesStay(v, w, x),
         \A k : \A i \in Inodes : ~Leads(v, x, k, i),
         NEW Y, \A i \in Inodes : Live(w, i) /\ i \notin Y => Live(v, i) /\ i \notin X /\ i # x
  PROVE  Reached(w, Y)
<1>. SUFFICES ASSUME NEW S \in SUBSET Inodes, Closed(w, S), NEW i \in Inodes, Live(w, i), i \notin Y
              PROVE  i \in S
  BY DEF Reached
<1>. DEFINE T == (S \cup {x}) \cap Inodes
<1>1. Closed(v, T)
  <2>1. ROOT \in T
    BY DirAssumption DEF Closed
  <2>2. ASSUME NEW d \in T, NEW j \in Inodes, NEW k, Leads(v, d, k, j) PROVE j \in T
    <3>1. d \in S
      BY <2>2
    <3>2. Leads(w, d, k, j) \/ j = x
      BY <2>2 DEF NamesStay
    <3>. QED  BY <3>1, <3>2 DEF Closed
  <2>. QED  BY <2>1, <2>2 DEF Closed
<1>2. T \in SUBSET Inodes
  OBVIOUS
<1>3. i \in T
  BY <1>1, <1>2 DEF Reached
<1>. QED  BY <1>3

(* An inode with a name in a directory that can be reached.                *)
LEMMA ReachedNamed ==
  ASSUME NEW w, NEW X, Reached(w, X), NEW x \in Inodes, NEW c, NEW k, Leads(w, c, k, x),
         c \notin w.orphans, c \notin X, NEW Y, X \subseteq Y \cup {x}
  PROVE  Reached(w, Y)
<1>. SUFFICES ASSUME NEW S \in SUBSET Inodes, Closed(w, S), NEW i \in Inodes, Live(w, i), i \notin Y
              PROVE  i \in S
  BY DEF Reached
<1>1. c \in Inodes /\ Live(w, c)
  BY DEF Leads, IsDir, Exists, Live
<1>2. c \in S
  BY <1>1 DEF Reached
<1>3. x \in S
  BY <1>2 DEF Closed
<1>4. CASE i = x
  BY <1>3, <1>4
<1>5. CASE i # x
  BY <1>5 DEF Reached
<1>. QED  BY <1>4, <1>5

(* Such a change frees an inode, makes it an orphan or changes nothing.    *)
LEMMA NodeSetReached ==
  ASSUME NEW v, NEW X, Reached(v, X), NEW w, NEW x \in Inodes, NEW nd, NEW O,
         NodeSet(v, w, x, nd, O), KeepsEntries(v, x, nd), v.orphans \ {x} \subseteq O,
         NEW Y, X \subseteq Y \cup {x},
         (Live(w, x) /\ x \notin Y) => (Live(v, x) /\ x \notin X)
  PROVE  Reached(w, Y)
<1>1. /\ NamesStay(v, w, INODE_INVALID)
      /\ \A i \in Inodes : i # x => (Exists(w, i) <=> Exists(v, i))
  BY NodeSetNames
<1>2. \A k : \A i \in Inodes : ~Leads(v, INODE_INVALID, k, i)
  BY DirAssumption DEF Leads, IsDir, Exists
<1>3. ASSUME NEW i \in Inodes, Live(w, i), i \notin Y PROVE Live(v, i) /\ i \notin X /\ i # INODE_INVALID
  <2>1. i # INODE_INVALID
    BY DirAssumption
  <2>2. CASE i = x
    BY <1>3, <2>1, <2>2
  <2>3. CASE i # x
    BY <1>1, <1>3, <2>1, <2>3 DEF Live, NodeSet
  <2>. QED  BY <2>2, <2>3
<1>. QED  BY ONLY Reached(v, X), <1>1, <1>2, <1>3, ReachedStep

\* w is v with the entry idx of d changed to e.
Written(v, d, idx, e, w) ==
  /\ v \in DirVolumes /\ IsDir(v, d) /\ idx \in 0 .. DIRENTS_MAX - 1
  /\ Changed(v, d, [v.node[d].dirents EXCEPT ![idx] = e], w)

(* One entry changes: only the inode it led to may get out of reach.       *)
LEMMA EntryReached ==
  ASSUME NEW v, NEW d, NEW idx, NEW e, NEW w, Written(v, d, idx, e, w),
         NEW old, old = v.node[d].dirents[idx].ino, \A k : \A i \in Inodes : ~Leads(v, old, k, i),
         NEW X, Reached(v, X)
  PROVE  Reached(w, X \cup {old})
<1>1. NamesStay(v, w, old) /\ \A i : Live(w, i) <=> Live(v, i)
  BY ChangedNames DEF Written
<1>2. \A i \in Inodes : Live(w, i) /\ i \notin X \cup {old} => Live(v, i) /\ i \notin X /\ i # old
  BY <1>1
<1>. QED  BY ONLY Reached(v, X), \A k : \A i \in Inodes : ~Leads(v, old, k, i), <1>1, <1>2, ReachedStep

(* An unused entry gets to lead to the one inode that was out of reach.    *)
LEMMA PutReached ==
  ASSUME NEW v, NEW d, d \notin v.orphans, NEW idx, ~Used(v, d, idx), NEW e, e.ino \in Inodes,
         NEW w, Written(v, d, idx, e, w), NEW X, X \subseteq {e.ino}, d \notin X, Reached(v, X)
  PROVE  Connected(w)
<1>1. PICK old : old = v.node[d].dirents[idx].ino
  OBVIOUS
<1>2. old = INODE_INVALID /\ \A k : \A i \in Inodes : ~Leads(v, old, k, i)
  BY <1>1, DirAssumption DEF Used, Leads, IsDir, Exists
<1>3. Reached(w, X \cup {old})
  BY <1>1, <1>2, EntryReached
<1>4. d \in Inodes /\ d \notin X \cup {old} /\ d \notin w.orphans
  BY <1>2, DirAssumption DEF Written, IsDir, Exists, Changed
<1>5. Leads(w, d, idx, e.ino)
  BY ChangedNames DEF Written, Redirected
<1>6. PICK x, Z : x = e.ino /\ Z = X \cup {old}
  OBVIOUS
<1>7. Reached(w, {INODE_INVALID})
  <2>1. Z \subseteq {INODE_INVALID} \cup {x}
    BY <1>2, <1>6
  <2>2. x \in Inodes /\ Leads(w, d, idx, x) /\ d \notin Z /\ Reached(w, Z)
    BY <1>3, <1>4, <1>5, <1>6
  <2>. QED  BY ONLY <1>4, <2>1, <2>2, ReachedNamed
<1>8. INODE_INVALID \notin Inodes
  BY DirAssumption
<1>. QED  BY ONLY <1>7, <1>8 DEF Reached, Connected

-----------------------------------------------------------------------------
(* Chains of directories.                                                  *)

\* g is x, F of x and so on, m times.
Iterates(D, F, x, m, g) ==
  g \in [0 .. m -> D] /\ g[0] = x /\ \A n \in 1 .. m : g[n] = F[g[n - 1]]

(* A function can be iterated.                                             *)
LEMMA IterateIs ==
  ASSUME NEW D, NEW F, F \in [D -> D], NEW x, x \in D, NEW m, m \in Nat
  PROVE  \E g : Iterates(D, F, x, m, g)
<1>. DEFINE P(n, g) == g \in [0 .. n -> D] /\ g[0] = x /\ \A k \in 1 .. n : g[k] = F[g[k - 1]]
            Bad == {n \in Nat : ~\E g : P(n, g)}
<1>. SUFFICES \E g : P(m, g)
  BY DEF Iterates
<1>1. CASE Bad = {}
  BY <1>1
<1>2. CASE Bad # {}
  <2>1. PICK b \in Bad : \A n \in Bad : b <= n
    BY <1>2, LeastMember
  <2>2. CASE b = 0
    <3>1. PICK g : g = [n \in 0 .. 0 |-> x]
      OBVIOUS
    <3>2. P(0, g)
      BY <3>1
    <3>. QED  BY <2>1, <2>2, <3>2
  <2>3. CASE b # 0
    <3>1. b \in Nat /\ b - 1 \in Nat /\ ~(b <= b - 1)
      BY <2>1, <2>3
    <3>2. PICK g : P(b - 1, g)
      <4>1. b - 1 \notin Bad
        BY ONLY <2>1, <3>1
      <4>. QED  BY ONLY <3>1, <4>1
    <3>3. PICK h : h = [n \in 0 .. b |-> IF n = b THEN F[g[b - 1]] ELSE g[n]]
      OBVIOUS
    <3>4. b - 1 \in 0 .. b - 1 /\ g[b - 1] \in D /\ F[g[b - 1]] \in D
      BY <3>1, <3>2
    <3>5. h[b] = F[g[b - 1]] /\ (\A n \in 0 .. b - 1 : h[n] = g[n]) /\ h \in [0 .. b -> D]
      BY ONLY <3>1, <3>2, <3>3, <3>4
    <3>6. h[0] = x
      BY ONLY <3>1, <3>2, <3>5
    <3>7. ASSUME NEW n \in 1 .. b PROVE h[n] = F[h[n - 1]]
      <4>1. CASE n = b
        BY ONLY <3>1, <3>4, <3>5, <4>1
      <4>2. CASE n # b
        <5>1. n \in 1 .. b - 1 /\ n \in 0 .. b - 1 /\ n - 1 \in 0 .. b - 1
          BY <3>1, <4>2
        <5>. QED  BY ONLY <3>2, <3>5, <5>1
      <4>. QED  BY <4>1, <4>2
    <3>8. P(b, h)
      BY ONLY <3>5, <3>6, <3>7
    <3>. QED  BY ONLY <2>1, <3>8
  <2>. QED  BY <2>2, <2>3
<1>. QED  BY <1>1, <1>2

(* A growing chain of subsets has stopped after as many steps as there are *)
(* members.                                                                *)
LEMMA ChainStops ==
  ASSUME NEW U, IsFiniteSet(U), NEW C, C = Cardinality(U), NEW B, B \in [0 .. C -> SUBSET U], B[0] # {},
         \A n \in 1 .. C : B[n - 1] \subseteq B[n],
         \A n \in 1 .. C - 1 : B[n] = B[n - 1] => B[n + 1] = B[n]
  PROVE  C \in Nat \ {0} /\ B[C] = B[C - 1]
<1>1. C \in Nat
  BY FS_CardinalityType
<1>2. C # 0
  <2>1. B[0] \subseteq U
    BY <1>1
  <2>2. U # {}
    BY <2>1
  <2>. QED  BY <2>2, FS_EmptySet
<1>3. ASSUME B[C] # B[C - 1] PROVE FALSE
  <2>1. ASSUME NEW n \in 1 .. C PROVE B[n] # B[n - 1]
    <3>. DEFINE Bad == {k \in Nat : k <= C - 1 /\ B[C - k] = B[C - k - 1]}
    <3>. SUFFICES ASSUME B[n] = B[n - 1] PROVE FALSE
      OBVIOUS
    <3>1. C - n \in Bad
      <4>1. C - n \in Nat /\ C - n <= C - 1 /\ C - (C - n) = n
        BY <1>1
      <4>. QED  BY <4>1
    <3>2. PICK m \in Bad : \A k \in Bad : m <= k
      BY <3>1, LeastMember
    <3>3. m # 0
      BY <1>1, <1>3, <3>2
    <3>4. m - 1 \in Nat /\ m - 1 <= C - 1 /\ C - m \in 1 .. C - 1 /\ C - (m - 1) = (C - m) + 1
          /\ C - (m - 1) - 1 = C - m
      BY <1>1, <3>2, <3>3
    <3>5. B[(C - m) + 1] = B[C - m]
      BY <3>2, <3>4
    <3>6. m - 1 \in Bad
      BY <3>4, <3>5
    <3>7. m \in Nat /\ m <= m - 1
      BY <3>2, <3>6
    <3>. QED  BY <3>7
  <2>. DEFINE Short == {n \in Nat : n <= C /\ ~(Cardinality(B[n]) >= n + 1)}
  <2>2. \A n \in 0 .. C : /\ IsFiniteSet(B[n]) /\ Cardinality(B[n]) \in Nat /\ Cardinality(B[n]) <= C
    <3>. SUFFICES ASSUME NEW n \in 0 .. C
                  PROVE  IsFiniteSet(B[n]) /\ Cardinality(B[n]) \in Nat /\ Cardinality(B[n]) <= C
      OBVIOUS
    <3>1. B[n] \in SUBSET U
      OBVIOUS
    <3>. QED  BY <3>1, FS_Subset, FS_CardinalityType
  <2>3. Short = {}
    <3>. SUFFICES ASSUME Short # {} PROVE FALSE
      OBVIOUS
    <3>1. PICK m \in Short : \A k \in Short : m <= k
      BY LeastMember
    <3>2. m \in 0 .. C
      BY <1>1, <3>1
    <3>3. CASE m = 0
      <4>1. Cardinality(B[0]) # 0
        BY <2>2, <3>2, <3>3, FS_EmptySet
      <4>. QED  BY <2>2, <3>1, <3>2, <3>3, <4>1
    <3>4. CASE m # 0
      <4>1. m \in 1 .. C /\ m - 1 \in 0 .. C /\ m - 1 \notin Short
        BY <1>1, <3>1, <3>2, <3>4
      <4>2. Cardinality(B[m - 1]) >= m
        BY <1>1, <4>1
      <4>3. B[m - 1] \in SUBSET B[m] /\ B[m - 1] # B[m]
        BY <2>1, <4>1
      <4>4. Cardinality(B[m - 1]) <= Cardinality(B[m]) /\ Cardinality(B[m - 1]) # Cardinality(B[m])
        BY <2>2, <3>2, <4>3, FS_Subset
      <4>5. PICK p, q : p = Cardinality(B[m - 1]) /\ q = Cardinality(B[m])
        OBVIOUS
      <4>6. p \in Nat /\ q \in Nat
        BY <2>2, <3>2, <4>1, <4>5
      <4>7. q >= m + 1
        BY ONLY <4>2, <4>4, <4>5, <4>6, <3>2, <1>1
      <4>. QED  BY <3>1, <4>5, <4>7
    <3>. QED  BY <3>3, <3>4
  <2>4. Cardinality(B[C]) >= C + 1
    BY <1>1, <2>3
  <2>. QED  BY <1>1, <2>2, <2>4
<1>. QED  BY <1>1, <1>2, <1>3

\* The directories which were not removed.
LiveDirs(v) == {i \in Inodes : IsDir(v, i) /\ i \notin v.orphans}

(* The parent of a directory is a directory.                               *)
LEMMA ParentIs ==
  ASSUME NEW v, Tidy(v), NEW d, d \in LiveDirs(v), d # ROOT
  PROVE  v.node[d].ulPInode \in LiveDirs(v)
<1>1. d \in Inodes /\ IsDir(v, d) /\ Live(v, d) /\ d # INODE_INVALID
  BY DirAssumption DEF LiveDirs, IsDir, Live
<1>2. ~Closed(v, Inodes \ {d})
  BY <1>1 DEF Tidy, Connected, Reached
<1>3. PICK c, k : c \in Inodes /\ Leads(v, c, k, d)
  BY <1>1, <1>2, DirAssumption DEF Closed
<1>4. c = v.node[d].ulPInode
  BY <1>1, <1>3, DirAssumption DEF Tidy, TidyOff, OneParent
<1>5. IsDir(v, c) /\ k \in 0 .. DIRENTS_MAX - 1 /\ Used(v, c, k)
  BY <1>1, <1>3 DEF Leads, Used
<1>6. c \notin v.orphans
  BY <1>5 DEF Tidy, TidyOff, Orphaned
<1>. QED  BY <1>3, <1>4, <1>5, <1>6 DEF LiveDirs

\* The parents of d as far as DirCyclicRenameCheck follows them.
ParentsOf(v, d, a) ==
  /\ a \in [0 .. Cardinality(Inodes) -> LiveDirs(v)] /\ a[0] = d
  /\ \A n \in 1 .. Cardinality(Inodes) :
       a[n] = IF a[n - 1] = ROOT THEN ROOT ELSE v.node[a[n - 1]].ulPInode

(* They are directories.                                                   *)
LEMMA AncestorsFollowed ==
  ASSUME NEW v, Tidy(v), NEW d, d \in LiveDirs(v)
  PROVE  \E a : ParentsOf(v, d, a) /\ Ancestors(v, d) = {a[n] : n \in 0 .. Cardinality(Inodes)}
<1>1. PICK C : C = Cardinality(Inodes)
  OBVIOUS
<1>2. C \in Nat
  BY <1>1, DirAssumption, FS_CardinalityType
<1>. DEFINE L == LiveDirs(v)
            F == [i \in L |-> IF i = ROOT THEN ROOT ELSE v.node[i].ulPInode]
            E(f, n) == IF n = 0 THEN d
                       ELSE IF f[n - 1] \in {ROOT, INODE_INVALID} THEN f[n - 1]
                       ELSE v.node[f[n - 1]].ulPInode
<1>3. INODE_INVALID \notin L
  BY DirAssumption DEF LiveDirs
<1>4. F \in [L -> L]
  BY ParentIs
<1>5. PICK h \in [0 .. C -> L] : h[0] = d /\ \A n \in 1 .. C : h[n] = F[h[n - 1]]
  <2>1. d \in L
    OBVIOUS
  <2>2. PICK g : Iterates(L, F, d, C, g)
    <3>. HIDE DEF L, F
    <3>. QED  BY ONLY <1>2, <1>4, <2>1, IterateIs
  <2>. QED  BY ONLY <2>2 DEF Iterates
<1>6. ASSUME NEW n \in 1 .. C
      PROVE  h[n - 1] \in L /\ h[n] = IF h[n - 1] = ROOT THEN ROOT ELSE v.node[h[n - 1]].ulPInode
  <2>1. n - 1 \in 0 .. C
    BY <1>2
  <2>. QED  BY <1>5, <2>1
<1>7. h = [n \in 0 .. C |-> E(h, n)]
  <2>1. ASSUME NEW n \in 0 .. C PROVE h[n] = E(h, n)
    <3>1. CASE n = 0
      BY <1>5, <3>1
    <3>2. CASE n # 0
      <4>1. n \in 1 .. C
        BY <1>2, <3>2
      <4>. QED  BY <1>3, <1>6, <3>2, <4>1
    <3>. QED  BY <3>1, <3>2
  <2>. QED  BY <1>5, <2>1
<1>8. PICK a : a = CHOOSE f : f = [n \in 0 .. C |->
                     IF n = 0 THEN d
                     ELSE IF f[n - 1] \in {ROOT, INODE_INVALID} THEN f[n - 1]
                     ELSE v.node[f[n - 1]].ulPInode]
  OBVIOUS
<1>9. a = [n \in 0 .. C |-> E(a, n)]
  BY ONLY <1>7, <1>8
<1>10. Ancestors(v, d) = {a[n] : n \in DOMAIN a}
  BY ONLY <1>1, <1>8 DEF Ancestors
<1>11. DOMAIN a = 0 .. C
  BY ONLY <1>9
<1>12. ASSUME NEW n \in Nat, n <= C PROVE a[n] = h[n]
  <2>. DEFINE Bad == {m \in Nat : m <= C /\ a[m] # h[m]}
  <2>. SUFFICES ASSUME Bad # {} PROVE FALSE
    BY <1>12
  <2>1. PICK m \in Bad : \A k \in Bad : m <= k
    BY LeastMember
  <2>2. m # 0
    BY <1>2, <1>5, <1>9, <2>1
  <2>3. m \in 0 .. C /\ m - 1 \in Nat /\ m - 1 <= C /\ ~(m <= m - 1)
    BY <1>2, <2>1, <2>2
  <2>4. a[m - 1] = h[m - 1]
    BY <2>1, <2>3
  <2>5. a[m] = E(a, m) /\ h[m] = E(h, m)
    BY ONLY <1>7, <1>9, <2>3
  <2>6. a[m] = h[m]
    BY ONLY <2>2, <2>4, <2>5
  <2>. QED  BY <2>1, <2>6
<1>13. Ancestors(v, d) = {h[n] : n \in 0 .. C}
  <2>1. \A n \in 0 .. C : a[n] = h[n]
    BY <1>2, <1>12
  <2>. QED  BY ONLY <1>10, <1>11, <2>1
<1>14. h[0] = d /\ \A n \in 1 .. C : h[n] = IF h[n - 1] = ROOT THEN ROOT ELSE v.node[h[n - 1]].ulPInode
  BY ONLY <1>5, <1>6
<1>15. ParentsOf(v, d, h)
  BY ONLY <1>1, <1>5, <1>14 DEF ParentsOf
<1>. QED  BY ONLY <1>1, <1>13, <1>15

(* DirCyclicRenameCheck meets the parent of every directory it meets: it   *)
(* goes on long enough to get to the root.                                 *)
LEMMA AncestorsAre ==
  ASSUME NEW v, Tidy(v), NEW d, d \in LiveDirs(v)
  PROVE  /\ d \in Ancestors(v, d) /\ Ancestors(v, d) \subseteq LiveDirs(v)
         /\ \A i \in Ancestors(v, d) : i # ROOT => v.node[i].ulPInode \in Ancestors(v, d)
<1>1. PICK a, C : /\ C = Cardinality(Inodes) /\ ParentsOf(v, d, a)
                  /\ Ancestors(v, d) = {a[n] : n \in 0 .. C}
  BY AncestorsFollowed
<1>2. IsFiniteSet(Inodes) /\ C \in Nat
  BY <1>1, DirAssumption, FS_CardinalityType
<1>3. /\ a \in [0 .. C -> LiveDirs(v)] /\ a[0] = d
      /\ \A n \in 1 .. C : a[n] = IF a[n - 1] = ROOT THEN ROOT ELSE v.node[a[n - 1]].ulPInode
  BY ONLY <1>1 DEF ParentsOf
<1>. DEFINE F(i) == IF i = ROOT THEN ROOT ELSE v.node[i].ulPInode
<1>4. PICK B : B = [n \in 0 .. C |-> {a[m] : m \in 0 .. n}]
  OBVIOUS
<1>5. \A n \in 0 .. C : B[n] = {a[m] : m \in 0 .. n}
  BY <1>4
<1>6. \A m \in 0 .. C : a[m] \in Inodes
  BY <1>3 DEF LiveDirs
<1>7. B \in [0 .. C -> SUBSET Inodes]
  <2>1. \A n \in 0 .. C : {a[m] : m \in 0 .. n} \in SUBSET Inodes
    BY <1>2, <1>6
  <2>. QED  BY <1>4, <2>1
<1>8. B[0] # {}
  <2>1. 0 \in 0 .. C /\ 0 \in 0 .. 0
    BY <1>2
  <2>. QED  BY <1>5, <2>1
<1>9. \A n \in 1 .. C : B[n - 1] \subseteq B[n]
  <2>1. \A n \in 1 .. C : n - 1 \in 0 .. C /\ n \in 0 .. C /\ 0 .. n - 1 \subseteq 0 .. n
    BY <1>2
  <2>. QED  BY <1>5, <2>1
<1>10. ASSUME NEW n \in 1 .. C, B[n] = B[n - 1] PROVE \E m \in 0 .. n - 1 : a[n] = a[m]
  <2>1. n - 1 \in 0 .. C /\ n \in 0 .. C /\ n \in 0 .. n
    BY <1>2
  <2>2. a[n] \in B[n]
    BY <1>5, <2>1
  <2>3. a[n] \in B[n - 1]
    BY <1>10, <2>2
  <2>. QED  BY <1>5, <2>1, <2>3
<1>11. ASSUME NEW n \in 1 .. C - 1, B[n] = B[n - 1] PROVE B[n + 1] = B[n]
  <2>1. n \in 1 .. C /\ n + 1 \in 1 .. C /\ n \in 0 .. C /\ n + 1 \in 0 .. C /\ (n + 1) - 1 = n
    BY <1>2
  <2>2. PICK m \in 0 .. n - 1 : a[n] = a[m]
    BY <1>10, <1>11, <2>1
  <2>3. m + 1 \in 1 .. C /\ m + 1 \in 0 .. n /\ (m + 1) - 1 = m
    BY <1>2, <2>2
  <2>4. a[n + 1] = F(a[n])
    <3>1. a[n + 1] = IF a[(n + 1) - 1] = ROOT THEN ROOT ELSE v.node[a[(n + 1) - 1]].ulPInode
      BY <1>3, <2>1
    <3>. QED  BY ONLY <2>1, <3>1
  <2>5. a[m + 1] = F(a[m])
    <3>1. a[m + 1] = IF a[(m + 1) - 1] = ROOT THEN ROOT ELSE v.node[a[(m + 1) - 1]].ulPInode
      BY <1>3, <2>3
    <3>. QED  BY ONLY <2>3, <3>1
  <2>6. a[n + 1] = a[m + 1]
    BY ONLY <2>2, <2>4, <2>5
  <2>7. \A k \in 0 .. n + 1 : k \in 0 .. n \/ k = n + 1
    BY <2>1
  <2>8. {a[k] : k \in 0 .. n + 1} \subseteq {a[k] : k \in 0 .. n}
    BY ONLY <2>3, <2>6, <2>7
  <2>9. B[n + 1] \subseteq B[n]
    BY <1>5, <2>1, <2>8
  <2>10. B[(n + 1) - 1] \subseteq B[n + 1]
    BY <1>9, <2>1
  <2>. QED  BY <2>1, <2>9, <2>10
<1>12. C # 0 /\ B[C] = B[C - 1]
  BY ONLY <1>1, <1>2, <1>7, <1>8, <1>9, <1>11, ChainStops
<1>13. ASSUME NEW i \in Ancestors(v, d), i # ROOT PROVE v.node[i].ulPInode \in Ancestors(v, d)
  <2>1. PICK n \in 0 .. C : i = a[n]
    BY <1>1, <1>13
  <2>2. \E m \in 0 .. C - 1 : i = a[m]
    <3>1. CASE n # C
      <4>1. n \in 0 .. C - 1
        BY <1>2, <2>1, <3>1
      <4>. QED  BY <2>1, <4>1
    <3>2. CASE n = C
      <4>1. C \in 1 .. C
        BY <1>2, <1>12
      <4>2. \E m \in 0 .. C - 1 : a[C] = a[m]
        BY ONLY <1>10, <1>12, <4>1
      <4>. QED  BY <2>1, <3>2, <4>2
    <3>. QED  BY <3>1, <3>2
  <2>3. PICK m \in 0 .. C - 1 : i = a[m]
    BY <2>2
  <2>4. m + 1 \in 1 .. C /\ m + 1 \in 0 .. C /\ (m + 1) - 1 = m
    BY <1>2, <2>3
  <2>5. a[m + 1] = v.node[i].ulPInode
    <3>1. a[m + 1] = IF a[(m + 1) - 1] = ROOT THEN ROOT ELSE v.node[a[(m + 1) - 1]].ulPInode
      BY <1>3, <2>4
    <3>. QED  BY ONLY <1>13, <2>3, <2>4, <3>1
  <2>. QED  BY ONLY <1>1, <2>4, <2>5
<1>14. d \in Ancestors(v, d) /\ Ancestors(v, d) \subseteq LiveDirs(v)
  <2>1. 0 \in 0 .. C
    BY <1>2
  <2>. QED  BY ONLY <1>1, <1>3, <2>1
<1>. QED  BY <1>13, <1>14

WithNode(v, x, nd, O) == [v EXCEPT !.node = [v.node EXCEPT ![x] = nd], !.orphans = O]

(* A volume with another node.                                             *)
LEMMA WithNodeIs ==
  ASSUME NEW v, v \in DirVolumes, NEW x \in Inodes, NEW nd, nd \in Nodes, NEW O, O \subseteq Inodes
  PROVE  /\ WithNode(v, x, nd, O) \in DirVolumes /\ NodeSet(v, WithNode(v, x, nd, O), x, nd, O)
         /\ WithNode(v, x, nd, O).fReadOnly = v.fReadOnly
<1>1. v.node \in [Inodes -> Nodes]
  BY VolumeTypes DEF DirVolumes
<1>2. PICK N : N = [v.node EXCEPT ![x] = nd]
  OBVIOUS
<1>3. N \in [Inodes -> Nodes] /\ N[x] = nd /\ \A i \in Inodes : i # x => N[i] = v.node[i]
  BY <1>1, <1>2
<1>4. PICK w : w = [v EXCEPT !.node = N, !.orphans = O]
  OBVIOUS
<1>5. w \in DirVolumes /\ w.node = N /\ w.orphans = O /\ w.fReadOnly = v.fReadOnly /\ w.fMounted = v.fMounted
  BY <1>3, <1>4 DEF DirVolumes
<1>6. w = WithNode(v, x, nd, O)
  BY <1>2, <1>4 DEF WithNode
<1>. QED  BY <1>3, <1>5, <1>6 DEF NodeSet

(* The fields of a free inode and of a new one.                            *)
LEMMA NodeTypes ==
  /\ FREE_INODE \in Nodes /\ FREE_INODE.type = "FREE" /\ FREE_INODE.dirents = NoDirents
  /\ FREE_INODE.uNLink = 0
  /\ NoDirents \in Dirents /\ \A k \in 0 .. DIRENTS_MAX - 1 : NoDirents[k] = Unused
  /\ Unused.ino = INODE_INVALID /\ Unused.name = ""
  /\ Unused \in [name : Names \cup {""}, ino : Inodes \cup {INODE_INVALID}]
  /\ Size(Top(NoDirents)) = 0
<1>1. Unused.ino = INODE_INVALID /\ Unused.name = ""
      /\ Unused \in [name : Names \cup {""}, ino : Inodes \cup {INODE_INVALID}]
  BY DEF Unused
<1>2. NoDirents \in Dirents /\ \A k \in 0 .. DIRENTS_MAX - 1 : NoDirents[k] = Unused
  <2>. HIDE DEF Unused
  <2>. QED  BY <1>1 DEF NoDirents, Dirents
<1>3. IsTop(NoDirents, 0)
  <2>1. 0 \in 0 .. DIRENTS_MAX
    BY BlockFits
  <2>. QED  BY <1>1, <1>2, <2>1 DEF IsTop
<1>4. Top(NoDirents) = 0
  BY <1>3, TopIs
<1>5. Size(Top(NoDirents)) = 0
  BY <1>4 DEF Size
<1>6. 0 \in 0 .. DirEntryIndexToOffset(DIRENTS_MAX - 1) + DIRENT_SIZE
  BY <1>5, SizeBound
<1>7. PICK b : b = DirEntryIndexToOffset(DIRENTS_MAX - 1) + DIRENT_SIZE
  OBVIOUS
<1>8. 0 \in 0 .. UINT16_MAX
  <2>1. UINT16_MAX \in {UINT16_MAX, BLOCK_SIZE, DIRENT_SIZE, DIRENTS_MAX}
    OBVIOUS
  <2>2. UINT16_MAX \in Nat
    BY <2>1, DirAssumption
  <2>. QED  BY <2>2
<1>9. FREE_INODE \in Nodes
  <2>. HIDE DEF NoDirents
  <2>. QED  BY <1>2, <1>6, <1>8 DEF FREE_INODE, Nodes, Dirents
<1>10. FREE_INODE.type = "FREE" /\ FREE_INODE.dirents = NoDirents /\ FREE_INODE.uNLink = 0
  BY DEF FREE_INODE
<1>. QED  BY <1>1, <1>2, <1>5, <1>9, <1>10

WithNew(v, x, type, p) == [v EXCEPT !.node[x] = NewNode(type, p)]

\* The volume w has the new inode x of p, which has no name yet.
MadeNode(v, x, p, w) ==
  /\ w \in DirVolumes /\ TidyOff(w, OffAfter(Exact, x, INODE_INVALID), INODE_INVALID)
  /\ w.fReadOnly = v.fReadOnly /\ w.orphans = v.orphans
  /\ Exists(w, x) /\ x # ROOT /\ (IsDir(w, x) => w.node[x].ulPInode = p)
  /\ \A i \in Inodes : i # x => w.node[i] = v.node[i]
  /\ w.node[x].dirents = NoDirents /\ Reached(w, {x})

(* A new inode has no name yet.                                            *)
LEMMA NewNodeTidy ==
  ASSUME NEW v, v \in DirVolumes, Tidy(v), NEW x \in Inodes, ~Exists(v, x), NEW type \in {"DIR", "REG", "LNK"},
         NEW p \in Inodes, NEW w, w = WithNew(v, x, type, p)
  PROVE  MadeNode(v, x, p, w)
<1>1. PICK nd : nd = NewNode(type, p)
  OBVIOUS
<1>2. /\ nd \in Nodes /\ nd.type = type /\ nd.uNLink = 1 /\ nd.ulPInode = p /\ nd.dirents = NoDirents /\ nd.ullSize = 0
  <2>1. 1 \in 0 .. UINT16_MAX
    BY LinkCountIsNat
  <2>2. FREE_INODE.ullSize = 0
    BY DEF FREE_INODE
  <2>3. FREE_INODE \in Nodes /\ FREE_INODE.dirents = NoDirents
    BY NodeTypes
  <2>4. nd = [FREE_INODE EXCEPT !.type = type, !.uNLink = 1, !.ulPInode = p]
    BY <1>1 DEF NewNode
  <2>5. PICK b : b = FREE_INODE
    OBVIOUS
  <2>. HIDE DEF FREE_INODE, NoDirents
  <2>. QED  BY <2>1, <2>2, <2>3, <2>4, <2>5 DEF Nodes
<1>3. w = WithNode(v, x, nd, v.orphans)
  BY <1>1 DEF WithNew, WithNode, DirVolumes
<1>4. v.orphans \subseteq Inodes
  BY DEF DirVolumes
<1>5. w \in DirVolumes /\ NodeSet(v, w, x, nd, v.orphans) /\ w.fReadOnly = v.fReadOnly
  BY <1>2, <1>3, <1>4, WithNodeIs
<1>6. x # ROOT /\ x \notin v.orphans /\ \A c, k : ~Leads(v, c, k, x)
  <2>1. x # ROOT
    BY DEF Tidy, TidyOff, Shape, IsDir
  <2>2. x \notin v.orphans
    BY DEF Tidy, TidyOff, Orphaned
  <2>3. ASSUME NEW c, NEW k, Leads(v, c, k, x) PROVE FALSE
    <3>1. c \in Inodes /\ IsDir(v, c) /\ k \in 0 .. DIRENTS_MAX - 1 /\ x # INODE_INVALID /\ v.node[c].dirents[k].ino = x
      BY <2>3, DirAssumption DEF Leads, IsDir, Exists
    <3>2. Used(v, c, k)
      BY <3>1 DEF Used
    <3>. QED  BY <3>1, <3>2 DEF Tidy, TidyOff, NamesLead
  <2>. QED  BY <2>1, <2>2, <2>3
<1>7. KeepsEntries(v, x, nd)
  BY <1>2, NodeTypes DEF KeepsEntries, IsDir
<1>8. Cardinality(NamesIn(v, x)) = 0
  <2>1. NamesIn(v, x) = {}
    BY <1>6, NamesInIs
  <2>. QED  BY <2>1, FS_EmptySet
<1>9. /\ OffAfter(Exact, x, INODE_INVALID)[x] = -1
      /\ \A i \in Inodes : i # x => OffAfter(Exact, x, INODE_INVALID)[i] = Exact[i]
  <2>1. x # INODE_INVALID /\ INODE_INVALID \notin Inodes
    BY DirAssumption
  <2>. QED  BY <2>1 DEF OffAfter, Exact
<1>10. FitsNode(v, x, nd, OffAfter(Exact, x, INODE_INVALID)[x], v.orphans)
  <2>1. SizedNode(nd)
    BY <1>2, NodeTypes DEF SizedNode
  <2>. QED  BY <1>2, <1>6, <1>8, <1>9, <2>1 DEF FitsNode
<1>11. TidyOff(w, OffAfter(Exact, x, INODE_INVALID), INODE_INVALID)
  <2>1. TidyOff(v, Exact, INODE_INVALID)
    BY DEF Tidy
  <2>. QED  BY <1>5, <1>7, <1>9, <1>10, <2>1, NodeSetTidy
<1>12. Reached(w, {x})
  <2>1. /\ Reached(v, {}) /\ {} \subseteq {x} \cup {x} /\ v.orphans \ {x} \subseteq v.orphans
        /\ (Live(w, x) /\ x \notin {x}) => (Live(v, x) /\ x \notin {})
    BY DEF Tidy, Connected
  <2>2. PICK X, Y : X = {} /\ Y = {x}
    OBVIOUS
  <2>3. /\ Reached(v, X) /\ X \subseteq Y \cup {x} /\ v.orphans \ {x} \subseteq v.orphans
        /\ (Live(w, x) /\ x \notin Y) => (Live(v, x) /\ x \notin X)
    BY ONLY <2>1, <2>2
  <2>4. Reached(w, Y)
    BY ONLY x \in Inodes, <1>5, <1>7, <2>3, NodeSetReached
  <2>. QED  BY <2>2, <2>4
<1>. QED  BY <1>2, <1>5, <1>6, <1>11, <1>12 DEF MadeNode, NodeSet, Exists, IsDir

(* No name leads to an inode without names.                                *)
LEMMA NoNames ==
  ASSUME NEW v, NEW i, Cardinality(NamesIn(v, i)) = 0
  PROVE  \A c, k : ~Leads(v, c, k, i)
<1>1. NamesIn(v, i) = {}
  BY NamesInIs, FS_EmptySet
<1>. QED  BY <1>1, NamesInIs

(* Values of the table of deviations.                                      *)
LEMMA OffValues ==
  ASSUME NEW x \in Inodes
  PROVE  /\ \A i \in Inodes : i # x => OffAfter(Exact, x, INODE_INVALID)[i] = Exact[i]
         /\ \A i \in Inodes : i # x => OffAfter(Exact, INODE_INVALID, x)[i] = Exact[i]
         /\ OffAfter(Exact, x, INODE_INVALID)[x] = -1 /\ OffAfter(Exact, INODE_INVALID, x)[x] = 1
         /\ Exact[x] = 0
<1>1. x # INODE_INVALID /\ INODE_INVALID \notin Inodes
  BY DirAssumption
<1>. QED  BY <1>1 DEF OffAfter, Exact

(* An inode that lost a name loses a link, and its last one makes it free  *)
(* or an orphan.                                                           *)
LEMMA LinkDecTidy ==
  ASSUME NEW v, v \in DirVolumes, NEW x \in Inodes, x # ROOT, Exists(v, x), NEW fOrphan, NEW w,
         TidyOff(v, OffAfter(Exact, x, INODE_INVALID), INODE_INVALID), Reached(v, {x}),
         IsDir(v, x) => \A k \in 0 .. DIRENTS_MAX - 1 : ~Used(v, x, k),
         w = RedInodeLinkDec(v, x, fOrphan)
  PROVE  /\ w \in DirVolumes /\ Tidy(w) /\ w.fReadOnly = v.fReadOnly
         /\ \A i \in Inodes : i # x => w.node[i] = v.node[i]
         /\ w.node[x].dirents \in {v.node[x].dirents, NoDirents}
<1>. DEFINE off == OffAfter(Exact, x, INODE_INVALID)
            n == v.node[x].uNLink
<1>1. /\ v.node \in [Inodes -> Nodes] /\ v.node[x] \in Nodes /\ v.orphans \subseteq Inodes /\ n \in Nat
      /\ n <= UINT16_MAX /\ UINT16_MAX \in Nat
  BY VolumeTypes, LinkCountIsNat
<1>2. Cardinality(NamesIn(v, x)) = n - 1 /\ n >= 1
  <2>1. Cardinality(NamesIn(v, x)) = n + off[x] /\ off[x] = -1
    BY OffValues DEF TidyOff, CountsOff
  <2>2. PICK c : c = Cardinality(NamesIn(v, x))
    OBVIOUS
  <2>3. c \in Nat /\ c = n + (-1)
    BY <2>1, <2>2, NamesInIs
  <2>. QED  BY <1>1, <2>2, <2>3
<1>3. x \notin v.orphans
  BY <1>1, <1>2 DEF TidyOff, Orphaned
<1>4. Exact[x] = 0 /\ \A i \in Inodes : i # x => Exact[i] = off[i]
  BY OffValues
<1>5. v.node[x].type = "DIR" => /\ n <= 1 /\ SizedNode(v.node[x])
                                /\ \A c, k : Leads(v, c, k, x) => c = v.node[x].ulPInode
                                /\ \A k \in 0 .. DIRENTS_MAX - 1 : v.node[x].dirents[k].ino = INODE_INVALID
  <2>1. x # INODE_INVALID
    BY DirAssumption
  <2>. QED  BY <2>1 DEF TidyOff, OneParent, Shape, Sized, SizedNode, IsDir, Used
<1>. HIDE DEF off
<1>6. CASE n > 1
  <2>1. PICK nd : nd = [v.node[x] EXCEPT !.uNLink = n - 1]
    OBVIOUS
  <2>2. n - 1 \in 0 .. UINT16_MAX
    BY <1>1, <1>6
  <2>3. nd \in Nodes /\ nd.type = v.node[x].type /\ nd.uNLink = n - 1 /\ nd.dirents = v.node[x].dirents
    BY <1>1, <2>1, <2>2 DEF Nodes
  <2>4. w = WithNode(v, x, nd, v.orphans)
    BY <1>1, <1>6, <2>1 DEF RedInodeLinkDec, WithNode, DirVolumes
  <2>5. w \in DirVolumes /\ NodeSet(v, w, x, nd, v.orphans) /\ w.fReadOnly = v.fReadOnly
    BY <1>1, <2>3, <2>4, WithNodeIs
  <2>6. KeepsEntries(v, x, nd)
    BY <2>3 DEF KeepsEntries, IsDir, Exists, Used
  <2>7. nd.type # "DIR" /\ nd.type # "FREE"
    BY <1>1, <1>5, <1>6, <2>3 DEF Exists
  <2>8. FitsNode(v, x, nd, Exact[x], v.orphans)
    BY <1>1, <1>2, <1>3, <1>4, <2>3, <2>7 DEF FitsNode
  <2>9. TidyOff(w, Exact, INODE_INVALID)
    BY <1>4, <2>5, <2>6, <2>8, NodeSetTidy DEF off
  <2>10. Connected(w)
    <3>1. Reached(w, {x})
      BY <2>5, <2>6, NodeSetReached
    <3>2. PICK e : e \in NamesIn(v, x)
      <4>1. Cardinality(NamesIn(v, x)) # 0
        BY <1>1, <1>2, <1>6
      <4>2. NamesIn(v, x) # {}
        BY ONLY <4>1, FS_EmptySet
      <4>. QED  BY ONLY <4>2
    <3>3. Leads(v, e[1], e[2], x) /\ x # INODE_INVALID
      BY <3>2, NamesInIs, DirAssumption
    <3>4. e[1] # x /\ e[1] \notin v.orphans
      BY <2>3, <2>7, <3>3 DEF Leads, Used, IsDir, TidyOff, Orphaned
    <3>5. Leads(w, e[1], e[2], x) /\ w.orphans = v.orphans
      BY <2>5, <2>6, <3>3, NodeSetNames DEF NodeSet
    <3>6. {x} \subseteq {} \cup {x} /\ e[1] \notin {x} /\ e[1] \notin w.orphans
      BY <3>4, <3>5
    <3>. QED  BY ONLY x \in Inodes, <3>1, <3>5, <3>6, ReachedNamed DEF Connected
  <2>. QED  BY <2>3, <2>5, <2>9, <2>10 DEF Tidy, NodeSet
<1>7. CASE ~(n > 1) /\ fOrphan
  <2>1. PICK nd : nd = [v.node[x] EXCEPT !.uNLink = 0, !.ulPInode = INODE_INVALID]
    OBVIOUS
  <2>2. 0 \in 0 .. UINT16_MAX
    BY <1>1
  <2>3. /\ nd \in Nodes /\ nd.type = v.node[x].type /\ nd.uNLink = 0 /\ nd.ulPInode = INODE_INVALID
        /\ nd.dirents = v.node[x].dirents /\ nd.ullSize = v.node[x].ullSize
    BY <1>1, <2>1, <2>2 DEF Nodes
  <2>4. PICK O : O = v.orphans \cup {x}
    OBVIOUS
  <2>5. w = WithNode(v, x, nd, O)
    <3>1. w = [v EXCEPT !.node[x].uNLink = 0, !.node[x].ulPInode = INODE_INVALID, !.orphans = @ \cup {x}]
      BY <1>7 DEF RedInodeLinkDec
    <3>. QED  BY <1>1, <2>1, <2>4, <3>1 DEF WithNode, DirVolumes
  <2>6. w \in DirVolumes /\ NodeSet(v, w, x, nd, O) /\ w.fReadOnly = v.fReadOnly
    BY <1>1, <2>3, <2>4, <2>5, WithNodeIs
  <2>7. KeepsEntries(v, x, nd)
    BY <2>3 DEF KeepsEntries, IsDir, Exists, Used
  <2>8. Cardinality(NamesIn(v, x)) = 0
    BY <1>1, <1>2, <1>7
  <2>9. \A c, k : ~Leads(v, c, k, x)
    BY <2>8, NoNames
  <2>10. FitsNode(v, x, nd, Exact[x], O)
    <3>1. nd.type # "FREE"
      BY <2>3 DEF Exists
    <3>2. nd.type = "DIR" => SizedNode(nd)
      BY <1>5, <2>3 DEF SizedNode
    <3>. QED  BY <1>4, <1>5, <2>3, <2>4, <2>8, <2>9, <3>1, <3>2 DEF FitsNode
  <2>11. TidyOff(w, Exact, INODE_INVALID)
    BY <1>4, <2>6, <2>7, <2>10, NodeSetTidy DEF off
  <2>12. Connected(w)
    <3>1. ~Live(w, x) /\ v.orphans \ {x} \subseteq O /\ {x} \subseteq {} \cup {x}
      BY <2>4, <2>6 DEF Live, NodeSet
    <3>. QED  BY ONLY x \in Inodes, Reached(v, {x}), <2>6, <2>7, <3>1, NodeSetReached DEF Connected
  <2>. QED  BY <2>3, <2>6, <2>11, <2>12 DEF Tidy, NodeSet
<1>8. CASE ~(n > 1) /\ ~fOrphan
  <2>1. w = WithNode(v, x, FREE_INODE, v.orphans)
    BY <1>8 DEF RedInodeLinkDec, RedInodeFree, WithNode, DirVolumes
  <2>2. w \in DirVolumes /\ NodeSet(v, w, x, FREE_INODE, v.orphans) /\ w.fReadOnly = v.fReadOnly
    <3>1. FREE_INODE \in Nodes
      BY NodeTypes
    <3>. HIDE DEF FREE_INODE
    <3>. QED  BY <1>1, <2>1, <3>1, WithNodeIs
  <2>3. Cardinality(NamesIn(v, x)) = 0
    BY <1>1, <1>2, <1>8
  <2>4. \A c, k : ~Leads(v, c, k, x)
    BY <2>3, NoNames
  <2>5. KeepsEntries(v, x, FREE_INODE)
    BY NodeTypes DEF KeepsEntries
  <2>6. FitsNode(v, x, FREE_INODE, Exact[x], v.orphans)
    BY <1>3, <2>4, NodeTypes DEF FitsNode
  <2>7. TidyOff(w, Exact, INODE_INVALID)
    BY <1>4, <2>2, <2>5, <2>6, NodeSetTidy DEF off
  <2>8. Connected(w)
    <3>1. ~Live(w, x)
      <4>1. w.node[x].type = "FREE"
        BY <2>2, NodeTypes DEF NodeSet
      <4>. QED  BY <4>1 DEF Live, Exists
    <3>2. v.orphans \ {x} \subseteq v.orphans /\ {x} \subseteq {} \cup {x}
      OBVIOUS
    <3>. QED  BY ONLY x \in Inodes, Reached(v, {x}), <2>2, <2>5, <3>1, <3>2, NodeSetReached DEF Connected
  <2>. QED  BY <2>2, <2>7, <2>8, NodeTypes DEF Tidy, NodeSet
<1>. QED  BY <1>6, <1>7, <1>8

(* A file that got a name gets a link.                                     *)
LEMMA LinkIncTidy ==
  ASSUME NEW v, v \in DirVolumes, NEW x \in Inodes, x # ROOT, Exists(v, x), ~IsDir(v, x), x \notin v.orphans,
         v.node[x].uNLink # UINT16_MAX, NEW w, w = [v EXCEPT !.node[x].uNLink = @ + 1],
         TidyOff(v, OffAfter(Exact, INODE_INVALID, x), INODE_INVALID), Connected(v)
  PROVE  /\ w \in DirVolumes /\ Tidy(w)
         /\ \A i \in Inodes : w.node[i].dirents = v.node[i].dirents
<1>. DEFINE off == OffAfter(Exact, INODE_INVALID, x)
            n == v.node[x].uNLink
<1>1. /\ v.node \in [Inodes -> Nodes] /\ v.node[x] \in Nodes /\ v.orphans \subseteq Inodes /\ n \in Nat
      /\ n <= UINT16_MAX /\ UINT16_MAX \in Nat
  BY VolumeTypes, LinkCountIsNat
<1>2. Cardinality(NamesIn(v, x)) = n + 1
  BY OffValues DEF TidyOff, CountsOff
<1>3. Exact[x] = 0 /\ \A i \in Inodes : i # x => Exact[i] = off[i]
  BY OffValues
<1>. HIDE DEF off
<1>4. PICK nd : nd = [v.node[x] EXCEPT !.uNLink = n + 1]
  OBVIOUS
<1>5. n + 1 \in 0 .. UINT16_MAX
  BY <1>1
<1>6. nd \in Nodes /\ nd.type = v.node[x].type /\ nd.uNLink = n + 1 /\ nd.dirents = v.node[x].dirents
  BY <1>1, <1>4, <1>5 DEF Nodes
<1>7. w = WithNode(v, x, nd, v.orphans)
  BY <1>1, <1>4 DEF WithNode, DirVolumes
<1>8. w \in DirVolumes /\ NodeSet(v, w, x, nd, v.orphans)
  BY <1>1, <1>6, <1>7, WithNodeIs
<1>9. KeepsEntries(v, x, nd)
  BY <1>6 DEF KeepsEntries, IsDir, Exists, Used
<1>10. nd.type # "DIR" /\ nd.type # "FREE"
  BY <1>6 DEF Exists, IsDir
<1>11. nd.uNLink \in Int
  BY <1>1, <1>6
<1>12. FitsNode(v, x, nd, Exact[x], v.orphans)
  BY <1>2, <1>3, <1>6, <1>10, <1>11 DEF FitsNode
<1>13. TidyOff(w, Exact, INODE_INVALID)
  BY <1>3, <1>8, <1>9, <1>12, NodeSetTidy DEF off
<1>14. Connected(w)
  <2>1. Live(v, x) /\ Reached(v, {}) /\ {} \subseteq {} \cup {x} /\ v.orphans \ {x} \subseteq v.orphans
    BY DEF Live, Connected
  <2>2. (Live(w, x) /\ x \notin {}) => (Live(v, x) /\ x \notin {})
    BY ONLY <2>1
  <2>3. NodeSet(v, w, x, nd, v.orphans) /\ KeepsEntries(v, x, nd)
    BY <1>8, <1>9
  <2>4. Reached(w, {})
    BY ONLY x \in Inodes, <2>1, <2>2, <2>3, NodeSetReached
  <2>. QED  BY <2>4 DEF Connected
<1>. QED  BY <1>6, <1>8, <1>13, <1>14 DEF Tidy, NodeSet

(* The parent of an inode becomes the directory of its one name.           *)
LEMMA ParentTidy ==
  ASSUME NEW v, v \in DirVolumes, NEW x \in Inodes, x # ROOT, Exists(v, x), NEW p \in Inodes, NEW k,
         Leads(v, p, k, x), NEW off, TidyOff(v, off, x), off[x] = 0,
         NEW w, w = [v EXCEPT !.node[x].ulPInode = p]
  PROVE  /\ w \in DirVolumes /\ TidyOff(w, off, INODE_INVALID) /\ w.fReadOnly = v.fReadOnly
         /\ \A i \in Inodes : /\ w.node[i].dirents = v.node[i].dirents
                              /\ w.node[i].type = v.node[i].type
                              /\ w.node[i].ullSize = v.node[i].ullSize
         /\ \A X : Reached(v, X) => Reached(w, X)
<1>. DEFINE n == v.node[x].uNLink
<1>1. /\ v.node \in [Inodes -> Nodes] /\ v.node[x] \in Nodes /\ v.orphans \subseteq Inodes /\ n \in Nat
  BY VolumeTypes, LinkCountIsNat
<1>2. Cardinality(NamesIn(v, x)) = n
  BY <1>1 DEF TidyOff, CountsOff
<1>3. <<p, k>> \in NamesIn(v, x)
  BY NamesInIs
<1>4. n # 0
  BY <1>2, <1>3, NamesInIs, FS_EmptySet
<1>5. x \notin v.orphans
  BY <1>4 DEF TidyOff, Orphaned
<1>6. PICK nd : nd = [v.node[x] EXCEPT !.ulPInode = p]
  OBVIOUS
<1>7. /\ nd \in Nodes /\ nd.type = v.node[x].type /\ nd.uNLink = n /\ nd.ulPInode = p
      /\ nd.dirents = v.node[x].dirents /\ nd.ullSize = v.node[x].ullSize
  BY <1>1, <1>6 DEF Nodes
<1>8. w = WithNode(v, x, nd, v.orphans)
  BY <1>1, <1>6 DEF WithNode, DirVolumes
<1>9. w \in DirVolumes /\ NodeSet(v, w, x, nd, v.orphans) /\ w.fReadOnly = v.fReadOnly
  BY <1>1, <1>7, <1>8, WithNodeIs
<1>10. KeepsEntries(v, x, nd)
  BY <1>7 DEF KeepsEntries, IsDir, Exists, Used
<1>11. ASSUME nd.type = "DIR", NEW c, NEW j, Leads(v, c, j, x) PROVE c = p
  <2>1. n <= 1
    BY <1>7, <1>11 DEF TidyOff, OneParent, IsDir
  <2>2. Cardinality(NamesIn(v, x)) = 1
    BY <1>1, <1>2, <1>4, <2>1
  <2>3. PICK e : NamesIn(v, x) = {e}
    BY <2>2, NamesInIs, FS_Singleton
  <2>4. <<c, j>> \in NamesIn(v, x)
    BY <1>11, NamesInIs
  <2>5. <<c, j>> = <<p, k>>
    BY <1>3, <2>3, <2>4
  <2>. QED  BY <2>5
<1>12. FitsNode(v, x, nd, off[x], v.orphans)
  <2>1. nd.type # "FREE"
    BY <1>7 DEF Exists
  <2>2. nd.type = "DIR" => SizedNode(nd) /\ nd.uNLink <= 1
    <3>. SUFFICES ASSUME nd.type = "DIR" PROVE SizedNode(nd) /\ nd.uNLink <= 1
      OBVIOUS
    <3>1. IsDir(v, x)
      BY <1>7 DEF IsDir
    <3>2. Sized(v, x) /\ v.node[x].uNLink <= 1
      BY <3>1 DEF TidyOff, OneParent, Shape
    <3>. QED  BY <1>7, <3>2 DEF Sized, SizedNode
  <2>3. Cardinality(NamesIn(v, x)) = nd.uNLink + off[x]
    BY <1>1, <1>2, <1>7
  <2>. QED  BY <1>5, <1>7, <1>11, <2>1, <2>2, <2>3 DEF FitsNode
<1>13. TidyOff(w, off, INODE_INVALID)
  BY <1>9, <1>10, <1>12, NodeSetTidy
<1>14. ASSUME NEW X, Reached(v, X) PROVE Reached(w, X)
  <2>1. /\ X \subseteq X \cup {x} /\ v.orphans \ {x} \subseteq v.orphans
        /\ (Live(w, x) /\ x \notin X) => (Live(v, x) /\ x \notin X)
    BY <1>5 DEF Live
  <2>. QED  BY ONLY x \in Inodes, <1>9, <1>10, <1>14, <2>1, NodeSetReached
<1>. QED  BY <1>7, <1>9, <1>13, <1>14 DEF NodeSet

(* The last user of an orphan frees it.                                    *)
LEMMA FreeOrphanTidy ==
  ASSUME NEW v, v \in DirVolumes, Tidy(v), NEW x, x \in v.orphans, NEW w, w = FreeOrphan(v, x)
  PROVE  /\ w \in DirVolumes /\ Tidy(w)
         /\ \A i \in Inodes : i # x => w.node[i] = v.node[i]
         /\ x \in Inodes /\ w.node[x].dirents = NoDirents
<1>1. /\ v.orphans \subseteq Inodes /\ x \in Inodes /\ x # ROOT /\ Exists(v, x) /\ v.node[x].uNLink = 0
      /\ IsDir(v, x) => \A k \in 0 .. DIRENTS_MAX - 1 : ~Used(v, x, k)
  BY DEF DirVolumes, Tidy, TidyOff, Orphaned
<1>2. Cardinality(NamesIn(v, x)) = 0
  BY <1>1, OffValues DEF Tidy, TidyOff, CountsOff
<1>3. \A c, k : ~Leads(v, c, k, x)
  BY <1>2, NoNames
<1>4. PICK O : O = v.orphans \ {x}
  OBVIOUS
<1>5. w = WithNode(v, x, FREE_INODE, O)
  BY <1>4 DEF FreeOrphan, RedInodeFree, WithNode, DirVolumes
<1>6. w \in DirVolumes /\ NodeSet(v, w, x, FREE_INODE, O)
  <2>1. FREE_INODE \in Nodes /\ O \subseteq Inodes
    BY <1>1, <1>4, NodeTypes
  <2>. HIDE DEF FREE_INODE
  <2>. QED  BY <1>1, <1>5, <2>1, WithNodeIs
<1>7. KeepsEntries(v, x, FREE_INODE)
  BY <1>1, NodeTypes DEF KeepsEntries
<1>8. FitsNode(v, x, FREE_INODE, Exact[x], O)
  BY <1>1, <1>3, <1>4, NodeTypes DEF FitsNode
<1>9. TidyOff(v, Exact, INODE_INVALID)
  BY DEF Tidy
<1>10. TidyOff(w, Exact, INODE_INVALID)
  BY <1>1, <1>6, <1>7, <1>8, <1>9, NodeSetTidy
<1>11. Connected(w)
  <2>1. ~Live(w, x)
    BY <1>1, <1>6, <1>7, NodeSetNames, NodeTypes DEF Live
  <2>2. Reached(v, {}) /\ {} \subseteq {} \cup {x} /\ v.orphans \ {x} \subseteq O
    BY <1>4 DEF Tidy, Connected
  <2>. QED  BY ONLY <1>1, <1>6, <1>7, <2>1, <2>2, NodeSetReached DEF Connected
<1>. QED  BY <1>1, <1>6, <1>10, <1>11, NodeTypes DEF Tidy, NodeSet

-----------------------------------------------------------------------------
(* One attempt of each call.                                               *)

KeepsPlace(v, w) ==
  \A d \in Inodes, i \in 0 .. DIRENTS_MAX - 1 :
    Used(v, d, i) /\ v.node[d].dirents[i] \in Entries(w, d) =>
      w.node[d].dirents[i] = v.node[d].dirents[i]

\* Entries in use were there before or have a new name, and only directories
\* get any.
Follows(v, w) ==
  \A d \in Inodes :
    /\ \A j \in 0 .. DIRENTS_MAX - 1 : Used(w, d, j) =>
         \/ w.node[d].dirents[j] = v.node[d].dirents[j]
         \/ \A k \in 0 .. DIRENTS_MAX - 1 :
              k # j /\ Used(v, d, k) => v.node[d].dirents[k].name # w.node[d].dirents[j].name
    /\ IsDir(v, d) \/ w.node[d].dirents \in {v.node[d].dirents, NoDirents}

(* Then no entry moves.                                                    *)
LEMMA KeepsPlaceIs ==
  ASSUME NEW v, NEW w, UniqueNames(v), Follows(v, w)
  PROVE  KeepsPlace(v, w)
<1>. SUFFICES ASSUME NEW d \in Inodes, NEW i \in 0 .. DIRENTS_MAX - 1, Used(v, d, i),
                     v.node[d].dirents[i] \in Entries(w, d)
              PROVE  w.node[d].dirents[i] = v.node[d].dirents[i]
  BY DEF KeepsPlace
<1>1. PICK j \in 0 .. DIRENTS_MAX - 1 : Used(w, d, j) /\ w.node[d].dirents[j] = v.node[d].dirents[i]
  BY DEF Entries
<1>2. CASE j = i
  BY <1>1, <1>2
<1>3. CASE j # i
  <2>1. CASE w.node[d].dirents = v.node[d].dirents
    BY <2>1
  <2>2. CASE w.node[d].dirents # v.node[d].dirents
    <3>1. w.node[d].dirents # NoDirents
      BY <1>1, NodeTypes DEF Used
    <3>2. IsDir(v, d)
      BY <2>2, <3>1 DEF Follows
    <3>3. w.node[d].dirents[j] = v.node[d].dirents[j]
      BY <1>1, <1>3 DEF Follows
    <3>4. Used(v, d, j) /\ v.node[d].dirents[j].name = v.node[d].dirents[i].name
      BY <1>1, <3>3 DEF Used
    <3>. QED  BY <1>3, <3>2, <3>4 DEF UniqueNames
  <2>. QED  BY <2>1, <2>2
<1>. QED  BY <1>2, <1>3

\* The result r of a call on v.
Good(v, r) ==
  /\ r.v \in DirVolumes
  /\ r.v.fReadOnly \/ (Tidy(r.v) /\ Follows(v, r.v) /\ (r.ret = "OK" \/ r.v = v))
  /\ r.ret = "ENOSPC" => r.v = v

(* A call that changes nothing.                                            *)
LEMMA SameIsGood ==
  ASSUME NEW v, v \in DirVolumes, Tidy(v), NEW r, r.v = v
  PROVE  Good(v, r)
<1>1. Follows(v, v)
  BY DEF Follows
<1>. QED  BY <1>1 DEF Good

(* A call that meets an I/O error.                                         *)
LEMMA ErrorIsGood ==
  ASSUME NEW v, NEW r, NEW u, u \in DirVolumes, r.v = Critical(u), r.ret # "ENOSPC"
  PROVE  Good(v, r)
BY CriticalIs DEF Good

(* Names and links made one after the other, or removed, cancel.           *)
LEMMA OffCancels ==
  ASSUME NEW x \in Inodes
  PROVE  /\ OffAfter(OffAfter(Exact, x, INODE_INVALID), INODE_INVALID, x) = Exact
         /\ OffAfter(Exact, x, INODE_INVALID) \in [Inodes -> Int]
         /\ OffAfter(Exact, INODE_INVALID, x) \in [Inodes -> Int]
         /\ Exact \in [Inodes -> Int]
<1>1. x # INODE_INVALID /\ INODE_INVALID \notin Inodes
  BY DirAssumption
<1>2. Exact \in [Inodes -> Int] /\ OffAfter(Exact, x, INODE_INVALID) \in [Inodes -> Int]
      /\ OffAfter(Exact, INODE_INVALID, x) \in [Inodes -> Int]
  BY DEF Exact, OffAfter
<1>3. PICK off : off = OffAfter(Exact, x, INODE_INVALID)
  OBVIOUS
<1>4. OffAfter(off, INODE_INVALID, x) \in [Inodes -> Int]
  BY <1>2, <1>3 DEF OffAfter
<1>5. ASSUME NEW i \in Inodes PROVE OffAfter(off, INODE_INVALID, x)[i] = Exact[i]
  BY <1>1, <1>3 DEF OffAfter, Exact
<1>6. OffAfter(off, INODE_INVALID, x) = Exact
  BY <1>2, <1>4, <1>5
<1>. QED  BY <1>2, <1>3, <1>6

(* A new entry is not a copy of another.                                   *)
LEMMA PutFollows ==
  ASSUME NEW v, NEW u, NEW w, v \in DirVolumes, \A i \in Inodes : u.node[i].dirents = v.node[i].dirents,
         NEW d, IsDir(v, d), NEW idx \in 0 .. DIRENTS_MAX - 1, NEW e,
         \A k \in 0 .. DIRENTS_MAX - 1 : k # idx /\ Used(v, d, k) => v.node[d].dirents[k].name # e.name,
         NEW D, D = [u.node[d].dirents EXCEPT ![idx] = e], Changed(u, d, D, w)
  PROVE  Follows(v, w)
<1>1. d \in Inodes /\ v.node[d].dirents \in Dirents
  BY VolumeTypes DEF IsDir, Exists
<1>2. D[idx] = e /\ \A k \in 0 .. DIRENTS_MAX - 1 : k # idx => D[k] = v.node[d].dirents[k]
  BY <1>1 DEF Dirents
<1>3. w.node[d].dirents = D /\ \A i \in Inodes : i # d => w.node[i].dirents = v.node[i].dirents
  BY <1>1 DEF Changed
<1>. QED  BY <1>1, <1>2, <1>3, ZenonT(60) DEF Follows

(* RedDirEntryCreate, and the change of v that it may make.                *)
LEMMA PutIs ==
  ASSUME NEW v, v \in DirVolumes, NEW x \in Inodes, NEW off, off \in [Inodes -> Int], TidyOff(v, off, INODE_INVALID),
         NEW d, IsDir(v, d), d \notin v.orphans, NEW name \in Names, name # "",
         x # ROOT, Exists(v, x), IsDir(v, x) => d = v.node[x].ulPInode,
         \A k \in 0 .. DIRENTS_MAX - 1 : Used(v, d, k) => v.node[d].dirents[k].name # name,
         NEW idx \in 0 .. DIRENTS_MAX - 1, ~Used(v, d, idx),
         NEW e, e = [name |-> name, ino |-> x],
         NEW D, D = [v.node[d].dirents EXCEPT ![idx] = e],
         NEW w, w = WithDirents(v, d, D)
  PROVE  Changed(v, d, D, w) /\ TidyOff(w, OffAfter(off, INODE_INVALID, x), INODE_INVALID)
<1>1. /\ e \in [name : Names \cup {""}, ino : Inodes \cup {INODE_INVALID}]
      /\ e.name = name /\ e.ino = x /\ x # INODE_INVALID
  BY DirAssumption
<1>2. v.node[d].dirents[idx].ino = INODE_INVALID
  BY DEF Used
<1>3. d \in Inodes /\ v.node[d].dirents \in Dirents
  BY VolumeTypes DEF IsDir, Exists
<1>4. D \in Dirents
  BY <1>1, <1>3 DEF Dirents
<1>5. Changed(v, d, D, w)
  BY <1>3, <1>4, WithDirentsIs
<1>6. /\ e.ino = INODE_INVALID => e = Unused
      /\ e.ino # INODE_INVALID =>
           /\ e.name # "" /\ e.ino # ROOT /\ Exists(v, e.ino)
           /\ \A k \in 0 .. DIRENTS_MAX - 1 : k # idx /\ Used(v, d, k) => v.node[d].dirents[k].name # e.name
           /\ (IsDir(v, e.ino) /\ e.ino # INODE_INVALID) => d = v.node[e.ino].ulPInode
  BY <1>1
<1>7. w = WithDirents(v, d, [v.node[d].dirents EXCEPT ![idx] = e])
  OBVIOUS
<1>8. TidyOff(w, OffAfter(off, v.node[d].dirents[idx].ino, e.ino), INODE_INVALID)
  BY ONLY v \in DirVolumes, off \in [Inodes -> Int], TidyOff(v, off, INODE_INVALID), IsDir(v, d), d \notin v.orphans,
          idx \in 0 .. DIRENTS_MAX - 1, <1>1, <1>6, <1>7, ChangeTidy
<1>. QED  BY <1>1, <1>2, <1>5, <1>8

(* CoreCreate.                                                             *)
LEMMA CreateGood ==
  ASSUME NEW v, v \in DirVolumes, Tidy(v), NEW p \in Inodes, p \notin v.orphans, NEW name \in Names,
         NEW type \in {"DIR", "REG", "LNK"}, NEW f \in Outcomes
  PROVE  Good(v, CoreCreate(v, p, name, type, f))
<1>. DEFINE r == CoreCreate(v, p, name, type, f)
<1>1. CASE MountDir(v, p) # "OK" \/ FreeInodes(v) = {}
  <2>1. r.v = v
    BY <1>1 DEF CoreCreate
  <2>. QED  BY <2>1, SameIsGood
<1>2. CASE MountDir(v, p) = "OK" /\ FreeInodes(v) # {}
  <2>1. PICK x : x = Min(FreeInodes(v))
    OBVIOUS
  <2>2. x \in Inodes /\ ~Exists(v, x)
    <3>1. FreeInodes(v) \subseteq Nat
      BY DirAssumption DEF FreeInodes
    <3>2. x \in FreeInodes(v)
      BY <1>2, <2>1, <3>1, MinIs
    <3>. QED  BY <3>2 DEF FreeInodes
  <2>3. IsDir(v, p) /\ p # x
    BY <1>2, <2>2 DEF MountDir, IsDir
  <2>4. PICK u : u = WithNew(v, x, type, p)
    OBVIOUS
  <2>5. PICK s : s = RedDirEntryCreate(u, p, name, x, f)
    OBVIOUS
  <2>6. /\ s.ret = "OK" => r.ret = "OK" /\ r.v = s.v
        /\ s.ret # "OK" => r.ret = s.ret /\ r.v = RedInodeFree(s.v, x)
    BY <1>2, <2>1, <2>4, <2>5 DEF CoreCreate, WithNew
  <2>. DEFINE off == OffAfter(Exact, x, INODE_INVALID)
  <2>7. /\ u \in DirVolumes /\ TidyOff(u, off, INODE_INVALID)
        /\ u.fReadOnly = v.fReadOnly /\ u.orphans = v.orphans
        /\ Exists(u, x) /\ x # ROOT /\ (IsDir(u, x) => u.node[x].ulPInode = p)
        /\ \A i \in Inodes : i # x => u.node[i] = v.node[i]
        /\ u.node[x].dirents = NoDirents /\ Reached(u, {x})
    <3>1. MadeNode(v, x, p, u)
      BY <2>2, <2>4, NewNodeTidy
    <3>. QED  BY <3>1 DEF MadeNode
  <2>8. v.node[x] = FREE_INODE
    BY <2>2 DEF Tidy, TidyOff, Shape, Exists
  <2>9. \A i \in Inodes : u.node[i].dirents = v.node[i].dirents
    <3>1. FREE_INODE.dirents = NoDirents
      BY NodeTypes
    <3>. QED  BY <2>7, <2>8, <3>1
  <2>10. IsDir(u, p) /\ p \notin u.orphans /\ Sized(u, p)
    <3>1. IsDir(u, p)
      BY <2>3, <2>7 DEF IsDir, Exists
    <3>. QED  BY <2>7, <3>1 DEF TidyOff, Shape
  <2>. HIDE DEF r
  <2>14. CreateOutcome(u, p, name, x, s)
    <3>1. CreateOutcome(u, p, name, x, RedDirEntryCreate(u, p, name, x, f))
      BY <2>2, <2>7, <2>10, CreateEntryIs
    <3>. QED  BY <2>5, <3>1
  <2>11. CASE s.ret # "OK" /\ s.v = u
    <3>1. r.v = RedInodeFree(u, x)
      BY <2>6, <2>11
    <3>2. RedInodeFree(u, x) = [v EXCEPT !.node[x] = v.node[x]]
      <4>. HIDE DEF FREE_INODE
      <4>. QED  BY <2>2, <2>4, <2>8 DEF RedInodeFree, WithNew, DirVolumes
    <3>3. [v EXCEPT !.node[x] = v.node[x]] = v
      BY <2>2 DEF DirVolumes
    <3>4. r.v = v
      BY <3>1, <3>2, <3>3
    <3>. QED  BY <3>4, SameIsGood DEF r
  <2>12. CASE s.ret = "EIO" /\ s.v = Critical(u)
    <3>1. r.ret = "EIO" /\ r.v = RedInodeFree(Critical(u), x)
      BY <2>6, <2>12
    <3>2. RedInodeFree(Critical(u), x) \in DirVolumes /\ RedInodeFree(Critical(u), x).fReadOnly
      <4>1. FREE_INODE \in Nodes
        BY NodeTypes
      <4>2. Critical(u) \in DirVolumes /\ Critical(u).fReadOnly
        BY <2>7, CriticalIs
      <4>3. PICK c : c = Critical(u)
        OBVIOUS
      <4>. HIDE DEF FREE_INODE
      <4>. QED  BY <2>2, <4>1, <4>2, <4>3 DEF RedInodeFree, DirVolumes
    <3>. QED  BY <3>1, <3>2 DEF Good, r
  <2>13. CASE s.ret = "OK"
    <3>1. PICK idx \in 0 .. DIRENTS_MAX - 1 :
            /\ name # "" /\ ~Used(u, p, idx)
            /\ \A k \in 0 .. DIRENTS_MAX - 1 : Used(u, p, k) => u.node[p].dirents[k].name # name
            /\ s.v = WithDirents(u, p, [u.node[p].dirents EXCEPT ![idx] = [name |-> name, ino |-> x]])
      <4>1. EntryMade(u, p, name, x, s)
        BY <2>13, <2>14 DEF CreateOutcome
      <4>. QED  BY <4>1 DEF EntryMade
    <3>2. PICK e, D : e = [name |-> name, ino |-> x] /\ D = [u.node[p].dirents EXCEPT ![idx] = e]
      OBVIOUS
    <3>3. s.v = WithDirents(u, p, D)
      BY <3>1, <3>2
    <3>4. off \in [Inodes -> Int] /\ OffAfter(off, INODE_INVALID, x) = Exact
      BY <2>2, OffCancels
    <3>5. Changed(u, p, D, s.v) /\ TidyOff(s.v, OffAfter(off, INODE_INVALID, x), INODE_INVALID)
      <4>1. IsDir(u, x) => p = u.node[x].ulPInode
        BY <2>7
      <4>2. off \in [Inodes -> Int] /\ TidyOff(u, off, INODE_INVALID)
        BY <2>7, <3>4
      <4>3. PICK o : o = off
        OBVIOUS
      <4>4. o \in [Inodes -> Int] /\ TidyOff(u, o, INODE_INVALID) /\ u \in DirVolumes
            /\ IsDir(u, p) /\ p \notin u.orphans /\ x # ROOT /\ Exists(u, x)
        BY <2>7, <2>10, <4>2, <4>3
      <4>5. Changed(u, p, D, s.v) /\ TidyOff(s.v, OffAfter(o, INODE_INVALID, x), INODE_INVALID)
        BY ONLY <2>2, <3>1, <3>2, <3>3, <4>1, <4>4, name \in Names, PutIs
      <4>. QED  BY <4>3, <4>5
    <3>6. Follows(v, s.v)
      <4>1. \A k \in 0 .. DIRENTS_MAX - 1 : k # idx /\ Used(v, p, k) => v.node[p].dirents[k].name # e.name
        BY <2>9, <3>1, <3>2 DEF Used
      <4>. QED  BY <2>3, <2>9, <3>2, <3>5, <4>1, PutFollows
    <3>7. Connected(s.v)
      <4>1. e.ino = x /\ e.ino \in Inodes /\ {x} \subseteq {e.ino} /\ p \notin {x}
        BY <2>2, <2>3, <3>2
      <4>2. Written(u, p, idx, e, s.v)
        BY ONLY <2>7, <2>10, <3>2, <3>5, idx \in 0 .. DIRENTS_MAX - 1 DEF Written
      <4>. QED  BY ONLY <2>7, <2>10, <3>1, <4>1, <4>2, PutReached
    <3>8. Tidy(s.v) /\ s.v \in DirVolumes
      BY <3>4, <3>5, <3>7 DEF Tidy, Changed
    <3>. QED  BY <2>6, <2>13, <3>6, <3>8 DEF Good, r
  <2>. QED  BY <2>11, <2>12, <2>13, <2>14 DEF CreateOutcome, EntryMade
<1>. QED  BY <1>1, <1>2

(* Changing link counts or freeing an inode moves no entry.                *)
LEMMA FollowsOn ==
  ASSUME NEW v, NEW w, NEW u, Follows(v, w),
         \A i \in Inodes : u.node[i].dirents = w.node[i].dirents \/ u.node[i].dirents = NoDirents
  PROVE  Follows(v, u)
<1>1. \A k \in 0 .. DIRENTS_MAX - 1 : NoDirents[k].ino = INODE_INVALID
  BY NodeTypes
<1>2. ASSUME NEW d \in Inodes, NEW j \in 0 .. DIRENTS_MAX - 1, Used(u, d, j)
      PROVE  u.node[d].dirents[j] = w.node[d].dirents[j] /\ Used(w, d, j)
  BY <1>1, <1>2 DEF Used
<1>. QED  BY <1>2 DEF Follows

(* CoreLink.                                                               *)
LEMMA LinkGood ==
  ASSUME NEW v, v \in DirVolumes, Tidy(v), NEW p \in Inodes, p \notin v.orphans, NEW name \in Names,
         NEW x \in Inodes, x \notin v.orphans, NEW f \in Outcomes
  PROVE  Good(v, CoreLink(v, p, name, x, f))
<1>. DEFINE r == CoreLink(v, p, name, x, f)
<1>1. CASE MountDir(v, p) # "OK" \/ ~Exists(v, x) \/ IsDir(v, x) \/ v.node[x].uNLink = UINT16_MAX
  <2>1. r.v = v
    BY <1>1 DEF CoreLink, Failed
  <2>. QED  BY <2>1, SameIsGood
<1>2. CASE MountDir(v, p) = "OK" /\ Exists(v, x) /\ ~IsDir(v, x) /\ v.node[x].uNLink # UINT16_MAX
  <2>1. PICK s : s = RedDirEntryCreate(v, p, name, x, f)
    OBVIOUS
  <2>2. r = IF s.ret = "OK" THEN Done([s.v EXCEPT !.node[x].uNLink = @ + 1]) ELSE s
    BY <1>2, <2>1 DEF CoreLink
  <2>3. IsDir(v, p) /\ x # ROOT /\ Sized(v, p)
    BY <1>2 DEF MountDir, IsDir, Tidy, TidyOff, Shape
  <2>. HIDE DEF r
  <2>7. CreateOutcome(v, p, name, x, s)
    <3>1. CreateOutcome(v, p, name, x, RedDirEntryCreate(v, p, name, x, f))
      BY <2>3, CreateEntryIs
    <3>. QED  BY <2>1, <3>1
  <2>4. CASE s.ret # "OK" /\ s.v = v
    <3>1. r.v = v
      BY <2>2, <2>4
    <3>. QED  BY <3>1, SameIsGood DEF r
  <2>5. CASE s.ret = "EIO" /\ s.v = Critical(v)
    <3>1. r.v = Critical(v) /\ r.ret # "ENOSPC"
      BY <2>2, <2>5
    <3>. QED  BY <3>1, ErrorIsGood DEF r
  <2>6. CASE s.ret = "OK"
    <3>1. PICK idx \in 0 .. DIRENTS_MAX - 1 :
            /\ name # "" /\ ~Used(v, p, idx)
            /\ \A k \in 0 .. DIRENTS_MAX - 1 : Used(v, p, k) => v.node[p].dirents[k].name # name
            /\ s.v = WithDirents(v, p, [v.node[p].dirents EXCEPT ![idx] = [name |-> name, ino |-> x]])
      <4>1. EntryMade(v, p, name, x, s)
        BY <2>6, <2>7 DEF CreateOutcome
      <4>. QED  BY <4>1 DEF EntryMade
    <3>2. PICK e, D : e = [name |-> name, ino |-> x] /\ D = [v.node[p].dirents EXCEPT ![idx] = e]
      OBVIOUS
    <3>3. s.v = WithDirents(v, p, D)
      BY <3>1, <3>2
    <3>4. Exact \in [Inodes -> Int] /\ TidyOff(v, Exact, INODE_INVALID)
      BY OffCancels DEF Tidy
    <3>5. Changed(v, p, D, s.v) /\ TidyOff(s.v, OffAfter(Exact, INODE_INVALID, x), INODE_INVALID)
      BY <1>2, <2>3, <3>1, <3>2, <3>3, <3>4, PutIs
    <3>6. Follows(v, s.v)
      <4>1. \A k \in 0 .. DIRENTS_MAX - 1 : k # idx /\ Used(v, p, k) => v.node[p].dirents[k].name # e.name
        BY <3>1, <3>2
      <4>. QED  BY <2>3, <3>2, <3>5, <4>1, PutFollows
    <3>7. r.ret = "OK" /\ r.v = [s.v EXCEPT !.node[x].uNLink = @ + 1]
      BY <2>2, <2>6 DEF Done
    <3>8. /\ s.v \in DirVolumes /\ Exists(s.v, x) /\ ~IsDir(s.v, x) /\ x \notin s.v.orphans
          /\ s.v.node[x].uNLink # UINT16_MAX
      BY <1>2, <3>5 DEF Changed, Exists, IsDir
    <3>12. Connected(s.v)
      <4>1. e.ino \in Inodes /\ {} \subseteq {e.ino} /\ p \notin {} /\ Reached(v, {})
        BY <3>2 DEF Tidy, Connected
      <4>2. Written(v, p, idx, e, s.v)
        BY ONLY v \in DirVolumes, <2>3, <3>2, <3>5, idx \in 0 .. DIRENTS_MAX - 1 DEF Written
      <4>. QED  BY ONLY p \notin v.orphans, <3>1, <4>1, <4>2, PutReached
    <3>9. /\ r.v \in DirVolumes /\ Tidy(r.v)
          /\ \A i \in Inodes : r.v.node[i].dirents = s.v.node[i].dirents
      BY <2>3, <3>5, <3>7, <3>8, <3>12, LinkIncTidy
    <3>10. Follows(v, r.v)
      BY ONLY <3>6, <3>9, FollowsOn
    <3>. QED  BY <3>7, <3>9, <3>10 DEF Good, r
  <2>. QED  BY <2>4, <2>5, <2>6, <2>7 DEF CreateOutcome, EntryMade
<1>. QED  BY <1>1, <1>2

(* Removing the entry of a name.                                           *)
LEMMA CutIs ==
  ASSUME NEW v, v \in DirVolumes, NEW s, NEW off, off \in [Inodes -> Int], TidyOff(v, off, s),
         NEW d, IsDir(v, d), d \notin v.orphans,
         NEW idx \in 0 .. DIRENTS_MAX - 1, NEW x, x = v.node[d].dirents[idx].ino,
         NEW D, D = [v.node[d].dirents EXCEPT ![idx] = Unused],
         NEW w, w = WithDirents(v, d, D)
  PROVE  Changed(v, d, D, w) /\ TidyOff(w, OffAfter(off, x, INODE_INVALID), s)
<1>1. PICK e : e = Unused
  OBVIOUS
<1>2. e \in [name : Names \cup {""}, ino : Inodes \cup {INODE_INVALID}] /\ e.ino = INODE_INVALID
  BY <1>1, NodeTypes
<1>3. d \in Inodes /\ v.node[d].dirents \in Dirents
  BY VolumeTypes DEF IsDir, Exists
<1>4. D = [v.node[d].dirents EXCEPT ![idx] = e] /\ w = WithDirents(v, d, [v.node[d].dirents EXCEPT ![idx] = e])
  BY <1>1
<1>5. D \in Dirents
  BY <1>2, <1>3, <1>4 DEF Dirents
<1>6. Changed(v, d, D, w)
  BY <1>3, <1>5, WithDirentsIs
<1>7. /\ e.ino = INODE_INVALID => e = Unused
      /\ e.ino # INODE_INVALID =>
           /\ e.name # "" /\ e.ino # ROOT /\ Exists(v, e.ino)
           /\ \A k \in 0 .. DIRENTS_MAX - 1 : k # idx /\ Used(v, d, k) => v.node[d].dirents[k].name # e.name
           /\ (IsDir(v, e.ino) /\ e.ino # s) => d = v.node[e.ino].ulPInode
  BY <1>1, <1>2
<1>8. TidyOff(w, OffAfter(off, v.node[d].dirents[idx].ino, e.ino), s)
  BY ONLY v \in DirVolumes, off \in [Inodes -> Int], TidyOff(v, off, s), IsDir(v, d), d \notin v.orphans,
          idx \in 0 .. DIRENTS_MAX - 1, <1>2, <1>4, <1>7, ChangeTidy
<1>. QED  BY <1>2, <1>6, <1>8

(* A directory of size 0 has no entries.                                   *)
LEMMA EmptyIs ==
  ASSUME NEW v, NEW d, Sized(v, d), ~(v.node[d].ullSize > 0)
  PROVE  \A k \in 0 .. DIRENTS_MAX - 1 : ~Used(v, d, k)
<1>1. PICK n : n = Top(v.node[d].dirents)
  OBVIOUS
<1>2. IsTop(v.node[d].dirents, n)
  BY <1>1, TopIs
<1>3. n \in Nat
  BY <1>2, BlockFits DEF IsTop
<1>4. ~(Size(n) > 0)
  BY <1>1 DEF Sized
<1>5. n = 0
  BY <1>3, <1>4, SizeIsNat, BlockFits
<1>. QED  BY <1>2, <1>5 DEF IsTop, Used

(* CoreUnlink.                                                             *)
LEMMA UnlinkGood ==
  ASSUME NEW v, v \in DirVolumes, Tidy(v), NEW p \in Inodes, p \notin v.orphans, NEW name,
         NEW fOrphan, NEW f \in Outcomes
  PROVE  Good(v, CoreUnlink(v, p, name, fOrphan, f))
<1>. DEFINE r == CoreUnlink(v, p, name, fOrphan, f)
<1>1. PICK at : at = RedDirEntryLookup(v, p, name)
  OBVIOUS
<1>2. CASE MountDir(v, p) # "OK" \/ at.ret # "OK" \/ ~Unlinkable(v, at.ino)
  <2>1. r.v = v
    BY <1>1, <1>2 DEF CoreUnlink, Failed
  <2>. QED  BY <2>1, SameIsGood
<1>3. CASE MountDir(v, p) = "OK" /\ at.ret = "OK" /\ Unlinkable(v, at.ino)
  <2>1. IsDir(v, p) /\ Sized(v, p)
    BY <1>3 DEF MountDir, IsDir, Tidy, TidyOff, Shape
  <2>2. PICK idx, x : idx = at.idx /\ x = at.ino
    OBVIOUS
  <2>3. /\ idx \in 0 .. DIRENTS_MAX - 1 /\ Used(v, p, idx)
        /\ v.node[p].dirents[idx] = [name |-> name, ino |-> x] /\ x \in Inodes /\ x # INODE_INVALID
    BY <1>1, <1>3, <2>1, <2>2, LookupIs
  <2>4. PICK s : s = RedDirEntryDelete(v, p, idx, f)
    OBVIOUS
  <2>5. r = IF s.ret = "OK" THEN Done(RedInodeLinkDec(s.v, x, fOrphan)) ELSE s
    BY <1>1, <1>3, <2>2, <2>4 DEF CoreUnlink
  <2>6. PICK D, w : D = [v.node[p].dirents EXCEPT ![idx] = Unused] /\ w = WithDirents(v, p, D)
    OBVIOUS
  <2>7. s = Step(v, f, w)
    <3>1. RedDirEntryDelete(v, p, idx, f) =
            Step(v, f, WithDirents(v, p, [v.node[p].dirents EXCEPT ![idx] = Unused]))
      BY <2>1, <2>3, DeleteIs
    <3>. QED  BY <2>4, <2>6, <3>1
  <2>8. \/ s.ret = "OK" /\ s.v = w
        \/ s.ret = "ENOSPC" /\ s.v = v
        \/ s.ret = "EIO" /\ s.v = Critical(v)
    BY <2>7, StepIs
  <2>. HIDE DEF r
  <2>9. CASE s.ret = "ENOSPC" /\ s.v = v
    <3>1. r.v = v
      BY <2>5, <2>9
    <3>. QED  BY <3>1, SameIsGood DEF r
  <2>10. CASE s.ret = "EIO" /\ s.v = Critical(v)
    <3>1. r.v = Critical(v) /\ r.ret # "ENOSPC"
      BY <2>5, <2>10
    <3>. QED  BY <3>1, ErrorIsGood DEF r
  <2>11. CASE s.ret = "OK" /\ s.v = w
    <3>1. r.ret = "OK" /\ r.v = RedInodeLinkDec(w, x, fOrphan)
      BY <2>5, <2>11 DEF Done
    <3>2. x = v.node[p].dirents[idx].ino
      BY <2>3
    <3>3. TidyOff(v, Exact, INODE_INVALID) /\ Exact \in [Inodes -> Int]
      BY <2>3, OffCancels DEF Tidy
    <3>4. Changed(v, p, D, w) /\ TidyOff(w, OffAfter(Exact, x, INODE_INVALID), INODE_INVALID)
      BY <2>1, <2>3, <2>6, <3>2, <3>3, CutIs
    <3>5. x # ROOT /\ Exists(v, x)
      BY <2>1, <2>3, <3>2 DEF Tidy, TidyOff, NamesLead
    <3>6. w \in DirVolumes /\ Exists(w, x)
      BY <3>4, <3>5 DEF Changed, Exists
    <3>7. IsDir(w, x) => \A k \in 0 .. DIRENTS_MAX - 1 : ~Used(w, x, k)
      <4>. SUFFICES ASSUME IsDir(w, x) PROVE \A k \in 0 .. DIRENTS_MAX - 1 : ~Used(w, x, k)
        OBVIOUS
      <4>1. IsDir(v, x)
        BY <3>4 DEF Changed, IsDir, Exists
      <4>2. ~(v.node[x].ullSize > 0) /\ Sized(v, x)
        BY <1>3, <2>2, <4>1, <2>3 DEF Unlinkable, Tidy, TidyOff, Shape
      <4>3. \A k \in 0 .. DIRENTS_MAX - 1 : ~Used(v, x, k)
        BY <4>2, EmptyIs
      <4>4. x # p
        BY <2>3, <4>3
      <4>5. w.node[x] = v.node[x]
        BY <2>3, <3>4, <4>4 DEF Changed
      <4>. QED  BY <4>3, <4>5 DEF Used
    <3>11. Reached(w, {x})
      <4>1. \A k : \A i \in Inodes : ~Leads(v, x, k, i)
        <5>. SUFFICES ASSUME NEW k, NEW i \in Inodes, Leads(v, x, k, i) PROVE FALSE
          OBVIOUS
        <5>1. IsDir(v, x) /\ k \in 0 .. DIRENTS_MAX - 1 /\ Used(v, x, k)
          BY DirAssumption DEF Leads, Used
        <5>2. ~(v.node[x].ullSize > 0) /\ Sized(v, x)
          BY <1>3, <2>2, <5>1, <2>3 DEF Unlinkable, Tidy, TidyOff, Shape
        <5>. QED  BY <5>1, <5>2, EmptyIs
      <4>2. Reached(v, {}) /\ {} \cup {x} = {x}
        BY DEF Tidy, Connected
      <4>3. Written(v, p, idx, Unused, w)
        <5>. HIDE DEF Unused
        <5>. QED  BY ONLY v \in DirVolumes, <2>1, <2>3, <2>6, <3>4 DEF Written
      <4>4. Reached(w, {} \cup {x})
        <5>. HIDE DEF Unused
        <5>. QED  BY ONLY <3>2, <4>1, <4>2, <4>3, EntryReached
      <4>. QED  BY <4>2, <4>4
    <3>8. /\ r.v \in DirVolumes /\ Tidy(r.v)
          /\ \A i \in Inodes : i # x => r.v.node[i] = w.node[i]
          /\ r.v.node[x].dirents \in {w.node[x].dirents, NoDirents}
      BY <2>3, <3>1, <3>4, <3>5, <3>6, <3>7, <3>11, LinkDecTidy
    <3>9. Follows(v, w)
      <4>1. v.node[p].dirents \in Dirents
        BY VolumeTypes
      <4>2. \A k \in 0 .. DIRENTS_MAX - 1 : D[k] = Unused \/ D[k] = v.node[p].dirents[k]
        BY <2>6, <4>1 DEF Dirents
      <4>3. w.node[p].dirents = D /\ \A i \in Inodes : i # p => w.node[i] = v.node[i]
        BY <3>4 DEF Changed
      <4>4. Unused.ino = INODE_INVALID
        BY NodeTypes
      <4>. QED  BY <2>1, <4>2, <4>3, <4>4 DEF Follows, Used
    <3>10. Follows(v, r.v)
      <4>1. \A i \in Inodes : r.v.node[i].dirents = w.node[i].dirents \/ r.v.node[i].dirents = NoDirents
        BY <3>8
      <4>. QED  BY <3>9, <4>1, FollowsOn
    <3>. QED  BY <3>1, <3>8, <3>10 DEF Good, r
  <2>. QED  BY <2>8, <2>9, <2>10, <2>11
<1>. QED  BY <1>2, <1>3

-----------------------------------------------------------------------------
(* A rename of the entry j of srcP, to x, to the entry k of dstP, to y.    *)
RenameOf(v, srcP, j, x, dstP, k, y, name) ==
  /\ IsDir(v, srcP) /\ IsDir(v, dstP) /\ srcP \notin v.orphans /\ dstP \notin v.orphans
  /\ j \in 0 .. DIRENTS_MAX - 1 /\ k \in 0 .. DIRENTS_MAX - 1
  /\ x \in Inodes /\ y \in Inodes \cup {INODE_INVALID} /\ x # y
  /\ v.node[srcP].dirents[j].ino = x /\ v.node[dstP].dirents[k].ino = y
  /\ name \in Names /\ name # ""
  /\ \A i \in 0 .. DIRENTS_MAX - 1 : i # k /\ Used(v, dstP, i) => v.node[dstP].dirents[i].name # name
  /\ y # INODE_INVALID => v.node[dstP].dirents[k] = [name |-> name, ino |-> y]
  /\ y = INODE_INVALID => v.node[dstP].dirents[k] = Unused
  /\ IsDir(v, y) => \A i \in 0 .. DIRENTS_MAX - 1 : ~Used(v, y, i)
  /\ IsDir(v, x) => x \notin Ancestors(v, dstP)

(* An inode whose entry moves keeps its number of names.                   *)
LEMMA OffMoves ==
  ASSUME NEW x \in Inodes, NEW y \in Inodes \cup {INODE_INVALID}, x # y
  PROVE  /\ OffAfter(OffAfter(Exact, y, x), x, INODE_INVALID) = OffAfter(Exact, y, INODE_INVALID)
         /\ OffAfter(Exact, y, x) \in [Inodes -> Int]
         /\ OffAfter(Exact, y, INODE_INVALID) \in [Inodes -> Int]
         /\ OffAfter(Exact, y, INODE_INVALID)[x] = 0
         /\ y = INODE_INVALID => OffAfter(Exact, y, INODE_INVALID) = Exact
<1>1. INODE_INVALID \notin Inodes
  BY DirAssumption
<1>2. /\ Exact \in [Inodes -> Int] /\ OffAfter(Exact, y, x) \in [Inodes -> Int]
      /\ OffAfter(Exact, y, INODE_INVALID) \in [Inodes -> Int]
  BY DEF Exact, OffAfter
<1>3. PICK off : off = OffAfter(Exact, y, x)
  OBVIOUS
<1>4. OffAfter(off, x, INODE_INVALID) \in [Inodes -> Int]
  BY <1>2, <1>3 DEF OffAfter
<1>5. ASSUME NEW i \in Inodes
      PROVE OffAfter(off, x, INODE_INVALID)[i] = OffAfter(Exact, y, INODE_INVALID)[i]
  BY <1>1, <1>3 DEF OffAfter, Exact
<1>6. OffAfter(off, x, INODE_INVALID) = OffAfter(Exact, y, INODE_INVALID)
  BY <1>2, <1>4, <1>5
<1>7. OffAfter(Exact, y, INODE_INVALID)[x] = 0
  BY <1>1 DEF OffAfter, Exact
<1>8. ASSUME y = INODE_INVALID PROVE OffAfter(Exact, y, INODE_INVALID) = Exact
  <2>1. ASSUME NEW i \in Inodes PROVE OffAfter(Exact, y, INODE_INVALID)[i] = Exact[i]
    BY <1>1, <1>8 DEF OffAfter, Exact
  <2>. QED  BY <1>2, <2>1
<1>. QED  BY <1>2, <1>3, <1>6, <1>7, <1>8

(* The new entry is written.                                               *)
LEMMA RenamePut ==
  ASSUME NEW v, v \in DirVolumes, Tidy(v), NEW srcP, NEW j, NEW x, NEW dstP, NEW k, NEW y, NEW name,
         RenameOf(v, srcP, j, x, dstP, k, y, name),
         NEW e, e = [name |-> name, ino |-> x],
         NEW D, D = [v.node[dstP].dirents EXCEPT ![k] = e],
         NEW w, w = WithDirents(v, dstP, D)
  PROVE  /\ Changed(v, dstP, D, w) /\ TidyOff(w, OffAfter(Exact, y, x), x) /\ Follows(v, w)
         /\ IsDir(w, srcP) /\ IsDir(w, dstP) /\ Sized(w, srcP) /\ Sized(w, dstP)
         /\ w.node[srcP].dirents[j].ino = x /\ Used(w, srcP, j)
         /\ w.node[dstP].dirents[k] = e /\ Used(w, dstP, k)
         /\ (srcP # dstP \/ j # k)
<1>1. /\ IsDir(v, srcP) /\ IsDir(v, dstP) /\ dstP \notin v.orphans
      /\ j \in 0 .. DIRENTS_MAX - 1 /\ k \in 0 .. DIRENTS_MAX - 1
      /\ x \in Inodes /\ x # y /\ v.node[srcP].dirents[j].ino = x /\ v.node[dstP].dirents[k].ino = y
      /\ name \in Names /\ name # ""
      /\ \A i \in 0 .. DIRENTS_MAX - 1 : i # k /\ Used(v, dstP, i) => v.node[dstP].dirents[i].name # name
  BY DEF RenameOf
<1>2. /\ e \in [name : Names \cup {""}, ino : Inodes \cup {INODE_INVALID}]
      /\ e.name = name /\ e.ino = x /\ x # INODE_INVALID
  BY <1>1, DirAssumption
<1>3. dstP \in Inodes /\ srcP \in Inodes /\ v.node[dstP].dirents \in Dirents
  BY <1>1, VolumeTypes DEF IsDir, Exists
<1>4. D \in Dirents /\ D[k] = e /\ \A i \in 0 .. DIRENTS_MAX - 1 : i # k => D[i] = v.node[dstP].dirents[i]
  BY <1>1, <1>2, <1>3 DEF Dirents
<1>5. Changed(v, dstP, D, w)
  BY <1>3, <1>4, WithDirentsIs
<1>6. Used(v, srcP, j)
  BY <1>1, <1>2 DEF Used
<1>7. x # ROOT /\ Exists(v, x)
  BY <1>1, <1>3, <1>6 DEF Tidy, TidyOff, NamesLead
<1>8. TidyOff(v, Exact, x)
  BY ONLY Tidy(v), DirAssumption DEF Tidy, TidyOff, OneParent
<1>9. Exact \in [Inodes -> Int]
  BY DEF Exact
<1>10. /\ e.ino = INODE_INVALID => e = Unused
       /\ e.ino # INODE_INVALID =>
            /\ e.name # "" /\ e.ino # ROOT /\ Exists(v, e.ino)
            /\ \A i \in 0 .. DIRENTS_MAX - 1 : i # k /\ Used(v, dstP, i) => v.node[dstP].dirents[i].name # e.name
            /\ (IsDir(v, e.ino) /\ e.ino # x) => dstP = v.node[e.ino].ulPInode
  BY <1>1, <1>2, <1>7
<1>11. w = WithDirents(v, dstP, [v.node[dstP].dirents EXCEPT ![k] = e])
  OBVIOUS
<1>12. TidyOff(w, OffAfter(Exact, v.node[dstP].dirents[k].ino, e.ino), x)
  BY ONLY v \in DirVolumes, <1>1, <1>2, <1>8, <1>9, <1>10, <1>11, ChangeTidy
<1>13. TidyOff(w, OffAfter(Exact, y, x), x)
  BY <1>1, <1>2, <1>12
<1>14. Follows(v, w)
  <2>1. \A i \in 0 .. DIRENTS_MAX - 1 : i # k /\ Used(v, dstP, i) => v.node[dstP].dirents[i].name # e.name
    BY <1>1, <1>2
  <2>. QED  BY <1>1, <1>5, <2>1, PutFollows
<1>15. IsDir(w, srcP) /\ IsDir(w, dstP)
  BY <1>1, <1>5 DEF Changed, IsDir, Exists
<1>16. Sized(w, srcP) /\ Sized(w, dstP)
  BY <1>3, <1>13, <1>15 DEF TidyOff, Shape
<1>17. srcP # dstP \/ j # k
  BY <1>1
<1>18. w.node[dstP].dirents[k] = e
  BY <1>4, <1>5 DEF Changed
<1>19. w.node[srcP].dirents[j] = v.node[srcP].dirents[j]
  <2>1. CASE srcP # dstP
    BY <1>3, <1>5, <2>1 DEF Changed
  <2>2. CASE srcP = dstP
    <3>1. w.node[dstP].dirents = D
      BY <1>5 DEF Changed
    <3>2. D[j] = v.node[dstP].dirents[j]
      BY ONLY <1>1, <1>4, <1>17, <2>2
    <3>. QED  BY ONLY <2>2, <3>1, <3>2
  <2>. QED  BY <2>1, <2>2
<1>. QED  BY <1>1, <1>2, <1>5, <1>13, <1>14, <1>15, <1>16, <1>17, <1>18, <1>19 DEF Used

(* Then the old one is deleted.                                            *)
LEMMA RenameCut ==
  ASSUME NEW v, v \in DirVolumes, Tidy(v), NEW srcP, NEW j, NEW x, NEW dstP, NEW k, NEW y, NEW name,
         RenameOf(v, srcP, j, x, dstP, k, y, name),
         NEW e, e = [name |-> name, ino |-> x],
         NEW D, D = [v.node[dstP].dirents EXCEPT ![k] = e],
         NEW w, w = WithDirents(v, dstP, D),
         NEW C, C = [w.node[srcP].dirents EXCEPT ![j] = Unused],
         NEW u, u = WithDirents(w, srcP, C)
  PROVE  /\ Changed(w, srcP, C, u) /\ TidyOff(u, OffAfter(Exact, y, INODE_INVALID), x) /\ Follows(v, u)
         /\ Leads(u, dstP, k, x)
<1>1. /\ Changed(v, dstP, D, w) /\ TidyOff(w, OffAfter(Exact, y, x), x) /\ Follows(v, w)
      /\ IsDir(w, srcP) /\ IsDir(w, dstP) /\ Sized(w, srcP)
      /\ w.node[srcP].dirents[j].ino = x /\ Used(w, srcP, j)
      /\ w.node[dstP].dirents[k] = e /\ (srcP # dstP \/ j # k)
  BY ONLY v \in DirVolumes, Tidy(v), RenameOf(v, srcP, j, x, dstP, k, y, name), e = [name |-> name, ino |-> x],
          D = [v.node[dstP].dirents EXCEPT ![k] = e], w = WithDirents(v, dstP, D), RenamePut
<1>2. /\ j \in 0 .. DIRENTS_MAX - 1 /\ k \in 0 .. DIRENTS_MAX - 1 /\ x \in Inodes
      /\ y \in Inodes \cup {INODE_INVALID} /\ x # y
      /\ srcP \in Inodes /\ dstP \in Inodes /\ srcP \notin v.orphans /\ IsDir(v, srcP)
  BY DEF RenameOf, IsDir, Exists
<1>3. w \in DirVolumes /\ srcP \notin w.orphans /\ OffAfter(Exact, y, x) \in [Inodes -> Int]
  BY <1>1, <1>2, OffMoves DEF Changed
<1>4. PICK off : off = OffAfter(Exact, y, x)
  OBVIOUS
<1>5. Changed(w, srcP, C, u) /\ TidyOff(u, OffAfter(off, x, INODE_INVALID), x)
  <2>1. off \in [Inodes -> Int] /\ TidyOff(w, off, x) /\ x = w.node[srcP].dirents[j].ino
    BY <1>1, <1>3, <1>4
  <2>. QED  BY ONLY <1>1, <1>2, <1>3, <2>1, C = [w.node[srcP].dirents EXCEPT ![j] = Unused],
                    u = WithDirents(w, srcP, C), CutIs
<1>6. TidyOff(u, OffAfter(Exact, y, INODE_INVALID), x)
  BY <1>2, <1>4, <1>5, OffMoves
<1>7. w.node[srcP].dirents \in Dirents
  BY <1>2, <1>3, VolumeTypes
<1>8. C[j] = Unused /\ \A i \in 0 .. DIRENTS_MAX - 1 : i # j => C[i] = w.node[srcP].dirents[i]
  BY <1>2, <1>7 DEF Dirents
<1>9. Unused.ino = INODE_INVALID
  BY NodeTypes
<1>10. u.node[srcP].dirents = C /\ \A i \in Inodes : i # srcP => u.node[i] = w.node[i]
  BY <1>5 DEF Changed
<1>11. Follows(v, u)
  <2>1. ASSUME NEW d \in Inodes, NEW i \in 0 .. DIRENTS_MAX - 1, Used(u, d, i)
        PROVE  u.node[d].dirents[i] = w.node[d].dirents[i] /\ Used(w, d, i)
    <3>1. CASE d # srcP
      BY ONLY <1>10, <2>1, <3>1 DEF Used
    <3>2. CASE d = srcP /\ i = j
      BY ONLY <1>8, <1>9, <1>10, <2>1, <3>2 DEF Used
    <3>3. CASE d = srcP /\ i # j
      BY ONLY <1>8, <1>10, <2>1, <3>3 DEF Used
    <3>. QED  BY <3>1, <3>2, <3>3
  <2>2. ASSUME NEW d \in Inodes, ~IsDir(v, d)
        PROVE  u.node[d].dirents \in {v.node[d].dirents, NoDirents}
    BY <1>1, <1>2, <1>10, <2>2 DEF Follows
  <2>. QED  BY ONLY <1>1, <2>1, <2>2 DEF Follows
<1>12. u.node[dstP].dirents[k] = e
  <2>1. CASE srcP # dstP
    BY ONLY <1>1, <1>2, <1>10, <2>1
  <2>2. CASE srcP = dstP
    BY ONLY <1>1, <1>2, <1>8, <1>10, <2>2
  <2>. QED  BY <2>1, <2>2
<1>13. Leads(u, dstP, k, x)
  BY ONLY <1>1, <1>2, <1>5, <1>12, e.ino = x DEF Leads, Changed, IsDir, Exists
<1>. QED  BY <1>5, <1>6, <1>11, <1>13

(* An inode that is replaced has no entries.                               *)
LEMMA ReplacedIsEmpty ==
  ASSUME NEW v, NEW srcP, NEW j, NEW x, NEW dstP, NEW k, NEW y, NEW name,
         RenameOf(v, srcP, j, x, dstP, k, y, name)
  PROVE  dstP # y /\ \A l : \A i \in Inodes : ~Leads(v, y, l, i)
<1>1. /\ IsDir(v, dstP) /\ k \in 0 .. DIRENTS_MAX - 1 /\ v.node[dstP].dirents[k].ino = y
      /\ IsDir(v, y) => \A i \in 0 .. DIRENTS_MAX - 1 : ~Used(v, y, i)
  BY DEF RenameOf
<1>2. ASSUME NEW l, NEW i \in Inodes, Leads(v, y, l, i) PROVE FALSE
  BY <1>1, <1>2, DirAssumption DEF Leads, Used
<1>3. dstP # y
  <2>1. CASE y = INODE_INVALID
    BY <1>1, <2>1, DirAssumption DEF IsDir, Exists
  <2>2. CASE y # INODE_INVALID
    BY <1>1, <2>2 DEF Used
  <2>. QED  BY <2>1, <2>2
<1>. QED  BY <1>2, <1>3

\* The entry k of dstP that led to y now leads to x, and the one of srcP that
\* led to x is gone: from v over w to u.
Moving(v, w, u, x, dstP, k, y) ==
  /\ Leads(v, dstP, k, y) \/ y = INODE_INVALID
  /\ Leads(u, dstP, k, x) /\ u.orphans = v.orphans
  /\ NamesStay(v, w, y) /\ NamesStay(w, u, x) /\ \A i : Live(u, i) <=> Live(w, i)
  /\ Reached(w, {y})

(* Then only y is out of reach: if x is a directory, then the new parent   *)
(* is not below x.                                                         *)
LEMMA MovedReached ==
  ASSUME NEW v, Tidy(v), NEW w, NEW u, NEW x \in Inodes, NEW dstP, dstP \in LiveDirs(v), NEW k,
         NEW y, y # dstP, Moving(v, w, u, x, dstP, k, y), x \notin Ancestors(v, dstP)
  PROVE  Reached(u, {y})
<1>. SUFFICES ASSUME NEW S \in SUBSET Inodes, Closed(u, S), NEW z \in Inodes, Live(u, z), z \notin {y}
              PROVE  z \in S
  BY DEF Reached
<1>1. PICK A : A = Ancestors(v, dstP)
  OBVIOUS
<1>2. /\ dstP \in A /\ A \subseteq LiveDirs(v) /\ x \notin A
      /\ \A i \in A : i # ROOT => v.node[i].ulPInode \in A
  BY <1>1, AncestorsAre
<1>3. ROOT \in S
  BY DEF Closed
<1>4. dstP \in S
  <2>. SUFFICES ASSUME dstP \notin S PROVE FALSE
    OBVIOUS
  <2>1. PICK B : B = A \ S
    OBVIOUS
  <2>2. ASSUME NEW d \in Inodes \ B, NEW i \in Inodes, NEW l, Leads(v, d, l, i), i \in B PROVE FALSE
    <3>1. i \in A /\ i \notin S /\ i # ROOT /\ IsDir(v, i) /\ i # x /\ i # INODE_INVALID
      BY <1>2, <1>3, <2>1, <2>2, DirAssumption DEF LiveDirs
    <3>2. \A c, m : Leads(v, c, m, i) => c = v.node[i].ulPInode
      BY ONLY Tidy(v), <2>2, <3>1 DEF Tidy, TidyOff, OneParent
    <3>3. d \in A /\ d \in S
      BY <1>2, <2>1, <2>2, <3>1, <3>2
    <3>4. i # y
      <4>. SUFFICES ASSUME i = y PROVE FALSE
        OBVIOUS
      <4>1. Leads(v, dstP, k, i)
        BY <3>1 DEF Moving
      <4>2. d = dstP
        BY <2>2, <3>2, <4>1
      <4>. QED  BY <3>3, <4>2
    <3>5. Leads(w, d, l, i)
      BY <2>2, <3>4 DEF Moving, NamesStay
    <3>6. Leads(u, d, l, i)
      BY <2>2, <3>1, <3>5 DEF Moving, NamesStay
    <3>. QED  BY <3>1, <3>3, <3>6 DEF Closed
  <2>3. Closed(v, Inodes \ B)
    BY <1>3, <2>1, <2>2, DirAssumption DEF Closed
  <2>4. dstP \in Inodes /\ Live(v, dstP)
    BY DEF LiveDirs, IsDir, Live
  <2>5. dstP \in Inodes \ B
    <3>1. Inodes \ B \in SUBSET Inodes /\ dstP \notin {}
      OBVIOUS
    <3>. QED  BY ONLY Tidy(v), <2>3, <2>4, <3>1 DEF Tidy, Connected, Reached
  <2>. QED  BY <1>2, <2>1, <2>5
<1>5. x \in S
  BY <1>4 DEF Moving, Closed
<1>6. Closed(w, S)
  BY <1>3, <1>5 DEF Moving, NamesStay, Closed
<1>. QED  BY <1>6 DEF Moving, Reached

(* The same if x is no directory.                                          *)
LEMMA RenameReached ==
  ASSUME NEW v, v \in DirVolumes, Tidy(v), NEW srcP, NEW j, NEW x, NEW dstP, NEW k, NEW y, NEW name,
         RenameOf(v, srcP, j, x, dstP, k, y, name),
         NEW e, e = [name |-> name, ino |-> x],
         NEW D, D = [v.node[dstP].dirents EXCEPT ![k] = e],
         NEW w, w = WithDirents(v, dstP, D),
         NEW C, C = [w.node[srcP].dirents EXCEPT ![j] = Unused],
         NEW u, u = WithDirents(w, srcP, C)
  PROVE  Reached(u, {y})
<1>1. /\ Changed(v, dstP, D, w) /\ IsDir(w, srcP) /\ w.node[srcP].dirents[j].ino = x
  BY ONLY v \in DirVolumes, Tidy(v), RenameOf(v, srcP, j, x, dstP, k, y, name), e = [name |-> name, ino |-> x],
     D = [v.node[dstP].dirents EXCEPT ![k] = e], w = WithDirents(v, dstP, D), RenamePut
<1>2. Changed(w, srcP, C, u) /\ Leads(u, dstP, k, x)
  BY RenameCut
<1>3. /\ IsDir(v, srcP) /\ IsDir(v, dstP) /\ srcP \notin v.orphans /\ dstP \notin v.orphans
      /\ j \in 0 .. DIRENTS_MAX - 1 /\ k \in 0 .. DIRENTS_MAX - 1 /\ x \in Inodes /\ x # y
      /\ v.node[dstP].dirents[k].ino = y
      /\ IsDir(v, x) => x \notin Ancestors(v, dstP)
  BY DEF RenameOf
<1>4. dstP # y /\ \A l : \A i \in Inodes : ~Leads(v, y, l, i)
  BY ONLY RenameOf(v, srcP, j, x, dstP, k, y, name), ReplacedIsEmpty
<1>5. w \in DirVolumes
  BY <1>1 DEF Changed
<1>6. PICK o : o = Unused
  OBVIOUS
<1>7. Written(v, dstP, k, e, w)
  BY ONLY v \in DirVolumes, D = [v.node[dstP].dirents EXCEPT ![k] = e], <1>1, <1>3 DEF Written
<1>8. Written(w, srcP, j, o, u)
  BY ONLY C = [w.node[srcP].dirents EXCEPT ![j] = Unused], <1>1, <1>2, <1>3, <1>5, <1>6 DEF Written
<1>9. Reached(w, {y})
  <2>1. PICK X : X = {}
    OBVIOUS
  <2>2. Reached(v, X)
    BY ONLY Tidy(v), <2>1 DEF Tidy, Connected
  <2>3. Reached(w, X \cup {y})
    BY ONLY <1>3, <1>4, <1>7, <2>2, EntryReached
  <2>4. X \cup {y} = {y}
    BY <2>1
  <2>. QED  BY <2>3, <2>4
<1>10. /\ NamesStay(v, w, y) /\ \A i : Live(w, i) <=> Live(v, i)
  <2>1. \A F : (F = [v.node[dstP].dirents EXCEPT ![k] = e] /\ Changed(v, dstP, F, w)) =>
                 NamesStay(v, w, v.node[dstP].dirents[k].ino) /\ \A i : Live(w, i) <=> Live(v, i)
    BY ONLY v \in DirVolumes, <1>3, ChangedNames
  <2>. QED  BY ONLY <1>1, <1>3, <2>1, D = [v.node[dstP].dirents EXCEPT ![k] = e]
<1>11. /\ NamesStay(w, u, x) /\ \A i : Live(u, i) <=> Live(w, i)
  <2>1. \A F : (F = [w.node[srcP].dirents EXCEPT ![j] = o] /\ Changed(w, srcP, F, u)) =>
                 NamesStay(w, u, w.node[srcP].dirents[j].ino) /\ \A i : Live(u, i) <=> Live(w, i)
    BY ONLY <1>1, <1>3, <1>5, ChangedNames
  <2>. QED  BY ONLY <1>1, <1>2, <1>6, <2>1, C = [w.node[srcP].dirents EXCEPT ![j] = Unused]
<1>12. u.orphans = v.orphans
  BY ONLY <1>1, <1>2 DEF Changed
<1>13. CASE IsDir(v, x)
  <2>1. Leads(v, dstP, k, y)
    BY <1>3 DEF Leads
  <2>2. Moving(v, w, u, x, dstP, k, y)
    BY ONLY <1>2, <1>9, <1>10, <1>11, <1>12, <2>1 DEF Moving
  <2>3. dstP \in LiveDirs(v)
    BY <1>3 DEF LiveDirs, IsDir, Exists
  <2>. QED  BY ONLY Tidy(v), <1>3, <1>4, <1>13, <2>2, <2>3, MovedReached
<1>14. CASE ~IsDir(v, x)
  <2>1. \A l : \A i \in Inodes : ~Leads(w, x, l, i)
    BY <1>1, <1>14 DEF Leads, Changed, IsDir, Exists
  <2>2. Reached(u, {y} \cup {x})
    BY ONLY <1>1, <1>8, <1>9, <2>1, EntryReached
  <2>3. PICK Z : Z = {y} \cup {x}
    OBVIOUS
  <2>4. dstP \notin Z /\ Z \subseteq {y} \cup {x} /\ dstP \notin u.orphans
    BY <1>3, <1>4, <1>12, <1>14, <2>3
  <2>5. Reached(u, Z)
    BY <2>2, <2>3
  <2>. QED  BY ONLY <1>2, <1>3, <2>4, <2>5, ReachedNamed
<1>. QED  BY <1>13, <1>14

\* The volume t after a rename over y, whose link count is still to be changed.
Renamed(v, t, y) ==
  /\ t \in DirVolumes /\ TidyOff(t, OffAfter(Exact, y, INODE_INVALID), INODE_INVALID) /\ Follows(v, t)
  /\ Reached(t, {y})
  /\ y # INODE_INVALID =>
       /\ y \in Inodes /\ y # ROOT /\ Exists(t, y)
       /\ IsDir(t, y) => \A i \in 0 .. DIRENTS_MAX - 1 : ~Used(t, y, i)

(* Then the inode gets its new parent.                                     *)
LEMMA RenameMoved ==
  ASSUME NEW v, v \in DirVolumes, Tidy(v), NEW srcP, NEW j, NEW x, NEW dstP, NEW k, NEW y, NEW name,
         RenameOf(v, srcP, j, x, dstP, k, y, name),
         NEW e, e = [name |-> name, ino |-> x],
         NEW D, D = [v.node[dstP].dirents EXCEPT ![k] = e],
         NEW w, w = WithDirents(v, dstP, D),
         NEW C, C = [w.node[srcP].dirents EXCEPT ![j] = Unused],
         NEW u, u = WithDirents(w, srcP, C),
         NEW t, t = [u EXCEPT !.node[x].ulPInode = dstP]
  PROVE  Renamed(v, t, y)
<1>1. /\ Changed(v, dstP, D, w) /\ TidyOff(w, OffAfter(Exact, y, x), x) /\ IsDir(w, srcP) /\ Used(w, srcP, j)
      /\ w.node[srcP].dirents[j].ino = x
  BY ONLY v \in DirVolumes, Tidy(v), RenameOf(v, srcP, j, x, dstP, k, y, name), e = [name |-> name, ino |-> x],
     D = [v.node[dstP].dirents EXCEPT ![k] = e], w = WithDirents(v, dstP, D), RenamePut
<1>2. /\ Changed(w, srcP, C, u) /\ TidyOff(u, OffAfter(Exact, y, INODE_INVALID), x) /\ Follows(v, u)
      /\ Leads(u, dstP, k, x)
  BY RenameCut
<1>3. /\ j \in 0 .. DIRENTS_MAX - 1 /\ k \in 0 .. DIRENTS_MAX - 1 /\ x \in Inodes
      /\ y \in Inodes \cup {INODE_INVALID} /\ x # y
      /\ srcP \in Inodes /\ dstP \in Inodes /\ IsDir(v, srcP) /\ IsDir(v, dstP)
      /\ v.node[srcP].dirents[j].ino = x /\ v.node[dstP].dirents[k].ino = y /\ x # INODE_INVALID
      /\ IsDir(v, y) => \A i \in 0 .. DIRENTS_MAX - 1 : ~Used(v, y, i)
  BY DirAssumption DEF RenameOf, IsDir, Exists
<1>4. x # ROOT /\ Exists(v, x)
  <2>1. Used(v, srcP, j)
    BY <1>3 DEF Used
  <2>. QED  BY <1>3, <2>1 DEF Tidy, TidyOff, NamesLead
<1>5. u \in DirVolumes /\ Exists(u, x)
  BY ONLY <1>1, <1>2, <1>3, <1>4 DEF Changed, Exists
<1>6. PICK off : off = OffAfter(Exact, y, INODE_INVALID)
  OBVIOUS
<1>7. off[x] = 0 /\ TidyOff(u, off, x)
  BY <1>2, <1>3, <1>6, OffMoves
<1>8. /\ t \in DirVolumes /\ TidyOff(t, off, INODE_INVALID)
      /\ \A i \in Inodes : /\ t.node[i].dirents = u.node[i].dirents
                           /\ t.node[i].type = u.node[i].type
      /\ \A X : Reached(u, X) => Reached(t, X)
  BY ONLY <1>2, <1>3, <1>4, <1>5, <1>7, t = [u EXCEPT !.node[x].ulPInode = dstP], ParentTidy
<1>9. Follows(v, t)
  BY ONLY <1>2, <1>8, FollowsOn
<1>10. ASSUME y # INODE_INVALID
       PROVE  /\ y \in Inodes /\ y # ROOT /\ Exists(t, y)
              /\ IsDir(t, y) => \A i \in 0 .. DIRENTS_MAX - 1 : ~Used(t, y, i)
  <2>1. y \in Inodes /\ Used(v, dstP, k)
    BY <1>3, <1>10 DEF Used
  <2>2. y # ROOT /\ Exists(v, y)
    BY <1>3, <2>1 DEF Tidy, TidyOff, NamesLead
  <2>3. t.node[y].type = v.node[y].type
    BY ONLY <1>1, <1>2, <1>8, <2>1 DEF Changed
  <2>4. ASSUME IsDir(t, y), NEW i \in 0 .. DIRENTS_MAX - 1 PROVE ~Used(t, y, i)
    <3>1. IsDir(v, y)
      BY <2>2, <2>3, <2>4 DEF IsDir
    <3>2. \A l \in 0 .. DIRENTS_MAX - 1 : ~Used(v, y, l)
      BY <1>3, <3>1
    <3>3. y # srcP /\ y # dstP
      BY <1>3, <2>1, <3>2 DEF Used
    <3>4. t.node[y].dirents = v.node[y].dirents
      BY ONLY <1>1, <1>2, <1>8, <2>1, <3>3 DEF Changed
    <3>. QED  BY <3>2, <3>4 DEF Used
  <2>. QED  BY <2>1, <2>2, <2>3, <2>4 DEF Exists
<1>11. Reached(u, {y})
  BY RenameReached
<1>. QED  BY ONLY <1>6, <1>8, <1>9, <1>10, <1>11 DEF Renamed

(* What undoing a rename makes of the volume w with the new entry.         *)
UndoOutcome(v, s) ==
  \/ s.ret = "OK" /\ s.v = v
  \/ s.ret = "EIO" /\ s.v \in DirVolumes

(* A rename that finds no space for its second step is undone.             *)
LEMMA RenameUndone ==
  ASSUME NEW v, v \in DirVolumes, Tidy(v), NEW srcP, NEW j, NEW x, NEW dstP, NEW k, NEW y, NEW name,
         RenameOf(v, srcP, j, x, dstP, k, y, name),
         NEW e, e = [name |-> name, ino |-> x],
         NEW D, D = [v.node[dstP].dirents EXCEPT ![k] = e],
         NEW w, w = WithDirents(v, dstP, D),
         NEW dst, dst.ino = y, dst.idx = k, NEW f \in {"OK", "EIO"}
  PROVE  UndoOutcome(v, RenameUndo(w, dstP, dst, name, f))
<1>1. /\ Changed(v, dstP, D, w) /\ IsDir(w, dstP) /\ Sized(w, dstP) /\ Used(w, dstP, k)
  BY ONLY v \in DirVolumes, Tidy(v), RenameOf(v, srcP, j, x, dstP, k, y, name), e = [name |-> name, ino |-> x],
     D = [v.node[dstP].dirents EXCEPT ![k] = e], w = WithDirents(v, dstP, D), RenamePut
<1>2. /\ k \in 0 .. DIRENTS_MAX - 1 /\ dstP \in Inodes /\ IsDir(v, dstP) /\ x \in Inodes /\ name \in Names
      /\ y # INODE_INVALID => v.node[dstP].dirents[k] = [name |-> name, ino |-> y]
      /\ y = INODE_INVALID => v.node[dstP].dirents[k] = Unused
  BY DEF RenameOf, IsDir, Exists
<1>3. w \in DirVolumes /\ Sized(v, dstP)
  BY ONLY <1>1, <1>2, Tidy(v) DEF Changed, Tidy, TidyOff, Shape
<1>4. PICK old : old = v.node[dstP].dirents[k]
  OBVIOUS
<1>5. PICK z : z = WithDirents(w, dstP, [w.node[dstP].dirents EXCEPT ![k] = old])
  OBVIOUS
<1>6. z = v
  <2>1. e \in [name : Names \cup {""}, ino : Inodes \cup {INODE_INVALID}]
    BY <1>2
  <2>2. w = WithDirents(v, dstP, [v.node[dstP].dirents EXCEPT ![k] = e])
    OBVIOUS
  <2>3. WithDirents(WithDirents(v, dstP, [v.node[dstP].dirents EXCEPT ![k] = e]), dstP,
          [WithDirents(v, dstP, [v.node[dstP].dirents EXCEPT ![k] = e]).node[dstP].dirents
             EXCEPT ![k] = v.node[dstP].dirents[k]]) = v
    BY ONLY v \in DirVolumes, <1>2, <1>3, <2>1, UndoIs, ZenonT(60)
  <2>. QED  BY ONLY <1>4, <1>5, <2>2, <2>3
<1>7. PICK s : s = RenameUndo(w, dstP, dst, name, f)
  OBVIOUS
<1>8. s = Step(w, f, z)
  <2>1. CASE y # INODE_INVALID
    <3>1. s = DirEntryWrite(w, dstP, k, y, name, f)
      BY <1>7, <2>1 DEF RenameUndo
    <3>2. DirEntryWrite(w, dstP, k, y, name, f) =
            Step(w, f, WithDirents(w, dstP, [w.node[dstP].dirents EXCEPT ![k] = [name |-> name, ino |-> y]]))
      BY ONLY <1>1, <1>2, <1>3, <2>1, WriteIs
    <3>. QED  BY ONLY <1>2, <1>4, <1>5, <2>1, <3>1, <3>2
  <2>2. CASE y = INODE_INVALID
    <3>1. s = RedDirEntryDelete(w, dstP, k, f)
      BY <1>7, <2>2 DEF RenameUndo
    <3>2. RedDirEntryDelete(w, dstP, k, f) =
            Step(w, f, WithDirents(w, dstP, [w.node[dstP].dirents EXCEPT ![k] = Unused]))
      BY ONLY <1>1, <1>2, <1>3, <2>2, DeleteIs
    <3>. QED  BY ONLY <1>2, <1>4, <1>5, <2>2, <3>1, <3>2
  <2>. QED  BY <2>1, <2>2
<1>9. f \in Outcomes /\ f # "ENOSPC"
  BY DEF Outcomes
<1>10. \/ s.ret = "OK" /\ s.v = z
       \/ s.ret = "EIO" /\ s.v = Critical(w)
  BY ONLY <1>8, <1>9, StepIs
<1>11. Critical(w) \in DirVolumes
  BY ONLY <1>3, CriticalIs
<1>. QED  BY ONLY <1>6, <1>7, <1>10, <1>11 DEF UndoOutcome

\* Results of the steps of a rename whose lookups found src and dst.
EntriesMoved(v, dst, r) ==
  \/ r.v = v /\ r.ret # "OK"
  \/ r.ret = "EIO" /\ \E u \in DirVolumes : r.v = Critical(u)
  \/ r.ret = "OK" /\ Renamed(v, r.v, dst.ino)

(* RenameEntries.                                                          *)
LEMMA RenameEntriesIs ==
  ASSUME NEW v, v \in DirVolumes, Tidy(v), NEW srcP, NEW src, NEW dstP, NEW dst, NEW name,
         RenameOf(v, srcP, src.idx, src.ino, dstP, dst.idx, dst.ino, name),
         NEW f, f.dst \in Outcomes, f.src \in Outcomes, f.undo \in {"OK", "EIO"}
  PROVE  EntriesMoved(v, dst, RenameEntries(v, srcP, src, dstP, dst, name, f))
<1>1. PICK j, x, k, y : j = src.idx /\ x = src.ino /\ k = dst.idx /\ y = dst.ino
  OBVIOUS
<1>2. PICK e : e = [name |-> name, ino |-> x]
  OBVIOUS
<1>3. PICK D : D = [v.node[dstP].dirents EXCEPT ![k] = e]
  OBVIOUS
<1>4. PICK w : w = WithDirents(v, dstP, D)
  OBVIOUS
<1>5. PICK C : C = [w.node[srcP].dirents EXCEPT ![j] = Unused]
  OBVIOUS
<1>6. PICK u : u = WithDirents(w, srcP, C)
  OBVIOUS
<1>7. PICK t : t = [u EXCEPT !.node[x].ulPInode = dstP]
  OBVIOUS
<1>8. PICK r : r = RenameEntries(v, srcP, src, dstP, dst, name, f)
  OBVIOUS
<1>9. PICK s : s = DirEntryWrite(v, dstP, k, x, name, f.dst)
  OBVIOUS
<1>10. RenameOf(v, srcP, j, x, dstP, k, y, name)
  BY <1>1
<1>11. /\ Changed(v, dstP, D, w) /\ IsDir(w, srcP) /\ Sized(w, srcP) /\ Used(w, srcP, j)
  BY ONLY v \in DirVolumes, Tidy(v), <1>2, <1>3, <1>4, <1>10, RenamePut
<1>12. Renamed(v, t, y)
  BY ONLY v \in DirVolumes, Tidy(v), <1>2, <1>3, <1>4, <1>5, <1>6, <1>7, <1>10, RenameMoved, ZenonT(60)
<1>13. /\ k \in 0 .. DIRENTS_MAX - 1 /\ j \in 0 .. DIRENTS_MAX - 1 /\ dstP \in Inodes
       /\ x # INODE_INVALID /\ Sized(v, dstP) /\ w \in DirVolumes
  BY ONLY <1>10, <1>11, Tidy(v), DirAssumption DEF RenameOf, IsDir, Exists, Tidy, TidyOff, Shape, Changed
<1>14. s = Step(v, f.dst, w)
  <2>1. DirEntryWrite(v, dstP, k, x, name, f.dst) =
          Step(v, f.dst, WithDirents(v, dstP, [v.node[dstP].dirents EXCEPT ![k] = [name |-> name, ino |-> x]]))
    BY ONLY v \in DirVolumes, <1>13, WriteIs
  <2>. QED  BY ONLY <1>2, <1>3, <1>4, <1>9, <2>1
<1>15. \/ s.ret = "OK" /\ s.v = w
       \/ s.ret = "ENOSPC" /\ s.v = v
       \/ s.ret = "EIO" /\ s.v = Critical(v)
  BY <1>14, StepIs
<1>16. CASE s.ret = "ENOSPC" /\ s.v = v
  <2>1. r = s
    BY ONLY <1>1, <1>8, <1>9, <1>16 DEF RenameEntries
  <2>. QED  BY <1>8, <1>16, <2>1 DEF EntriesMoved
<1>17. CASE s.ret = "EIO" /\ s.v = Critical(v)
  <2>1. r = s
    BY ONLY <1>1, <1>8, <1>9, <1>17 DEF RenameEntries
  <2>. QED  BY <1>8, <1>17, <2>1 DEF EntriesMoved
<1>18. CASE s.ret = "OK" /\ s.v = w
  <2>1. PICK q : q = RedDirEntryDelete(w, srcP, j, f.src)
    OBVIOUS
  <2>2. q = Step(w, f.src, u)
    <3>1. RedDirEntryDelete(w, srcP, j, f.src) =
            Step(w, f.src, WithDirents(w, srcP, [w.node[srcP].dirents EXCEPT ![j] = Unused]))
      BY ONLY <1>11, <1>13, DeleteIs
    <3>. QED  BY ONLY <1>5, <1>6, <2>1, <3>1
  <2>3. \/ q.ret = "OK" /\ q.v = u
        \/ q.ret = "ENOSPC" /\ q.v = w
        \/ q.ret = "EIO" /\ q.v = Critical(w)
    BY <2>2, StepIs
  <2>4. PICK o : o = RenameUndo(q.v, dstP, dst, name, f.undo)
    OBVIOUS
  <2>5. r = IF q.ret = "OK" THEN Done([q.v EXCEPT !.node[x].ulPInode = dstP])
            ELSE IF q.ret # "ENOSPC" THEN q
            ELSE IF o.ret = "OK" THEN Failed("ENOSPC", o.v)
            ELSE Failed(o.ret, Critical(o.v))
    BY ONLY <1>1, <1>8, <1>9, <1>18, <2>1, <2>4 DEF RenameEntries
  <2>6. CASE q.ret = "OK" /\ q.v = u
    <3>1. r.ret = "OK" /\ r.v = t
      BY ONLY <1>7, <2>5, <2>6 DEF Done
    <3>. QED  BY ONLY <1>1, <1>8, <1>12, <3>1 DEF EntriesMoved
  <2>7. CASE q.ret = "EIO" /\ q.v = Critical(w)
    <3>1. r = q
      BY ONLY <2>5, <2>7
    <3>. QED  BY ONLY <1>8, <1>13, <2>7, <3>1 DEF EntriesMoved
  <2>8. CASE q.ret = "ENOSPC" /\ q.v = w
    <3>1. UndoOutcome(v, RenameUndo(w, dstP, dst, name, f.undo))
      BY ONLY v \in DirVolumes, Tidy(v), <1>1, <1>2, <1>3, <1>4, <1>10, f.undo \in {"OK", "EIO"}, RenameUndone
    <3>2. o = RenameUndo(w, dstP, dst, name, f.undo)
      BY <2>4, <2>8
    <3>3. r = IF o.ret = "OK" THEN Failed("ENOSPC", o.v) ELSE Failed(o.ret, Critical(o.v))
      BY ONLY <2>5, <2>8
    <3>4. CASE o.ret = "OK" /\ o.v = v
      <4>1. r.ret = "ENOSPC" /\ r.v = v
        BY ONLY <3>3, <3>4 DEF Failed
      <4>. QED  BY ONLY <1>8, <4>1 DEF EntriesMoved
    <3>5. CASE o.ret = "EIO" /\ o.v \in DirVolumes
      <4>1. r.ret = "EIO" /\ r.v = Critical(o.v)
        BY ONLY <3>3, <3>5 DEF Failed
      <4>. QED  BY ONLY <1>8, <3>5, <4>1 DEF EntriesMoved
    <3>. QED  BY ONLY <1>8, <3>1, <3>2, <3>4, <3>5 DEF UndoOutcome
  <2>. QED  BY ONLY <2>3, <2>6, <2>7, <2>8
<1>. QED  BY ONLY <1>15, <1>16, <1>17, <1>18

(* What the lookups of a rename find.                                      *)
LEMMA RenameFinds ==
  ASSUME NEW v, v \in DirVolumes, Tidy(v), NEW srcP, srcP \notin v.orphans, NEW dstP, dstP \notin v.orphans,
         NEW srcName, NEW name, name \in Names,
         NEW src, src = RedDirEntryLookup(v, srcP, srcName), src.ret = "OK",
         NEW dst, dst = RedDirEntryLookup(v, dstP, name), dst.ret \in {"OK", "ENOENT"},
         dst.idx # DIR_INDEX_INVALID, src.ino # dst.ino, ReplaceCheck(v, src.ino, dst.ino) = "OK",
         ~(IsDir(v, src.ino) /\ DirCyclicRenameCheck(v, src.ino, dstP))
  PROVE  RenameOf(v, srcP, src.idx, src.ino, dstP, dst.idx, dst.ino, name)
<1>1. \A d : IsDir(v, d) => d \in Inodes /\ Sized(v, d)
  BY ONLY Tidy(v) DEF Tidy, TidyOff, Shape, IsDir, Exists
<1>2. /\ IsDir(v, srcP) /\ src.idx \in 0 .. DIRENTS_MAX - 1 /\ Used(v, srcP, src.idx)
      /\ v.node[srcP].dirents[src.idx] = [name |-> srcName, ino |-> src.ino]
      /\ src.ino \in Inodes /\ src.ino # INODE_INVALID
  BY <1>1, LookupIs
<1>3. v.node[srcP].dirents[src.idx].ino = src.ino
  BY ONLY <1>2
<1>4. /\ IsDir(v, dstP) /\ name # "" /\ dst.idx \in 0 .. DIRENTS_MAX - 1
      /\ dst.ino \in Inodes \cup {INODE_INVALID} /\ v.node[dstP].dirents[dst.idx].ino = dst.ino
      /\ \A i \in 0 .. DIRENTS_MAX - 1 : i # dst.idx /\ Used(v, dstP, i) => v.node[dstP].dirents[i].name # name
      /\ dst.ino # INODE_INVALID => v.node[dstP].dirents[dst.idx] = [name |-> name, ino |-> dst.ino]
      /\ dst.ino = INODE_INVALID => v.node[dstP].dirents[dst.idx] = Unused
  <2>1. CASE dst.ret = "OK"
    <3>1. /\ IsDir(v, dstP) /\ name # "" /\ dst.idx \in 0 .. DIRENTS_MAX - 1 /\ Used(v, dstP, dst.idx)
          /\ v.node[dstP].dirents[dst.idx] = [name |-> name, ino |-> dst.ino]
          /\ dst.ino \in Inodes /\ dst.ino # INODE_INVALID
      BY <1>1, <2>1, LookupIs
    <3>2. v.node[dstP].dirents[dst.idx].ino = dst.ino /\ v.node[dstP].dirents[dst.idx].name = name
      <4>1. PICK E, i : E = v.node[dstP].dirents[dst.idx] /\ i = dst.ino
        OBVIOUS
      <4>2. E = [name |-> name, ino |-> i]
        BY ONLY <3>1, <4>1
      <4>3. E.ino = i /\ E.name = name
        BY ONLY <4>2
      <4>. QED  BY ONLY <4>1, <4>3
    <3>3. \A i \in 0 .. DIRENTS_MAX - 1 : i # dst.idx /\ Used(v, dstP, i) => v.node[dstP].dirents[i].name # name
      BY ONLY <1>1, <3>1, <3>2, Tidy(v) DEF Tidy, TidyOff, UniqueNames
    <3>. QED  BY ONLY <3>1, <3>2, <3>3
  <2>2. CASE dst.ret = "ENOENT"
    <3>1. /\ IsDir(v, dstP) /\ name # ""
          /\ \A k \in 0 .. DIRENTS_MAX - 1 : Used(v, dstP, k) => v.node[dstP].dirents[k].name # name
          /\ dst.idx \in 0 .. DIRENTS_MAX /\ ~Used(v, dstP, dst.idx)
      BY <1>1, <2>2, LookupIs
    <3>2. dst.ino = INODE_INVALID
      BY <1>1, <2>2, LookupIs
    <3>3. dst.idx \in 0 .. DIRENTS_MAX - 1
      <4>1. DIRENTS_MAX \in Nat /\ dst.idx # DIRENTS_MAX
        BY BlockFits DEF DIR_INDEX_INVALID
      <4>2. PICK n : n = dst.idx
        OBVIOUS
      <4>3. n \in 0 .. DIRENTS_MAX
        BY ONLY <3>1, <4>2
      <4>4. DIRENTS_MAX \in Nat /\ n # DIRENTS_MAX
        BY ONLY <4>1, <4>2
      <4>5. n \in 0 .. DIRENTS_MAX - 1
        BY ONLY <4>3, <4>4
      <4>. QED  BY ONLY <4>2, <4>5
    <3>4. Sized(v, dstP) /\ v.node[dstP].dirents[dst.idx].ino = INODE_INVALID
      BY ONLY <1>1, <3>1 DEF Used
    <3>5. v.node[dstP].dirents[dst.idx] = Unused
      BY ONLY <3>3, <3>4 DEF Sized
    <3>. QED  BY ONLY <3>1, <3>2, <3>3, <3>4, <3>5
  <2>. QED  BY ONLY <2>1, <2>2, dst.ret \in {"OK", "ENOENT"}
<1>5. ASSUME IsDir(v, dst.ino) PROVE \A i \in 0 .. DIRENTS_MAX - 1 : ~Used(v, dst.ino, i)
  <2>1. dst.ino # INODE_INVALID /\ Sized(v, dst.ino) /\ Exists(v, dst.ino)
    BY ONLY <1>1, <1>5, DirAssumption DEF IsDir
  <2>2. ~(v.node[dst.ino].ullSize > 0)
    BY ONLY <1>5, <2>1, ReplaceCheck(v, src.ino, dst.ino) = "OK" DEF ReplaceCheck
  <2>. QED  BY ONLY <2>1, <2>2, EmptyIs
<1>6. IsDir(v, src.ino) => src.ino \notin Ancestors(v, dstP)
  BY DEF DirCyclicRenameCheck
<1>. QED  BY ONLY <1>2, <1>3, <1>4, <1>5, <1>6, srcP \notin v.orphans, dstP \notin v.orphans, src.ino # dst.ino,
                  name \in Names DEF RenameOf

(* CoreRename.                                                             *)
LEMMA RenameGood ==
  ASSUME NEW v, v \in DirVolumes, Tidy(v), NEW srcP, srcP \notin v.orphans, NEW dstP, dstP \notin v.orphans,
         NEW srcName, NEW name \in Names, NEW fOrphan,
         NEW f, f.dst \in Outcomes, f.src \in Outcomes, f.undo \in {"OK", "EIO"}
  PROVE  Good(v, CoreRename(v, srcP, srcName, dstP, name, fOrphan, f))
<1>1. PICK r : r = CoreRename(v, srcP, srcName, dstP, name, fOrphan, f)
  OBVIOUS
<1>2. PICK src : src = RedDirEntryLookup(v, srcP, srcName)
  OBVIOUS
<1>3. PICK dst : dst = RedDirEntryLookup(v, dstP, name)
  OBVIOUS
<1>4. PICK m : m = RenameEntries(v, srcP, src, dstP, dst, name, f)
  OBVIOUS
<1>5. PICK s : s = RedDirEntryRename(v, srcP, srcName, dstP, name, f)
  OBVIOUS
<1>6. CASE MountDir(v, srcP) # "OK" \/ MountDir(v, dstP) # "OK"
  <2>1. r.v = v
    BY ONLY <1>1, <1>6 DEF CoreRename, Failed
  <2>. QED  BY <1>1, <2>1, SameIsGood
<1>7. CASE MountDir(v, srcP) = "OK" /\ MountDir(v, dstP) = "OK"
  <2>1. r = IF s.ret = "OK" /\ s.dst # INODE_INVALID /\ s.dst # s.src
            THEN Done(RedInodeLinkDec(s.v, s.dst, fOrphan))
            ELSE Failed(s.ret, s.v)
    BY ONLY <1>1, <1>5, <1>7 DEF CoreRename
  <2>2. s.src = src.ino /\ s.dst = dst.ino
    BY ONLY <1>2, <1>3, <1>5 DEF RedDirEntryRename
  <2>3. DEFINE moves == /\ name \notin {".", ".."} /\ src.ret = "OK" /\ dst.ret \in {"OK", "ENOENT"}
                        /\ dst.idx # DIR_INDEX_INVALID /\ src.ino # dst.ino
                        /\ ReplaceCheck(v, src.ino, dst.ino) = "OK"
                        /\ ~(IsDir(v, src.ino) /\ DirCyclicRenameCheck(v, src.ino, dstP))
  <2>4. CASE ~moves
    <3>1. s.v = v /\ (s.ret # "OK" \/ src.ino = dst.ino)
      BY ONLY <1>2, <1>3, <1>5, <2>4 DEF RedDirEntryRename, Failed, Done
    <3>2. r.v = v
      BY ONLY <2>1, <2>2, <3>1 DEF Failed
    <3>. QED  BY ONLY v \in DirVolumes, Tidy(v), <1>1, <3>2, SameIsGood
  <2>5. CASE moves
    <3>1. s.ret = m.ret /\ s.v = m.v
      BY ONLY <1>2, <1>3, <1>4, <1>5, <2>5 DEF RedDirEntryRename
    <3>2. RenameOf(v, srcP, src.idx, src.ino, dstP, dst.idx, dst.ino, name)
      BY ONLY v \in DirVolumes, Tidy(v), srcP \notin v.orphans, dstP \notin v.orphans, name \in Names,
              <1>2, <1>3, <2>5, RenameFinds
    <3>3. EntriesMoved(v, dst, m)
      BY ONLY v \in DirVolumes, Tidy(v), f.dst \in Outcomes, f.src \in Outcomes, f.undo \in {"OK", "EIO"},
              <1>4, <3>2, RenameEntriesIs
    <3>4. PICK y : y = dst.ino
      OBVIOUS
    <3>5. src.ino # y
      BY <2>5, <3>4
    <3>6. CASE m.v = v /\ m.ret # "OK"
      <4>1. r.v = v
        BY ONLY <2>1, <3>1, <3>6 DEF Failed
      <4>. QED  BY ONLY v \in DirVolumes, Tidy(v), <1>1, <4>1, SameIsGood
    <3>7. CASE m.ret = "EIO" /\ \E u \in DirVolumes : m.v = Critical(u)
      <4>1. PICK u \in DirVolumes : m.v = Critical(u)
        BY <3>7
      <4>2. r.ret = "EIO" /\ r.v = Critical(u)
        BY ONLY <2>1, <3>1, <3>7, <4>1 DEF Failed
      <4>. QED  BY ONLY <1>1, <4>1, <4>2, ErrorIsGood
    <3>8. CASE m.ret = "OK" /\ Renamed(v, m.v, y)
      <4>1. PICK t : t = m.v
        OBVIOUS
      <4>2. /\ t \in DirVolumes /\ TidyOff(t, OffAfter(Exact, y, INODE_INVALID), INODE_INVALID) /\ Follows(v, t)
            /\ Reached(t, {y})
            /\ y # INODE_INVALID =>
                 /\ y \in Inodes /\ y # ROOT /\ Exists(t, y)
                 /\ IsDir(t, y) => \A i \in 0 .. DIRENTS_MAX - 1 : ~Used(t, y, i)
        BY ONLY <3>8, <4>1 DEF Renamed
      <4>3. CASE y = INODE_INVALID
        <5>1. r.ret = "OK" /\ r.v = t
          BY ONLY <2>1, <2>2, <3>1, <3>4, <3>8, <4>1, <4>3 DEF Failed
        <5>2. OffAfter(Exact, INODE_INVALID, INODE_INVALID) = Exact
          <6>1. ROOT \in Inodes /\ INODE_INVALID \notin Inodes
            BY DirAssumption
          <6>. QED  BY <6>1, OffMoves
        <5>3. Connected(t)
          BY ONLY <4>2, <4>3, DirAssumption DEF Connected, Reached
        <5>4. Tidy(t)
          BY ONLY <4>2, <4>3, <5>2, <5>3 DEF Tidy
        <5>. QED  BY ONLY <1>1, <4>2, <5>1, <5>4 DEF Good
      <4>4. CASE y # INODE_INVALID
        <5>1. PICK z : z = RedInodeLinkDec(t, y, fOrphan)
          OBVIOUS
        <5>2. r.ret = "OK" /\ r.v = z
          BY ONLY <2>1, <2>2, <3>1, <3>4, <3>5, <3>8, <4>1, <4>4, <5>1 DEF Done
        <5>3. /\ z \in DirVolumes /\ Tidy(z)
              /\ \A i \in Inodes : i # y => z.node[i] = t.node[i]
              /\ z.node[y].dirents \in {t.node[y].dirents, NoDirents}
          BY ONLY <4>2, <4>4, <5>1, LinkDecTidy
        <5>4. \A i \in Inodes : z.node[i].dirents = t.node[i].dirents \/ z.node[i].dirents = NoDirents
          BY ONLY <5>3
        <5>5. Follows(v, z)
          BY ONLY <4>2, <5>4, FollowsOn
        <5>. QED  BY ONLY <1>1, <5>2, <5>3, <5>5 DEF Good
      <4>. QED  BY ONLY <4>3, <4>4
    <3>. QED  BY ONLY <3>3, <3>4, <3>6, <3>7, <3>8 DEF EntriesMoved
  <2>. QED  BY ONLY <2>4, <2>5
<1>. QED  BY ONLY <1>6, <1>7

(* A freshly formatted volume is consistent.                               *)
LEMMA EmptyTidy ==
  EmptyVolume \in DirVolumes /\ Tidy(EmptyVolume)
<1>1. ROOT \in Inodes /\ INODE_INVALID \notin Inodes
  BY DirAssumption
<1>2. PICK r : r = NewNode("DIR", INODE_INVALID)
  OBVIOUS
<1>3. FREE_INODE \in Nodes /\ FREE_INODE.type = "FREE" /\ FREE_INODE.uNLink = 0
  BY NodeTypes DEF FREE_INODE
<1>4. /\ r \in Nodes /\ r.type = "DIR" /\ r.dirents = NoDirents /\ r.ullSize = 0 /\ r.uNLink = 1
  <2>1. UINT16_MAX \in Nat \ {0}
    <3>1. UINT16_MAX \in {UINT16_MAX, BLOCK_SIZE, DIRENT_SIZE, DIRENTS_MAX}
      OBVIOUS
    <3>. QED  BY <3>1, DirAssumption
  <2>2. 1 \in 0 .. UINT16_MAX
    BY <2>1
  <2>3. r = [FREE_INODE EXCEPT !.type = "DIR", !.uNLink = 1, !.ulPInode = INODE_INVALID]
    BY <1>2 DEF NewNode
  <2>4. FREE_INODE.dirents = NoDirents /\ FREE_INODE.ullSize = 0
    BY DEF FREE_INODE
  <2>. QED  BY ONLY <1>3, <2>2, <2>3, <2>4 DEF Nodes
<1>5. PICK v : v = EmptyVolume
  OBVIOUS
<1>6. /\ v.node = [i \in Inodes |-> IF i = ROOT THEN r ELSE FREE_INODE]
      /\ v = [node |-> v.node, orphans |-> {}, fMounted |-> TRUE, fReadOnly |-> FALSE]
  BY <1>2, <1>5 DEF EmptyVolume
<1>7. v.orphans = {} /\ v.fMounted = TRUE
  BY ONLY <1>6
<1>8. v \in DirVolumes
  <2>1. v.node \in [Inodes -> Nodes]
    BY ONLY <1>3, <1>4, <1>6
  <2>2. PICK N : N = v.node
    OBVIOUS
  <2>3. v = [node |-> N, orphans |-> {}, fMounted |-> TRUE, fReadOnly |-> FALSE] /\ N \in [Inodes -> Nodes]
    BY ONLY <1>6, <2>1, <2>2
  <2>. QED  BY ONLY <2>3 DEF DirVolumes
<1>9. \A i \in Inodes : i # ROOT => v.node[i] = FREE_INODE
  BY ONLY <1>6
<1>10. v.node[ROOT] = r
  BY ONLY <1>1, <1>6
<1>11. /\ \A i : IsDir(v, i) <=> i = ROOT
       /\ \A i : Exists(v, i) <=> i = ROOT
  BY ONLY <1>1, <1>3, <1>4, <1>9, <1>10 DEF IsDir, Exists
<1>12. \A k \in 0 .. DIRENTS_MAX - 1 : NoDirents[k] = Unused /\ Unused.ino = INODE_INVALID
  BY NodeTypes DEF NoDirents
<1>13. \A k \in 0 .. DIRENTS_MAX - 1 : v.node[ROOT].dirents[k] = Unused /\ ~Used(v, ROOT, k)
  BY ONLY <1>4, <1>10, <1>12 DEF Used
<1>14. Sized(v, ROOT)
  <2>1. IsTop(NoDirents, 0)
    BY <1>12, BlockFits DEF IsTop
  <2>2. Top(NoDirents) = 0
    BY <2>1, TopIs
  <2>3. Size(0) = 0
    BY DEF Size
  <2>. QED  BY ONLY <1>4, <1>10, <1>13, <2>2, <2>3 DEF Sized
<1>15. Tidy(v)
  <2>1. Shape(v)
    BY ONLY <1>1, <1>4, <1>7, <1>9, <1>10, <1>11, <1>14 DEF Shape
  <2>2. NamesLead(v) /\ UniqueNames(v)
    BY ONLY <1>11, <1>13 DEF NamesLead, UniqueNames
  <2>3. CountsOff(v, Exact) /\ OneParent(v, INODE_INVALID)
    BY ONLY <1>11 DEF CountsOff, OneParent
  <2>4. Orphaned(v)
    BY ONLY <1>7 DEF Orphaned
  <2>5. Connected(v)
    BY ONLY <1>11 DEF Connected, Reached, Closed, Live
  <2>. QED  BY ONLY <2>1, <2>2, <2>3, <2>4, <2>5 DEF Tidy, TidyOff
<1>. QED  BY <1>5, <1>8, <1>15
=============================================================================

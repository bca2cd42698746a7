--------------------------- MODULE FlashCmdProof ----------------------------
(***************************************************************************)
(* Lemmas about the sectors and pages of FlashCmd, for every geometry: the *)
(* sectors cover the flash, in order and without overlap, and a range of   *)
(* addresses stands for the sectors between its ends.                      *)
(***************************************************************************)
EXTENDS FlashCmd, TLAPS

(* Arithmetic of multiples of a page or a sector. *)
LEMMA ModSmall == ASSUME NEW p \in Nat \ {0}, NEW x \in 0..(p - 1)
                  PROVE  x % p = x
  BY SMT

LEMMA ModTwice ==
  ASSUME NEW p \in Nat \ {0}, NEW x \in 0..(2 * p - 1)
  PROVE  x % p = IF x >= p THEN x - p ELSE x
<1>1. CASE x < p  BY <1>1, SMT
<1>2. CASE x >= p
  <2>1. x = p * 1 + (x - p) /\ x - p \in 0..(p - 1)  BY <1>2
  <2> QED  BY <1>2, <2>1, SMT
<1> QED  BY <1>1, <1>2

LEMMA ModNegative ==
  ASSUME NEW p \in Nat \ {0}, NEW x \in (1 - p)..(-1)
  PROVE  x % p = x + p
<1>1. x = p * (-1) + (x + p) /\ x + p \in 0..(p - 1)  OBVIOUS
<1> QED  BY <1>1, SMT

LEMMA ModMultiple == ASSUME NEW p \in Nat \ {0}, NEW q \in Nat
                     PROVE  (q * p) % p = 0
  BY SMT

LEMMA MulMono == ASSUME NEW p \in Nat, NEW q \in Nat, NEW r \in Nat, q <= r
                 PROVE  q * p <= r * p
  BY SMT

LEMMA MulNext == ASSUME NEW p \in Nat, NEW q \in Int
                 PROVE  q * p \in Int /\ (q + 1) * p = q * p + p
  BY SMT

(* Every number is a multiple and a remainder. *)
LEMMA DivMod == ASSUME NEW p \in Nat \ {0}, NEW x \in Nat
                PROVE  \E q \in Nat : q * p <= x /\ x < q * p + p
                                      /\ x % p = x - q * p
<1> DEFINE q == x \div p
           r == x % p
<1>1. q \in Int /\ q >= 0 /\ r \in 0..(p - 1)
  BY SMT
<1>2. x = q * p + r
  BY SMT
<1>3. q * p \in Int
  BY SMT
<1> HIDE DEF q
<1>4. q \in Nat /\ q * p <= x /\ x < q * p + p /\ r = x - q * p
  BY <1>1, <1>2, <1>3
<1> QED  BY <1>4

(* Ranges of p numbers that start at multiples of p are disjoint. *)
LEMMA BlockOrder == ASSUME NEW p \in Nat \ {0}, NEW q \in Nat, NEW r \in Nat,
                           NEW x \in Int, q * p <= x, x < q * p + p
                    PROVE  /\ r * p <= x <=> r <= q
                           /\ x < r * p + p <=> q <= r
<1>1. r <= q => r * p <= x
  BY MulMono
<1>2. r > q => r * p > x
  <2> SUFFICES ASSUME r > q PROVE r * p > x  OBVIOUS
  <2>1. (q + 1) * p <= r * p  BY MulMono
  <2> QED  BY <2>1, MulNext
<1>3. q <= r => x < r * p + p
  <2> SUFFICES ASSUME q <= r PROVE x < r * p + p  OBVIOUS
  <2>1. q * p <= r * p  BY MulMono
  <2> QED  BY <2>1, MulNext
<1>4. q > r => x >= r * p + p
  <2> SUFFICES ASSUME q > r PROVE x >= r * p + p  OBVIOUS
  <2>1. (r + 1) * p <= q * p  BY MulMono
  <2> QED  BY <2>1, MulNext
<1> QED  BY <1>1, <1>2, <1>3, <1>4, MulNext
-----------------------------------------------------------------------------
LEMMA SectorSizes ==
  /\ SectorSize \in Nat \ {0} /\ FlashSize \in Nat \ {0}
  /\ CFG_FLASH_BASE \in Nat \ {0} /\ b_end \in Nat
  /\ AddrMod \in Nat \ {0} /\ b_end < AddrMod
  /\ 0 \in Sectors /\ SectorCount - 1 \in Sectors
  /\ SectorEnd(SectorCount - 1) = b_end
<1>1. SectorSize \in Nat \ {0}
  BY GeometryAssumption, SMT DEF SectorSize
<1>2. FlashSize \in Nat \ {0}
  BY <1>1, GeometryAssumption, SMT DEF FlashSize
<1>3. (SectorCount - 1) * SectorSize + SectorSize = FlashSize
      /\ (SectorCount - 1) * SectorSize \in Int
  BY <1>1, MulNext, GeometryAssumption DEF FlashSize
<1>4. SectorEnd(SectorCount - 1) = b_end
  BY <1>1, <1>2, <1>3, GeometryAssumption DEF SectorEnd, start, b_end
<1>5. CFG_FLASH_BASE \in Nat \ {0} /\ b_end \in Nat
      /\ AddrMod \in Nat \ {0} /\ b_end < AddrMod
  BY <1>2, GeometryAssumption, AddrAssumption DEF b_end
<1>6. 0 \in Sectors /\ SectorCount - 1 \in Sectors
  BY GeometryAssumption DEF Sectors
<1> QED  BY <1>1, <1>2, <1>4, <1>5, <1>6

LEMMA SectorBounds ==
  ASSUME NEW s \in Nat
  PROVE  /\ start(s) \in Nat /\ SectorEnd(s) \in Nat
         /\ start(s) <= SectorEnd(s)
         /\ SectorEnd(s) + 1 = start(s) + SectorSize
         /\ s * SectorSize \in Nat
         /\ start(s) = CFG_FLASH_BASE + s * SectorSize
         /\ start(s) >= CFG_FLASH_BASE
  BY SectorSizes, SMT DEF start, SectorEnd

(* An address in a sector is behind the start of no later sector and       *)
(* before the end of no earlier one.                                       *)
LEMMA SectorOrder ==
  ASSUME NEW s \in Nat, NEW t \in Nat, NEW a \in Int,
         start(s) <= a, a <= SectorEnd(s)
  PROVE  /\ start(t) <= a <=> t <= s
         /\ a <= SectorEnd(t) <=> s <= t
<1> DEFINE x == a - CFG_FLASH_BASE
<1>1. x \in Int /\ s * SectorSize <= x /\ x < s * SectorSize + SectorSize
  BY SectorBounds, SectorSizes
<1>2. /\ t * SectorSize <= x <=> t <= s
      /\ x < t * SectorSize + SectorSize <=> s <= t
  <2> HIDE DEF x
  <2> QED  BY <1>1, BlockOrder, SectorSizes
<1> QED  BY <1>2, SectorBounds, SectorSizes

LEMMA OneSector ==
  ASSUME NEW s \in Nat, NEW t \in Nat, NEW a \in Int,
         start(s) <= a, a <= SectorEnd(s), start(t) <= a, a <= SectorEnd(t)
  PROVE  s = t
  BY SectorOrder

(* Every address of the flash is in a sector. *)
LEMMA SectorOf ==
  ASSUME NEW a \in Int, InFlash(a)
  PROVE  \E s \in Sectors : start(s) <= a /\ a <= SectorEnd(s)
<1> DEFINE x == a - CFG_FLASH_BASE
<1>1. x \in Nat /\ x < FlashSize
  BY SectorSizes DEF InFlash, b_end
<1>2. PICK q \in Nat : q * SectorSize <= x /\ x < q * SectorSize + SectorSize
  <2> HIDE DEF x
  <2> QED  BY <1>1, DivMod, SectorSizes
<1>3. start(q) <= a /\ a <= SectorEnd(q)
  BY <1>2, SectorBounds, SectorSizes
<1>4. q <= SectorCount - 1
  BY <1>3, SectorOrder, SectorSizes, GeometryAssumption DEF InFlash
<1>5. q \in Sectors  BY <1>4, GeometryAssumption DEF Sectors
<1> QED  BY <1>3, <1>5, Zenon

LEMMA SectorInFlash ==
  ASSUME NEW s \in Sectors
  PROVE  /\ s \in Nat
         /\ InFlash(start(s)) /\ InFlash(SectorEnd(s))
<1>1. s \in Nat /\ s <= SectorCount - 1 /\ SectorCount - 1 \in Nat
  BY GeometryAssumption DEF Sectors
<1>2. SectorEnd(s) <= SectorEnd(SectorCount - 1)
  BY <1>1, SectorBounds, SectorOrder
<1>3. /\ start(s) \in Nat /\ SectorEnd(s) \in Nat
      /\ start(s) <= SectorEnd(s) /\ start(s) >= CFG_FLASH_BASE
  BY <1>1, SectorBounds
<1>4. SectorEnd(s) <= b_end /\ b_end \in Nat /\ CFG_FLASH_BASE \in Nat
  BY <1>2, SectorSizes
<1> QED  BY <1>1, <1>3, <1>4 DEF InFlash

(* The number of a sector selects that sector. *)
LEMMA SentAddress ==
  ASSUME NEW s \in Sectors
  PROVE  ath_spi_send_addr(s) = s
  BY ModSmall, GeometryAssumption DEF ath_spi_send_addr, Sectors

(* The same for the cells of the chip. *)
LEMMA CellOfSector ==
  ASSUME NEW s \in Nat, NEW c \in Int
  PROVE  c \in SectorCells(s) <=>
           start(s) <= CFG_FLASH_BASE + c /\ CFG_FLASH_BASE + c <= SectorEnd(s)
  BY SectorBounds, SectorSizes DEF SectorCells

LEMMA CellInFlash ==
  \A c \in Int : c \in Cells <=> InFlash(CFG_FLASH_BASE + c)
  BY SectorSizes DEF Cells, InFlash, b_end
-----------------------------------------------------------------------------
(* A range from the start of sector s to the end of sector e, or beyond    *)
(* the flash, stands for the sectors from s to e, or to the last.          *)
LEMMA FillRange ==
  ASSUME NEW s \in Sectors, NEW e \in Sectors, NEW last \in Nat,
         start(s) <= last,
         last = SectorEnd(e) \/ (last > b_end /\ e = SectorCount - 1)
  PROVE  flash_fill_sect_ranges(start(s), last) = {t \in Sectors : s <= t /\ t <= e}
<1>1. s \in Nat /\ e \in Nat /\ \A t \in Sectors : t \in Nat
  BY SectorInFlash
<1>2. s_first(start(s), last) = {s}
  <2>1. ASSUME NEW t \in Sectors, start(s) = start(t) PROVE t = s
    <3>1. start(s) \in Nat /\ start(s) <= SectorEnd(s) /\ start(t) <= SectorEnd(t)
      BY <1>1, SectorBounds
    <3> QED  BY <1>1, <2>1, <3>1, OneSector
  <2> QED  BY <2>1 DEF s_first
<1>3. CASE last = SectorEnd(e)
  <2>1. ASSUME NEW t \in Sectors, last = SectorEnd(t) PROVE t = e
    <3>1. start(e) <= SectorEnd(e) /\ start(t) <= SectorEnd(t)
      BY <1>1, SectorBounds
    <3>2. /\ start(e) <= last /\ last <= SectorEnd(e)
          /\ start(t) <= last /\ last <= SectorEnd(t)
      BY <1>3, <2>1, <3>1
    <3> QED  BY <1>1, <3>2, OneSector
  <2>2. s_end(start(s), last) = {e}
    BY <1>3, <2>1 DEF s_end
  <2>3. ~(start(s) > last)
    BY <1>1, SectorBounds
  <2> QED  BY <1>2, <2>2, <2>3, Zenon DEF flash_fill_sect_ranges
<1>4. CASE last > b_end /\ e = SectorCount - 1
  <2>1. \A t \in Sectors : last # SectorEnd(t)
    BY <1>4, SectorInFlash, SectorSizes DEF InFlash
  <2>2. s_end(start(s), last) = {}
    BY <2>1 DEF s_end
  <2>3. ~(start(s) > last)
    BY <1>1, SectorBounds
  <2> QED  BY <1>2, <1>4, <2>2, <2>3, Zenon DEF flash_fill_sect_ranges
<1> QED  BY <1>3, <1>4

(* A range that does not begin with a sector, that ends before it begins,  *)
(* or that ends inside a sector, stands for nothing.                       *)
LEMMA FillNothing ==
  ASSUME NEW first, NEW last,
         \/ \A s \in Sectors : first # start(s)
         \/ first > last
         \/ ~(last > b_end) /\ \A s \in Sectors : last # SectorEnd(s)
  PROVE  flash_fill_sect_ranges(first, last) = {}
<1>1. CASE \A s \in Sectors : first # start(s)
  <2>1. s_first(first, last) = {}  BY <1>1 DEF s_first
  <2> QED  BY <2>1 DEF flash_fill_sect_ranges
<1>2. CASE first > last
  BY <1>2 DEF flash_fill_sect_ranges
<1>3. CASE ~(last > b_end) /\ \A s \in Sectors : last # SectorEnd(s)
  <2>1. s_end(first, last) = {}  BY <1>3 DEF s_end
  <2> QED  BY <1>3, <2>1 DEF flash_fill_sect_ranges
<1> QED  BY <1>1, <1>2, <1>3

(* The end of `start +length' is the end of the sector its last address is *)
(* in.                                                                     *)
LEMMA SpecWithLength ==
  ASSUME NEW first, NEW second, NEW s \in Sectors,
         LastAddr(first, second) \in Int,
         start(s) <= LastAddr(first, second),
         LastAddr(first, second) <= SectorEnd(s)
  PROVE  addr_spec(first, TRUE, second) =
           [ok |-> TRUE, first |-> first, last |-> SectorEnd(s)]
<1> DEFINE e == LastAddr(first, second)
<1>1. \A t \in Sectors : start(t) <= e /\ e <= SectorEnd(t) => t = s
  BY SectorInFlash, OneSector
<1>2. InFlash(e)
  BY SectorInFlash, SectorBounds, SectorSizes DEF InFlash
<1> HIDE DEF e
<1>3. (CHOOSE t \in Sectors : start(t) <= e /\ e <= SectorEnd(t)) = s
  <2>1. start(s) <= e /\ e <= SectorEnd(s)  BY DEF e
  <2> QED  BY <1>1, <2>1
<1> QED  BY <1>2, <1>3, Zenon DEF addr_spec, e
-----------------------------------------------------------------------------
(* The page of a cell begins at a multiple of the page size. *)
LEMMA PageBlock ==
  ASSUME NEW x \in Nat
  PROVE  \E q \in Nat : /\ PageStart(x) = q * PageSize
                        /\ q * PageSize <= x /\ x < q * PageSize + PageSize
                        /\ x % PageSize = x - q * PageSize
<1>1. PageSize \in Nat \ {0}  BY GeometryAssumption
<1>2. PICK q \in Nat : /\ q * PageSize <= x /\ x < q * PageSize + PageSize
                       /\ x % PageSize = x - q * PageSize
  BY <1>1, DivMod
<1>3. q * PageSize \in Nat  BY <1>1, SMT
<1> QED  BY <1>2, <1>3 DEF PageStart

LEMMA PageBounds ==
  ASSUME NEW x \in Nat
  PROVE  /\ PageStart(x) \in Nat /\ PageStart(x) <= x
         /\ x < PageStart(x) + PageSize
         /\ x % PageSize = x - PageStart(x) /\ x % PageSize \in Nat
<1>1. PageSize \in Nat \ {0}  BY GeometryAssumption
<1>2. PICK q \in Nat : /\ PageStart(x) = q * PageSize
                       /\ q * PageSize <= x /\ x < q * PageSize + PageSize
                       /\ x % PageSize = x - q * PageSize
  BY PageBlock
<1>3. q * PageSize \in Nat  BY <1>1, SMT
<1> QED  BY <1>1, <1>2, <1>3

(* A later page begins no earlier. *)
LEMMA LaterPage ==
  ASSUME NEW x \in Nat, NEW y \in Nat, y >= PageStart(x) + PageSize
  PROVE  PageStart(y) >= PageStart(x) + PageSize
<1>1. PageSize \in Nat \ {0}  BY GeometryAssumption
<1>2. PICK q \in Nat : PageStart(x) = q * PageSize  BY PageBlock
<1>3. PICK r \in Nat : /\ PageStart(y) = r * PageSize
                       /\ r * PageSize <= y /\ y < r * PageSize + PageSize
  BY PageBlock
<1>4. (q + 1) * PageSize = q * PageSize + PageSize  BY <1>1, MulNext
<1>5. q + 1 <= r
  <2>1. (q + 1) * PageSize <= y <=> q + 1 <= r
    BY <1>1, <1>3, BlockOrder
  <2>2. q * PageSize \in Int  BY <1>1, MulNext
  <2> QED  BY <1>1, <1>2, <1>4, <2>1, <2>2
<1>6. (q + 1) * PageSize <= r * PageSize  BY <1>1, <1>5, MulMono
<1> QED  BY <1>2, <1>3, <1>4, <1>6

(* The n-th byte sent to a page goes n cells on, or round to its start. *)
LEMMA NthInPage ==
  ASSUME NEW dst \in Nat, NEW c \in PageCells(dst)
  PROVE  /\ c \in Nat
         /\ Nth(c, dst) = IF c >= dst THEN c - dst ELSE c - dst + PageSize
<1> DEFINE x == c - dst
<1>1. PageSize \in Nat \ {0}  BY GeometryAssumption
<1>2. PageStart(dst) \in Nat /\ PageStart(dst) <= dst
      /\ dst < PageStart(dst) + PageSize
  BY PageBounds
<1>3. c \in Nat /\ x \in (1 - PageSize)..(PageSize - 1)
  BY <1>1, <1>2 DEF PageCells
<1> HIDE DEF x
<1>4. CASE x >= 0
  <2>1. x % PageSize = x  BY <1>1, <1>3, <1>4, ModSmall
  <2> QED  BY <1>3, <1>4, <2>1 DEF Nth, x
<1>5. CASE x < 0
  <2>1. x % PageSize = x + PageSize  BY <1>1, <1>3, <1>5, ModNegative
  <2> QED  BY <1>1, <1>3, <1>5, <2>1 DEF Nth, x
<1> QED  BY <1>3, <1>4, <1>5
=============================================================================
